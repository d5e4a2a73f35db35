# A TLA+ verification of mosh-client

`mosh-client` is a client of the mosh protocol in Rust: it parses what
`mosh-server new` prints, opens an encrypted UDP session, and keeps two streams
synchronised with the State Synchronization Protocol (SSP): the user's
keystrokes and resizes outward, the host's terminal output inward. This
directory holds TLA+ models of that code, TLC configurations that check them on
small instances, and TLAPS proofs for arbitrary ones. `PROJECT.json` records,
for every definition, the source lines it models; for every property, a mutant
of the model that breaks it.

Paths below are relative to the repository root.

## 1. The system

| component | state it keeps | operations | what makes it correct |
|---|---|---|---|
| SSP sender (`src/ssp.rs`, `SspSender`) | live stream, queue of sent states, index of the state the peer is assumed to hold, ack number, timers, shutdown flags | push, `start_shutdown`, `process_acknowledgment_through`, `set_ack_num`/`set_data_ack`/`remote_heard`, `tick`, `wait_time` | every diff is against a state the peer may still hold; nothing typed is skipped; a clean end means all was delivered |
| SSP receiver (`src/ssp.rs`, `SspReceiver`) | queue of held states sorted by number, quench deadline | `process_instruction` | a diff is applied only to its own base; the newest state never goes back; the queue stays bounded and non-empty |
| User stream (`src/ssp.rs`, `UserStream`) | the events | push, `diff_from`, `subtract`, `apply_string` | a diff applied to its base gives the target |
| Host stream and display (`src/ssp.rs`, `EventLog`, `HostStreamState`; `src/session.rs`) | tree of events shared by held states, the engine shown to the UI | append, suffix, rebuild, capture | the engine shows the newest state, at the size last asked for |
| Fragment layer (`src/fragment.rs`) | last id, header and budget; the assembly in progress | `make_fragments`, `add_fragment` | fragments of two instructions never mix; no garbage blocks the next instruction |
| Wire codec (`src/wire.rs`) | none | varints, protobuf messages | decode inverts encode; unknown fields are skipped; damage is refused or contained |
| Bootstrap (`src/bootstrap.rs`) | the scan of the server's output | `parse_mosh_bootstrap` | the right address, port and key are picked |
| Session loop (`src/session.rs`) | command channel, sockets, flags | drain commands, tick, wait, receive, end | commands reach the sender, the loop ends |
| Packet layer (`src/session.rs`, `src/crypto.rs`) | sequence numbers, saved timestamp, RTT estimate, nonce counter | `send_fragment`, `handle_datagram` | replays do not disturb timing, a nonce is never reused |
| Roaming (`src/session.rs`) | list of sockets | hop, prune, drain | a hop never loses the socket the peer answers on |
| Local echo (`src/session.rs`) | guesses by frame, shadow cursor | predict, retire | guesses disappear when the peer's echo covers them |

How they interact. One thread runs the session loop: commands from the UI
thread arrive over a channel and are pushed on the sender's live stream; `tick`
compares that stream with the queue of sent states and may emit one instruction
(`old_num`, `new_num`, `ack_num`, `throwaway_num`, diff); the fragmenter slices
it, the sealer encrypts each slice, a socket sends it. A datagram comes back the
same way; `handle_datagram` first gives the ack number to the sender
(`process_acknowledgment_through`), then the instruction to the receiver, and
`apply_recv_outcome` tells the sender which host state to acknowledge. The
display is shared with the UI thread under a lock.

What is hard: UDP loses, duplicates and reorders; each end culls its queue by
rules of its own, so a diff may name a base the other end has dropped; one
number, `u64::MAX`, stands for every state sent during shutdown; deadlines race
late acknowledgements; fragments of successive instructions interleave. The
list under `hazards` in `PROJECT.json` locates each of these at its line and
names the properties that would notice it going wrong.

## 2. The modules

```
UserStream ──┬── SspSender ───┬── SspDelivery
             └── SspReceiver ─┴── SspLink ──(refines)── StreamSync
                     ├── SspAnyPeer
                     └── Display
SessionLoop   Packet   Roaming   Prediction
Fragment ── FragmentLink
Varint ── Wire ──┬── Codecs
      Bootstrap ─┘
```

The proofs about a component are in a module of their own, named after it:
`SspLinkProofs`, `SspDeliveryProofs`, `SspAnyPeerProofs`, `DisplayProofs` (these
four extend `SspReceiverProofs`, the lemmas about streams and queues),
`SessionLoopProofs` and `PredictionProofs`. `DatagramProofs` has the three layers
under an instruction, one after the other: its fragments (`FragmentLink`, whose
specification is `FragmentSpec`), the packets (`Packet`, `Spec`) and the sockets
(`Roaming`, `RoamingSpec`); no two of them share a variable.

**UserStream** is the append-only log: a stream is a sequence of events, and a
diff is the sequence of events that its bytes decode to. `common_prefix_len`,
`diff_from`, `subtract` and `apply_string` keep their names.

**SspSender** has a variable for each field of `SspSender<UserStream>` and an
action for each method that changes one. `tick` is the disjunction of its three
outcomes: `TickSilent` (nothing due, or a due frame whose diff is empty),
`TickEmptyAck` (`send_empty_ack`) and `TickSend` (`send_to_receiver`). Each is
the whole method: the walk of `update_assumed_receiver_state`, the rewriting of
every stream by `rationalize_states`, `compute_timers`, the prospective resend,
`add_sent_state` with its cull and index repair, and `send_in_fragments`.

**SspReceiver** has the two fields of the receiver that matter and one action
per outcome of `process_instruction`: `Duplicate`, `NoReference`,
`ReferenceThrownAway`, `Quenched`, `Latest`, `OutOfOrder`, `BadDiff`. What the
code has already done when it returns early (the throwaway, the quench window)
is part of the action.

**SspLink** composes one direction of a session: the client's sender, the
network, and a receiver at the other end. (The code's own tests run the peer
with the same receiver; the receiver of a real mosh-server is another
implementation of the same protocol.) Of the reverse direction it keeps what
the sender sees: the ack numbers the peer puts on the wire, and whether the
peer's own stream advanced. Two history variables are read by no guard of the
code's actions: `typed`, everything entered, and `content`, how many events each
state number stands for. (`Type` reads `typed` for its bound alone.)

**SspDelivery** is the same sender under the loop that drives it, with no bound
on time: commands and a tick (`Type`, `StartShutdown`, `Tick`), `wait_time`
clamped to `POLL_CAP_MS` (`Wait`), and a receive that sleeps until then or until
a datagram comes (`Hear`, `Drained`). Either end may close the session, and the
tick takes either exit: the peer's shutdown acknowledged by something sent, or
our own acknowledged or given up. The sender's clock stands still at `Now`,
and `Clock` moves its timestamps into the past instead, each down to the age
from which the code no longer tells it apart. State numbers are renamed to their
ranks among those either end can still name. Both keep the state space finite
without stopping the behaviour, so that delivery can be stated as liveness. The
peer holds states by number and the length of each; that their contents are
right is `SspLink`'s business.

**StreamSync** is the promise to the layers above, with no numbers, timers or
network: what the peer sees is a growing prefix of what was entered, and the end
of the stream is confirmed only when the peer has it all.

**SspAnyPeer** gives the receiver every instruction over a range of numbers,
ill-formed throwaways and diffs included.

**SessionLoop** is the life of a session: the handle that the embedder's threads
share (`start`, `command`, `terminate`, `join`) and the loop thread, one action
per stage of `run()`: `DrainOne` and `Drained` (`drain_commands`, then the fatal
check), `Tick`, `Ends` (the end-of-session checks), `Datagram` and `Received`
(`receive`). `owner` is the mutex around the thread's handle, which `join()`
holds while it waits. Of the SSP engines only what ends a session is kept.

**Display** extends the receiver with what `handle_datagram` does to the shared
display. A host state is its log; an event carries the numbers it paints from
and to, and painting on any other screen gives `Garbage`. The loop's steps are
split where it releases the display's lock (`Datagram`, `Rebuild`, `Replace`,
`ScreenChanged`), `resize` where it does, and a renderer reads `frame_version`
and the display in two steps. The bytes go to a consumer that drains them when it
likes into an engine of its own, and may switch their capture off and on.

**Packet** is `send_fragment`, the first half of `handle_datagram`, and the
sealer and opener under them, at both ends of a network that keeps every
datagram up to `MaxDelay` and may deliver it again, late, or to its sender.

**Roaming** is `maybe_hop_port`, `prune_sockets` and `receive` on the list of
sockets, against paths that die and a server that answers where it last heard
the client.

**Prediction** is the overlay of guesses, over the numbering of the sender's
states: each sent number stands for a prefix of the typing, which is what
`NumberingInv` of `SspLink` proves of the real queue. The host and the embedder
resize the screen under it.

**Fragment** holds `make_fragments` and `add_fragment` as operators;
**FragmentLink** is a fragmenter, a network and an assembly, with an MTU that
changes between calls, and with strays that no fragmenter would make. The strays
have an id of their own: one under an id in use may of course spoil its assembly.

**Varint** and **Wire** are the codec of `src/wire.rs` on bytes. `Items` is the
one loop that all decoders share: it yields the known fields with their values,
or why a value could not be read, and skips the others; a strict decoder fails
with the first error among them and a tolerant one takes what is readable.
**Bootstrap** is the scan of the server's output, line by line. **Codecs** builds
inputs for all of them piece by piece, and adds what the program does with a
decoded diff (`UserStream` and `HostStreamState`) and the fragment header. It
justifies treating diffs as sequences of events elsewhere.

### What is abstracted

* *The network* is a set of instructions and a set of acks that only grow:
  anything sent may arrive at any later time, any number of times, or never.
* *The order of the loop.* `run()` cycles through commands, tick, wait and
  receive. The actions interleave freely here, so every order of the loop is
  included; safety that holds here holds there.
* *The end of the loop* (`LoopEnds`) tests that some instruction acknowledged
  `SHUTDOWN_NUM`; the code reads `last_ack_sent`, the number in the last one
  sent. They agree because `ack_num` only grows and no number exceeds
  `SHUTDOWN_NUM`.
* *Fields left out*: the sender's `next_send_time` is written and never read;
  nothing reads the timestamps of the receiver's states; `protocol_version` is
  constant, and the version check belongs to the session loop.
* `retain(num >= n)` is a suffix of the queue, which is sorted
  (`HeldStatesSorted`). Queue indices count from 1.
* The error path of `send_in_fragments` when `make_fragments` fails is left out:
  the session's MTU is never below 500.
* `SHUTDOWN_NUM` is u64::MAX in the code. `NumbersLeft` stops ordinary numbering
  below it, which would take the code 2^64 sends.
* *Prediction* numbers its sends 0, 1, 2, ... and leaves out the shutdown, in
  which input is no longer accepted. `cells` and `frames`, pushed and popped
  together, are one sequence. Where a resize or a repaint leaves the cursor is the
  engine's affair, so it is any position.
* *Display*: the capture flag is read once per fed log, not once per event; a
  switch between two events of one log is taken to come before it.
* *SspDelivery*: a datagram still under way when a unit of time passes is lost.
  (Late and repeated ones are in `SspLink`.) The peer's answers need no path:
  the peer may at any time acknowledge a state it holds, or never. A state of its
  own stream is `SHUTDOWN_NUM`, its last, or any other, which is 0: the sender
  tells no more apart.
* *Codecs*: `BASE`, `WORD`, `INT` and `MAX_VARINT_BYTES` scale 7 bits, 64 bits, 32
  bits and 10 bytes down together.
* *Bootstrap*: a line is its kind and whether it is well formed; the trimming and
  splitting of its text and the quoted tail of an error message are left out.
* *Packet*: the AEAD is perfect. The estimate (`srtt`, `rttvar`) is floating
  point and left out; the samples that enter it are kept.
* *Time in SessionLoop and Roaming* is a set of ages that stop at the last value
  the code tells apart, so that liveness can be checked in a finite state space.
  Roaming's unit of time is long against a round of the loop.
* *SessionLoop* bounds the commands ever sent: `drain_commands` runs until the
  channel is empty, so an embedder that never stops sending starves the loop.
* Event callbacks only send commands. One that calls `start`, `join` or
  `terminate` waits for its own thread.
* *zlib* inverts itself, and refuses anything else and whatever inflates past
  `DECOMPRESS_LIMIT`: a payload is a sequence of cells, and `Inflate` looks it up
  among the payloads of the instructions within the limit.

## 3. What TLC checks

| run | configuration | what it shows |
|---|---|---|
| `link` | 2 keys, 2 events, clock to 5, queues of 3 and 2, 2 shutdown tries | `LinkInv`, the inductive invariant, which includes the types; the peer's states are prefixes of what was typed (`StreamsNeverFork`); the base of any full resend is still held (`KnownReceiverHeld`); `ShutdownAckedMeansDelivered`; a frame that is due has something in it (`DueFrameHasNews`); the two numbers of an instruction determine its diff (`HeaderDeterminesDiff`); the cull never erases the state the diff starts from, and the repaired index still names it (`AssumedSurvivesCull`), so the comment in `add_sent_state` is true and its fall-back to the head is defensive; acknowledgements never go back (`AckedNeverRegresses`); the pair implements `StreamSync` |
| `delivery` | 1 key, 2 events, queue of 3, ack interval 3, delay 1, frames 2 apart, silence limit 4, sleeps of at most 2, 1 shutdown try, unbounded time | `Delivered`: what was typed reaches the peer however often it is lost, also after the silence limit has stopped the frames, in every session that neither end closes; `SpeaksInTime`: no gap longer than the heartbeat, and data acknowledged within its delay, or within a frame interval once either end closes the session, however the sleeps fall |
| `any_peer` | every instruction over the numbers 0..5 | `HeldStatesSorted`, `QuenchBoundsQueue`, `LatestNeverRegresses` with a peer that breaks every rule |
| `fragments` | 3 instructions, one of which inflates past the limit, 3 MTUs, 2 ids, every stray over 4 indices and 2 contents under a third id | `AssembledAsSent`, and `NeverWedged` in every order of the pieces, of what the fragmenter sent and the two limits admit; `ArrivedIsCount`, `FreshIdRecovers` whatever the strays left behind |
| `codecs` | user streams of up to 4 events, host messages of up to 3 instructions, instructions and fragments at the limits of every field, raw tails of up to 4 bytes, output of up to 4 lines | `DiffCarriesTheSuffix`, `HostDiffApplied`, `HeadersCarried`: everything comes back from its bytes; `UnknownFieldsSkipped`: fields of every wire type and nested groups, at every level, change nothing; `DamageContained`: a message cut at any byte, or with an unreadable tail; `BootstrapFaithful` |
| `session` | 2 threads, 3 commands, 2 tries, timeout 3 | `SilentAfterTerminate`: no event once a `terminate()` has returned, to whichever thread; `EndIsAnnouncedOnce`; `ShutdownEnds`: a shutdown by either side ends the loop though everything be lost; `TerminateReturns` |
| `display` | 3 host states (two repaint, one resizes), receiver cap 2, 1 local resize, any switching of the capture | `DisplayShowsLatest`, `NoStaleFrame`, `NewestIsDrawn`; `ConsumerFollowsUntilBranch`: the raw bytes reach their consumer once and in order |
| `packet` | timestamps mod 9, 2 sequence numbers, 4 blocks, delays to 2 | `NoncesUnique`, `RttIsNetworkDelay` (to the millisecond the reserved value costs), `EchoedOnce` |
| `roaming` | 3 sockets, hop after 1, old after 2, 2 dying paths | `RoamsOut`: a silent session gets through again; `LingersForReplies`; `DrainBounded`: one wake handles a bounded number of datagrams from old sockets |
| `prediction` | 4 bytes in bursts of up to 3, 3 sends, a screen of 3 x 2 or 2 x 2 | `NoGuessOutlivesEcho`, `NoEmptySlot` |
| `display_resize`, `fresh_guess` | as `display` (with a server that does not resize) and `prediction` | findings, see below |

Why the bounds are enough to be interesting:

* In `link` the queue cap of 3 is passed by four sends, so the cull runs; the
  receiver's cap of 2 is passed, so quenching and its window run; the clock of 5
  passes the ack interval (3), the retransmission timeout plus ack delay (2),
  the silence limit (4) and the shutdown limit (4). `RESEND_LIMIT` 2 and
  `RESEND_SLACK` 1 make the prospective resend go either way. `SHUTDOWN_NUM` 6
  leaves five ordinary numbers. The two keys are interchangeable, hence the
  symmetry set.
* A cull there erases the second of three states, the only one that is neither
  the head nor the newest, so a walk that stopped in the middle would lose the
  state it chose. In `delivery` a sleep may last 2, longer than the ack delay of 1, so `wait_time` alone keeps the
  deadlines (in the code the 50 ms of `POLL_CAP_MS` would help it). The frame
  interval of 2 is longer than the ack delay too, so the later deadline, with
  either end closing, is reached. Its timeouts are reached again and again, as time does not
  end.
* In `fragments` the payloads of 3, 4 and 2 bytes need 1 to 4 pieces, depending on
  the MTU; 4 pieces exceed the index limit, so that error path runs too. The third
  inflates to 6 bytes where 5 are allowed: its completed assembly stays, and
  counts its bytes again with every piece delivered again, until the sum passes the
  reassembly limit of 4 and the assembly is reset. One
  stray id is enough: the assembly knows one id at a time.
* In `codecs` bytes are real bytes, and a varint of two of them for a word of 13
  bits has, like ten for 64, a last digit that the word does not fill. One diff is
  long enough for its length to take two bytes. Five indices and three ids are
  the limits of a fragment header and the carries within it.
* In `session` two threads suffice for one to hold the mutex while the other
  wants it, and three commands for a shutdown and a `terminate()` by each. The
  retries (2 sends, 2 apart) and the timeout (3) can each be the first to fire.
* In `display` three states are the fewest that branch after the engine has
  moved (2 from 0 after 1) and are then extended on either branch.
* In `packet` both clocks pass the reserved value and wrap within the 4 steps of
  the run, a timestamp is fresh for 2 and samples from 3 on are ignored; both
  ends run out of sequence numbers, and of blocks, in either order. As in the
  code, delays and the largest sample together stay below one cycle of
  timestamps (`PacketAssumption`).
* In `roaming` the fourth hop exceeds the three sockets allowed, and a quiet
  time after a success exceeds the age limit, so both rules of `prune_sockets`
  close sockets.
* In `prediction` the third column is the margin where nothing is predicted, and
  three bytes are a paste.

Deadlock checking is off where a model stops at a bound on its clock, ids or
numbers, or where a session has ended for good; it is on in `roaming`.

### Fairness

* `SessionLoop`: weak fairness of the loop's own steps, as `receive` never blocks
  for more than `POLL_CAP_MS`; of the clock; and of each thread inside `join()`.
  Nothing is assumed of the network or of the peer, nor that anyone calls.
* `Display`: weak fairness of the loop finishing the datagram it is in, of
  `resize()` finishing, and of the renderer (the embedder draws when the version
  has changed). Datagrams may stop at any time.
* `Roaming`: weak fairness of the loop and strong fairness of the clock. Of the
  world: of the datagrams sent again and again on a path that works, some arrive
  and some are answered within the same unit of time; a bind tried again and
  again succeeds. No more than `MaxDeaths` paths die.

* `SspDelivery`: weak fairness of the loop and strong fairness of the clock (it
  passes while the loop sleeps). Of the network: if instructions that would
  advance the peer are under way again and again, one arrives. No answer need
  ever come back.

All other specifications are safety only.

### Findings

* `display_resize` (`LocalResizeSticks`): a rebuild reads the display's size, releases the lock, and
  later replaces the display. A `resize()` in between changes the engine that is
  thrown away: the screen is back at its old size for a round trip, where the
  comment in `resize()` says that the UI must not wait for one.
* `fresh_guess` (`FreshRunAtCursor`): the shadow cursor is taken from the display only while it is
  `None`, and only switching predictions off makes it so again. Guesses after
  the first run start where the last one ended, wherever the host has moved the
  cursor since.

Five comments are wider than what the code does. They have no run of their own;
the properties are stated as the code has it.

* `terminate()` promises no `Ended`. A loop already past its commands may still
  announce one between the call and its return (`src/session.rs:519`, `:849`);
  `SilentAfterTerminate` is about the return.
* `take_host_bytes` promises that a linear consumer stays correct over a rebuild.
  The buffer then carries the state's log from the blank screen on, while the
  consumer's screen still shows the abandoned branch (`src/session.rs:566`,
  `:1068`); `ConsumerFollowsUntilBranch` stops at the first rebuild.
* The cap on datagrams from old sockets breaks out of the loop over one socket;
  each older socket still hands over one more (`src/session.rs:40`, `:943`), which
  `DrainBounded` allows for.
* A comment in `add_fragment` says that the recount keeps `arrived` from equalling
  `total` with a hole. A fragment beyond a total fixed earlier is counted too;
  `take_assembly` finds the hole and resets (`src/fragment.rs:234`).

* The comment on `parse_mosh_bootstrap` says that the first well-formed
  `MOSH CONNECT` wins. A malformed one before it is an error that ends the scan
  (`src/bootstrap.rs:104`, `:129`), as `BootstrapFaithful` has it.

## 4. What is proved

Every theorem below holds for every value of the constants that the named
assumptions allow; TLC evaluates those assumptions on every run.

| module | theorem | statement |
|---|---|---|
| `SspLinkProofs` | `LinkInvariant` | `Spec => []LinkInv` |
| | `TypeCorrect` | `Spec => []TypeOK`; no `unwrap` of a queue's end can panic |
| | `NeverForks` | `Spec => []StreamsNeverFork` |
| | `BaseIsHeld` | `Spec => []KnownReceiverHeld` |
| | `ShutdownDelivers` | `Spec => []ShutdownAckedMeansDelivered` |
| | `HeaderRuleIsSound` | `Spec => []HeaderDeterminesDiff` |
| | `AckedIsMonotone` | `Spec => AckedNeverRegresses` |
| | `LinkImplementsStreamSync` | `Spec => ImplementsStreamSync` |
| | `TimesInvariant` | `Spec => []TimesInv` |
| | `CullSparesAssumed` | `Spec => []AssumedSurvivesCull` |
| | `DueFramesSpeak` | `Spec => []DueFrameHasNews` |
| `SspDeliveryProofs` | `SpeaksInTimeAlways` | `Spec => []SpeaksInTime` |
| `SspAnyPeerProofs` | `AnyPeerInvariant` | `Spec => []AnyPeerInv` |
| | `QueueStaysSorted` | `Spec => []HeldStatesSorted` |
| | `QueueGrowthIsPaced` | `Spec => []QuenchBoundsQueue` |
| | `LatestIsMonotone` | `Spec => LatestNeverRegresses` |
| `DisplayProofs` | `DisplayInvariant` | `Spec => []DisplayInv` |
| | `EngineShowsLatest` | `Spec => []DisplayShowsLatest` |
| | `FramesAreCurrent` | `Spec => []NoStaleFrame` |
| | `ConsumerFollows` | `Spec => []ConsumerFollowsUntilBranch` |
| `SessionLoopProofs` | `LoopInvariant` | `Spec => []LoopInv` |
| | `TerminateSilences` | `Spec => []SilentAfterTerminate` |
| | `EndIsAnnounced` | `Spec => []EndIsAnnouncedOnce` |
| `DatagramProofs` | `FragmentInvariant` | `FragmentSpec => []FragmentInv` |
| | `AssembledAsSentAlways` | `FragmentSpec => []AssembledAsSent` |
| | `NeverWedgedAlways` | `FragmentSpec => []NeverWedged` |
| | `ArrivedIsCountAlways` | `FragmentSpec => []ArrivedIsCount` |
| | `FreshIdRecoversAlways` | `FragmentSpec => []FreshIdRecovers` |
| | `PacketInvariant` | `Spec => []PacketInv` |
| | `NonceNeverReused` | `Spec => []NoncesUnique` |
| | `RttIsMeasured` | `Spec => []RttIsNetworkDelay` |
| | `TimestampEchoedOnce` | `Spec => []EchoedOnce` |
| | `RoamingInvariant` | `RoamingSpec => []RoamingInv` |
| | `WakeIsBounded` | `RoamingSpec => []DrainBounded` |
| | `SocketsLinger` | `RoamingSpec => LingersForReplies` |
| `PredictionProofs` | `PredictionInvariant` | `Spec => []PredictionInv` |
| | `EchoRetiresGuesses` | `Spec => []NoGuessOutlivesEcho` |
| | `NoSlotIsEmpty` | `Spec => NoEmptySlot` |

### Assumptions

All are named, in the modules that declare the constants. Bounds, caps and times
are naturals throughout (`TimingAssumption`, `QuenchAssumption`,
`LinkAssumption`, `DeliveryAssumption`, `AnyPeerAssumption`, `LoopAssumption`,
`DisplayAssumption`, `FragmentAssumption`, `FragmentLinkAssumption`,
`PacketAssumption`, `RoamingAssumption`, `PredictionAssumption`). Beyond that:

* `QueueAssumption`: the cull point lies strictly between the head and the two
  newest states of a full queue (16 of 32 in the code), and `SHUTDOWN_NUM` is
  positive;
* `DeliveryAssumption`: the estimator yields finitely many timeouts and at least
  one frame interval, each at least 1 and at most the ack interval (20 .. 250 ms
  against 3000), and the longest sleep is not zero;
* `FragmentAssumption`: an instruction's payload is not empty (zlib's output never
  is), and its inflated length may be anything, on either side of
  `DECOMPRESS_LIMIT`;
* `FragmentLinkAssumption`: strays are fragments, under ids that no instruction
  is given;
* `AnyPeerAssumption`: an instruction has natural numbers and a sequence for its
  diff, nothing else;
* `LoopAssumption`: retries, timeouts and intervals are not zero, and `Nobody` is
  not a thread;
* `DisplayAssumption`: what the server paints and resizes has a number;
* `PacketAssumption`: a timestamp is fresh for at most one cycle, and two delays
  and the largest sample fit in one cycle together (65536 ms in the code);
* `RoamingAssumption`: two sockets or more are allowed, and the cap is not zero;
* `PredictionAssumption`: a screen is at least 2 x 2, as `resize()` enforces.

### The link

None of the safety properties is inductive: a fork at the peer is
caused by a diff sent long before, against a queue since rewritten. `LinkInv`
describes everything either end holds, and everything in flight, as a *window*
of the one stream `typed`:

* `NumberingInv`: numbers stand for growing prefixes, and `SHUTDOWN_NUM` for all
  of the stream, which no longer grows;
* `QueueInv`: after `rationalize_states` has dropped `Offset` events, the live
  stream is the window from `Offset` to the end, and each sent state the window
  from `Offset` to the length its number stands for; the queue is sorted;
* `WireInv`: an instruction from m to n carries the window between their two
  lengths, and its throwaway is at most m and at most the head's number;
* `HeldInv`: the peer's states are windows from 0, with increasing numbers;
* `AckInv`: the peer holds the head's number, and each ack in flight that the
  sender could still adopt names a state the peer still holds.

The last is what makes the throwaway safe: a throwaway is at most the head's
number, hence at most any ack that could still move the head. `SspReceiverProofs`
has the lemmas on windows (what the diff, the subtraction, the application and
an append do to them) and on sorted queues; `SspLinkProofs` first reduces every
disjunct of `tick` to one effect on the queue (`SilentEffect`, `EmptyAckEffect`,
`SendEffect`) and every outcome of `process_instruction` to one effect on the
held states (`PeerReceiveEffect`), then proves each action's step in a lemma of
its own, and combines them in `NextKeepsInv`. The refinement maps `delivered` to
the newest state held, `sealed` to `shutdown_in_progress` and `finished` to
`shutdown_acknowledged`.

`TimesInv` adds the order of the timestamps: the queue is in the order in which
its states were last sent, none later than now. The walk of
`update_assumed_receiver_state` stops at the first state that is too old, so on
an ordered queue it is all or nothing (`WalkIsAllOrNothing`): the state a diff
starts from is the head or the newest. `QueueAssumption` puts the cull strictly
between the two, so it erases another state and the shifted index names the same
one as before (`CullSparesAssumed`). This is the comment in `add_sent_state`.
It also gives `DueFrameHasNews`: if a frame is due, the live stream differs from
the newest state or the newest from the assumed one, and in a queue of windows
either makes the diff longer than empty (`DueFrameFallsShort`).

### Speaking in time

`SpeaksInTime` is about two ages, and nothing in it says why they stay small.
`SpeakInv` ties them to the timers, at every stage of the loop:

* `Silence`: data waits no longer than the line has been silent, and the newest
  sent state is no older than the silence, unless it is too old for its age to
  show;
* `AckScheduled`: while neither end is closing, `next_ack_time` lies at most `ACK_INTERVAL_MS`
  after the last send and, while data waits, at most `ACK_DELAY_MS` after its
  arrival; data of this very round is the exception, until the tick brings the
  timer forward. This is the "persisted" deadline of `compute_timers`: one that
  was computed afresh at each wake would be pushed out by every datagram;
* `WaitInTime`: a tick that sent nothing leaves both deadlines ahead;
* `SleepInTime`: the sleep is over by then.

Once either end closes (`Closing`: our `shutdown_in_progress`, or the peer's
`SHUTDOWN_NUM` to be acknowledged) `compute_timers` schedules from the newest
state's timestamp alone; the first two parts still bound both ages by a frame
interval (`AckTime`). The peer's last state may come at any time, also while an
ack of data is pending: all it does is move the deadline.
The lemmas about the queue (`AddedOK`, `RestampedOK`, `AckedOK`, `AgedOK`) say that
every operation leaves the newest state where it was or stamps it now. The proof
does not use what the peer holds, so the peer may answer anything, and end the
session when it likes.

The proof found the deadline: that data is acknowledged within `ACK_DELAY_MS` was
first stated of every state, and is false once either end closes the session if a
frame interval exceeds that delay, as one of 250 ms does the 100 ms of the code.
`AckDeadline` says what holds.

### The receiver, whatever the peer sends

`AnyPeerInv`: the queue is not empty and strictly sorted, and (`WindowsPaid`) each
state beyond the one that first exceeded the cap has armed the quench window
after the previous one ran out, so the deadline pays for the states. The bound
on the queue alone is not inductive: it says nothing of the deadline.

### The display

`DisplayInv`. A log *leads* from a screen to another if there is a sequence of
screens, one per event, each painted on the one before. Every held log leads
from the blank screen to the screen its number stands for, and so does the log
the engine has consumed; hence the suffix beyond a common prefix leads from the
one to the other, and a rebuild leads there from blank (`EngineOK`, `FreshOK`).
The bytes not yet drained lead the consumer's screen to the engine's, until a
rebuild or a gap in the capture (`BytesOK`), and no frame has been drawn from a
version that is still to come (`FramesOK`).

### The session's threads

`LoopInv`: the launch bundle, the slot and the mutex's owner say together where
the loop can be (`HandleInv`); a `Terminate` waits in the channel for every loop
that was told to end and has not ended, and once a `terminate()` has returned the
loop is unborn, in its drain, or gone (`ChannelInv`). So an event after the
return would need a loop that has passed its drain, which the waiting
`Terminate` prevents.

### The fragment layer

`FragmentInv`. On the sender's side, an id stands for one instruction cut to one
budget, for good: the id rule bumps it when either changes, so two calls under
one id make the same pieces (`meaning` is never overwritten by anything else). On
the receiver's side `AsmOK` holds of every assembly, whoever sends: the counter
is the number of filled slots. `Built` adds, if the assembly's id is one in use:
there are no more slots than pieces, each filled slot holds the piece of that
number, the total is known exactly when the final piece is in (and is then the
number of pieces); and, if the instruction inflates, no bytes are counted yet and
some piece is missing, since a complete assembly is taken at once. (One that does
not inflate may lie there complete.)

From there the properties take two facts about any run of fragments under one id,
both shown for the least run that would be a counterexample. Feeding a piece to
a `Built` assembly leaves it `Built`, with that slot filled, or hands the
instruction up; and once every piece is among those fed, none can be missing, so
it was handed up on the way (`NeverWedged`, in any order). Under a new id the
first piece resets whatever was there, and the empty assembly is `Built`
(`FreshIdRecovers`). `Concatenated` pieces are the payload because each starts
where the one before it ends, and within `DECOMPRESS_LIMIT` `Inflate` inverts
`Payload` because payloads of different instructions have different cells.

All of this is about instructions within both limits (`Deliverable`). One that
inflates past `DECOMPRESS_LIMIT` is refused on every delivery, and the code does
not reset there (`src/fragment.rs:269`): its pieces stay under its id, and their
bytes are counted again each time, until another id comes or the count passes
`ASSEMBLY_LIMIT`. `AssembledAsSent` says that nothing is ever handed up for it, and
`FreshIdRecovers` that it is in nobody's way.

### The packet layer

`PacketInv`: every datagram is numbered below its sealer's counter and stamped
with its sealer's clock at the time of sealing; what it echoes was received by
its sealer, within the delay; and the stamp saved is newer than every one echoed,
as `expected_receiver_seq` admits each number once. From this a nonce is used
once, a stamp is echoed once, and a sample is the sum of two delays modulo the
cycle, which `PacketAssumption` makes the sum itself.

### The sockets

`RoamingInv`: a socket that is not the newest has been idle for the age of the
newest and one silence per hop between, unless it has been idle for long enough
already (`AgesOK`); beyond the drain cap each further datagram costs one of the
sockets still to be visited (`DrainOK`).

### Local echo

`PredictionInv`: a guess is tagged with the first number sent that covers its
key, or the number that will be (`Tagged`), and tags never decrease, so the
guesses an ack confirms are a prefix of the overlay (`ConfirmedIsPrefix`).

Where a proof needs the least or the greatest of a set of numbers, or an
induction over an index, it takes the least counterexample: every non-empty set
of naturals has a least element (`LeastElement`, from the well-foundedness of
`<`).

### Only model-checked

* All liveness: `Delivered`, `ShutdownEnds`, `TerminateReturns`, `NewestIsDrawn`,
  `RoamsOut`. Fairness and `ENABLED` are beyond the prover.
* The codecs (`DiffCarriesTheSuffix`, `HostDiffApplied`, `HeadersCarried`,
  `UnknownFieldsSkipped`, `DamageContained`, `BootstrapFaithful`): their
  definitions are recursive and fold over messages, groups nest in groups, and the
  value of a varint is a sum of powers; what they compute for every input takes an
  induction over data, and laws of exponentiation, that the prover does not have.
* The two runs that show a disagreement.

## 5. Plan

Done: the models of all parts, and the proofs of every safety property of the
link, the loop's timing, the receiver, the display, the session's threads, the
fragment and packet layers, roaming and prediction. What could follow:

1. The bootstrap's scan as a recursive function over its lines, and
   `BootstrapFaithful` by the least counterexample.
2. The smoothing of the RTT estimate in fixed point, in place of the sets `Rtos`
   and `SendIntervals`.

## 6. Not modelled

* AES-OCB and base64: arithmetic without a state machine; the repository has test
  vectors.
* `srtt`, `rttvar` and the two clamps derived from them: floating point. The
  models take any timeout and frame interval from a set.
* The reference counts of `EventLog` and its hand-written `drop`: the logs belong
  to the loop's thread alone, and their depth, which is what the drop is about, is
  the stack's affair. Models take a log as the sequence of its events.
* The command line for `mosh-server` and its shell quoting; resolving and binding;
  `link_health` and the other counters that are only reported; tracing.
* The fuzz targets and the test code.
