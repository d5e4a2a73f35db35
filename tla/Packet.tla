------------------------------- MODULE Packet -------------------------------
(***************************************************************************)
(* The packet layer of a session (src/session.rs, send_fragment and the    *)
(* first half of handle_datagram; src/crypto.rs, MoshSealer, MoshOpener):  *)
(* nonces, the sequence gate, and the 16-bit timestamps from which the     *)
(* round trip is measured.  Both ends run the same code, each named by the *)
(* direction it seals in, on clocks of different origin; the peer of a     *)
(* real session is mosh-server, which follows the same rules.              *)
(*                                                                         *)
(* The AEAD is taken to be perfect: what opens is what was sealed.  Of the *)
(* smoothed estimate only the samples that enter it are kept.              *)
(***************************************************************************)
EXTENDS Integers, FiniteSets

CONSTANTS
  TS_MOD,           \* timestamps are taken modulo this (65 536)
  TS_FRESH_MS,      \* a timestamp is echoed while younger than this (1000)
  RTT_MAX_SAMPLE,   \* samples from here on are ignored (5000)
  SEQ_MASK,         \* largest sequence number (2^63 - 1)
  BLOCK_LIMIT,      \* blocks one key may encrypt (2^47)
  BlockCounts,      \* blocks a datagram may have
  Origin,           \* direction -> what its clock read at time 0
  MaxDelay,         \* how long the network holds a datagram at most
  MaxBlocks,        \* bound on the blocks a direction tries to encrypt
  MaxTime           \* bound on the clock

Directions == {"ToServer", "ToClient"}

\* A round trip is told from one that took a whole cycle of timestamps longer.
ASSUME PacketAssumption ==
  /\ TS_MOD \in Nat /\ SEQ_MASK \in Nat /\ MaxDelay \in Nat /\ MaxTime \in Nat
  /\ TS_FRESH_MS \in 1 .. TS_MOD
  /\ RTT_MAX_SAMPLE \in Nat
  /\ 2 * MaxDelay + RTT_MAX_SAMPLE < TS_MOD
  /\ Origin \in [Directions -> Nat]

NoTimestamp == TS_MOD - 1      \* u16::MAX
NoStamp == [ts |-> -1, received_at |-> 0, nonce |-> -1, sent_at |-> 0]
NoSample == [sample |-> -1, delay |-> -1]

VARIABLES
  now,
  next_seq, blocks_encrypted,   \* the sealer of each direction
  fatal,
  expected_receiver_seq,
  saved_timestamp,   \* [ts, received_at] and, as history, whose it was
  rtt,               \* history: the last sample taken, and the true delay
  wire,              \* every datagram sealed
  seals              \* history: how many seals have succeeded

sealerVars == << next_seq, blocks_encrypted, fatal >>
vars == << now, sealerVars, expected_receiver_seq, saved_timestamp, rtt, wire,
           seals >>

Init ==
  /\ now = 0
  /\ next_seq = [e \in Directions |-> 0]
  /\ blocks_encrypted = [e \in Directions |-> 0]
  /\ fatal = [e \in Directions |-> FALSE]
  /\ expected_receiver_seq = [e \in Directions |-> 0]
  /\ saved_timestamp = [e \in Directions |-> NoStamp]
  /\ rtt = [e \in Directions |-> NoSample]
  /\ wire = {}
  /\ seals = 0

Clock ==
  /\ now < MaxTime
  /\ now' = now + 1
  /\ UNCHANGED << sealerVars, expected_receiver_seq, saved_timestamp, rtt, wire,
                  seals >>

-----------------------------------------------------------------------------
\* u16::MAX is reserved, so that millisecond is reported as the next one.
timestamp16(e) ==
  LET ts == (now + Origin[e]) % TS_MOD IN IF ts = NoTimestamp THEN 0 ELSE ts

Bit(direction) == IF direction = "ToServer" THEN 0 ELSE 1

Nonce(direction, seq) == Bit(direction) * (SEQ_MASK + 1) + (seq % (SEQ_MASK + 1))

SequenceNumber(nonce) == nonce % (SEQ_MASK + 1)

\* Mutant: the counter wraps.
NeverExhausted(e) == FALSE

SequenceExhausted(e) == next_seq[e] > SEQ_MASK

\* MoshSealer::seal, with the header already chosen: the block budget is
\* charged first, then a sequence number is taken.
seal(e, blocks, header) ==
  LET spent == blocks_encrypted[e] + blocks
  IN  /\ blocks_encrypted' = [blocks_encrypted EXCEPT ![e] = spent]
      /\ IF spent >= BLOCK_LIMIT \/ SequenceExhausted(e)
           THEN /\ fatal' = [fatal EXCEPT ![e] = TRUE]
                /\ UNCHANGED << next_seq, wire, seals >>
           ELSE /\ next_seq' = [next_seq EXCEPT ![e] = @ + 1]
                /\ wire' = wire \cup {[header EXCEPT !.nonce = Nonce(e, next_seq[e])]}
                /\ seals' = seals + 1
                /\ UNCHANGED fatal

Fresh(e) ==
  /\ saved_timestamp[e] # NoStamp
  /\ now - saved_timestamp[e].received_at < TS_FRESH_MS

\* What the header echoes: the peer's timestamp moved on by the time it was
\* held here.
Reply(e) ==
  IF Fresh(e)
    THEN (saved_timestamp[e].ts + (now - saved_timestamp[e].received_at)) % TS_MOD
    ELSE NoTimestamp

\* The datagram to be sealed; sent_at and echoes are history.
Header(e) ==
  [nonce |-> -1, timestamp |-> timestamp16(e), timestamp_reply |-> Reply(e),
   sent_at |-> now, echoes |-> IF Fresh(e) THEN saved_timestamp[e] ELSE NoStamp]

send_fragment(e, blocks) ==
  /\ blocks_encrypted[e] + blocks <= MaxBlocks
  /\ seal(e, blocks, Header(e))
  /\ saved_timestamp' = [saved_timestamp EXCEPT ![e] = IF Fresh(e) THEN NoStamp ELSE @]
  /\ UNCHANGED << now, expected_receiver_seq, rtt >>

\* Mutants: our own datagrams, reflected, are opened; every datagram is taken
\* to be new.
OpensAnything(e, d) == TRUE
EverySeqOk(e, d) == TRUE

\* MoshOpener::open refuses what carries the direction this end seals in.
Opens(e, d) == d.nonce \div (SEQ_MASK + 1) # Bit(e)

SeqOk(e, d) == SequenceNumber(d.nonce) >= expected_receiver_seq[e]

Sample(e, d) == (timestamp16(e) - d.timestamp_reply) % TS_MOD

\* The true time that the echoed datagram and d spent in the network.
Delay(d) == (now - d.sent_at) + (d.echoes.received_at - d.echoes.sent_at)

\* handle_datagram up to the fragment, which goes on to the assembly whether
\* or not the gate lets its timestamps through.
handle_datagram(e, d) ==
  /\ now - d.sent_at <= MaxDelay
  /\ Opens(e, d)
  /\ IF SeqOk(e, d)
       THEN /\ expected_receiver_seq' = [expected_receiver_seq EXCEPT ![e] = SequenceNumber(d.nonce) + 1]
            /\ saved_timestamp' =
                 [saved_timestamp EXCEPT ![e] =
                    IF d.timestamp = NoTimestamp THEN @
                    ELSE [ts |-> d.timestamp, received_at |-> now,
                          nonce |-> d.nonce, sent_at |-> d.sent_at]]
            /\ rtt' = [rtt EXCEPT ![e] =
                         IF d.timestamp_reply # NoTimestamp /\ Sample(e, d) < RTT_MAX_SAMPLE
                           THEN [sample |-> Sample(e, d), delay |-> Delay(d)] ELSE @]
       ELSE UNCHANGED << expected_receiver_seq, saved_timestamp, rtt >>
  /\ UNCHANGED << now, sealerVars, wire, seals >>

Next ==
  \/ Clock
  \/ \E e \in Directions, blocks \in BlockCounts : send_fragment(e, blocks)
  \/ \E e \in Directions, d \in wire : handle_datagram(e, d)

Spec == Init /\ [][Next]_vars

-----------------------------------------------------------------------------
\* NoncesUnique: both directions share one key, and no two datagrams sealed
\* under it, up to and past the end of either budget, have the same nonce.
NoncesUnique == Cardinality({d.nonce : d \in wire}) = seals

\* RttIsNetworkDelay: a sample that enters the estimate is, to the one
\* millisecond that the reserved value costs, the time the two datagrams were
\* in the network: neither the wrap of the 16-bit clock, nor the time the peer
\* held the timestamp, nor a replayed, reordered or reflected datagram shows.
RttIsNetworkDelay ==
  \A e \in Directions :
    rtt[e] # NoSample => rtt[e].sample - rtt[e].delay \in {-1, 0, 1}

\* EchoedOnce: each timestamp is echoed at most once ("only while it is fresh,
\* and only once"), however often the network repeats the datagram it came in.
EchoedOnce ==
  \A d1, d2 \in wire :
    /\ d1.echoes # NoStamp /\ d2.echoes # NoStamp
    /\ d1.echoes.nonce = d2.echoes.nonce
    => d1 = d2
=============================================================================
