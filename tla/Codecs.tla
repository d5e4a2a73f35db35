------------------------------- MODULE Codecs -------------------------------
(***************************************************************************)
(* Everything that the program writes for, or reads from, the other side:  *)
(* the diffs of both streams (UserStream::encode_suffix and apply_string,  *)
(* HostStreamState::apply_string), the instructions that carry them, the   *)
(* fragment header, and the server's output at bootstrap.  Everywhere else *)
(* in this project a diff is the sequence of events that it carries.       *)
(*                                                                         *)
(* A behaviour builds one input of one kind, piece by piece.               *)
(***************************************************************************)
EXTENDS Wire, Bootstrap

CONSTANTS
  Keys,           \* what the user may type, and the host may print
  Sizes,          \* << width, height >> pairs
  Nums,           \* state numbers and echo acks
  Diffs,          \* contents of an instruction
  RawBytes,       \* bytes of a malformed tail
  Lines,          \* lines of the bootstrap's output
  MaxLen,         \* kind -> bound on the pieces of an input
  ID_BYTES        \* of a fragment id (8)

Kinds == {"user", "host", "transport", "fragment", "raw", "output"}

ASSUME CodecAssumption ==
  /\ Sizes \subseteq Int \X Int /\ Nums \subseteq 0 .. WORD - 1
  /\ MaxLen \in [Kinds -> Nat] /\ ID_BYTES \in Nat \ {0}

VARIABLES
  kind,     \* what is built
  input     \* the sequence built so far

vars == << kind, input >>

Init ==
  /\ kind \in Kinds
  /\ input = << >>

-----------------------------------------------------------------------------
(* The user's stream. *)

Byte(b) == [kind |-> "byte", byte |-> b]
ResizeTo(size) == [kind |-> "resize", size |-> size]

push_bytes(bytes) == input' = input \o [i \in 1 .. Len(bytes) |-> Byte(bytes[i])]
push_resize(size) == input' = Append(input, ResizeTo(size))

\* Consecutive bytes coalesce into one Keystroke.
Coalesce(instructions, e) ==
  IF e.kind = "resize" THEN Append(instructions, Resize(e.size[1], e.size[2]))
  ELSE IF instructions # << >> /\ Last(instructions).kind = "bytes"
    THEN [instructions EXCEPT ![Len(instructions)].bytes = Append(@, e.byte)]
    ELSE Append(instructions, Bytes(<< e.byte >>))

Suffix(from) == FoldLeft(Coalesce, << >>, SubSeq(input, from + 1, Len(input)))

encode_suffix(from) == user_encode(Suffix(from))

Pushed(stream, i) ==
  IF i.kind = "bytes" THEN stream \o [k \in 1 .. Len(i.bytes) |-> Byte(i.bytes[k])]
                      ELSE Append(stream, ResizeTo(<< i.width, i.height >>))
UserApplied(stream, message) ==
  [error  |-> message.error,
   stream |-> IF message.error # Ok THEN stream
              ELSE FoldLeft(Pushed, stream, message.instructions)]
user_apply_string(stream, diff) == UserApplied(stream, user_decode(diff))

-----------------------------------------------------------------------------
(* The host's. *)

\* Mutant: the echo ack is taken as it comes.
EchoAckOverwrites(state, i) ==
  CASE i.kind = "bytes" /\ i.bytes = << >> -> state
    [] i.kind = "echoack" -> [state EXCEPT !.echo_ack = i.num]
    [] OTHER -> [state EXCEPT !.log = Append(@, i)]

\* Empty bytes are not logged, and echo_ack only grows.
HostEffect(state, i) ==
  CASE i.kind = "bytes" /\ i.bytes = << >> -> state
    [] i.kind = "echoack" -> [state EXCEPT !.echo_ack = Max({@, i.num})]
    [] OTHER -> [state EXCEPT !.log = Append(@, i)]

HostApplied(state, message) ==
  [error |-> message.error,
   state |-> IF message.error # Ok THEN state
             ELSE FoldLeft(HostEffect, state, message.instructions)]
host_apply_string(state, diff) == HostApplied(state, host_decode(diff))

-----------------------------------------------------------------------------
(* The fragment header: a big-endian id, then the index with the final flag. *)

FLAG == 32768
BigEndian(value, width) == [i \in 1 .. width |-> (value \div 256 ^ (width - i)) % 256]
FromBigEndian(bytes) == FoldLeft(LAMBDA n, b : n * 256 + b, 0, bytes)
FRAG_HEADER_LEN == ID_BYTES + 2

tostring(f) ==
  BigEndian(f.id, ID_BYTES) \o
  BigEndian((IF f.final THEN FLAG ELSE 0) + f.fragment_num, 2) \o f.contents

parse(bytes) ==
  LET flags == FromBigEndian(SubSeq(bytes, ID_BYTES + 1, FRAG_HEADER_LEN))
  IN  IF Len(bytes) < FRAG_HEADER_LEN THEN [error |-> "TooShort"]
      ELSE [error |-> Ok,
            fragment |-> [id |-> FromBigEndian(SubSeq(bytes, 1, ID_BYTES)),
                          final |-> flags >= FLAG, fragment_num |-> flags % FLAG,
                          contents |-> SubSeq(bytes, FRAG_HEADER_LEN + 1, Len(bytes))]]

-----------------------------------------------------------------------------
HostPieces ==
  {Bytes(<< >>)} \cup {Bytes(<< b >>) : b \in Keys} \cup
  {Resize(s[1], s[2]) : s \in Sizes} \cup {EchoAck(n) : n \in Nums}

Transports ==
  [protocol_version : {2, INT - 1}, old_num : Nums, new_num : Nums, ack_num : Nums,
   throwaway_num : {0, WORD - 1}, diff : Diffs, chaff : {<< >>}]

Fragments ==
  [id : {0, 1, 256 ^ ID_BYTES - 1}, fragment_num : {0, 1, 255, 256, FLAG - 1},
   final : BOOLEAN, contents : Diffs]

Next ==
  /\ Len(input) < MaxLen[kind]
  /\ \/ /\ kind = "user"
        /\ \/ \E n \in 1 .. MaxLen[kind] - Len(input) : \E b \in [1 .. n -> Keys] : push_bytes(b)
           \/ \E size \in Sizes : push_resize(size)
     \/ kind = "host" /\ \E i \in HostPieces : input' = Append(input, i)
     \/ kind = "transport" /\ \E t \in Transports : input' = << t >>
     \/ kind = "fragment" /\ \E f \in Fragments : input' = << f >>
     \/ kind = "raw" /\ \E b \in RawBytes : input' = Append(input, b)
     \/ kind = "output" /\ \E l \in Lines : input' = Append(input, l)
  /\ UNCHANGED kind

Spec == Init /\ [][Next]_vars

-----------------------------------------------------------------------------
\* DiffCarriesTheSuffix: applied to the prefix it was computed against, the
\* encoded diff gives back the whole stream, whatever mixture of keystrokes
\* and resizes (negative dimensions too) it coalesces; and it is empty just when
\* there is nothing to send - tick decides between an empty ack and a state by
\* diff.is_empty().
DiffCarriesTheSuffix ==
  kind = "user" =>
    \A from \in 0 .. Len(input) :
      /\ user_apply_string(SubSeq(input, 1, from), encode_suffix(from))
           = [error |-> Ok, stream |-> input]
      /\ encode_suffix(from) = << >> <=> from = Len(input)

Blank == [log |-> << >>, echo_ack |-> 1]

\* HostDiffApplied: a diff of the host's adds to the log just the bytes and
\* resizes it is made of, in order, and never takes the echo ack back.
HostDiffApplied ==
  kind = "host" =>
    LET r == host_apply_string(Blank, host_encode(input))
    IN  /\ r.error = Ok
        /\ r.state.log =
             SelectSeq(input, LAMBDA i : i.kind # "echoack" /\ i # Bytes(<< >>))
        /\ r.state.echo_ack =
             Max({1} \cup {input[k].num : k \in {j \in 1 .. Len(input) :
                                                   input[j].kind = "echoack"}})

\* HeadersCarried: every instruction comes back from its encoding, with numbers
\* up to SHUTDOWN_NUM and diffs whose length takes two bytes; so does every
\* fragment, with an id and an index up to their limits beside the final flag,
\* which shares its two bytes with the index; a fragment header that is cut is
\* refused.
HeadersCarried ==
  /\ kind = "transport" /\ input # << >> =>
       transport_decode(transport_encode(input[1])) = [error |-> Ok, inst |-> input[1]]
  /\ kind = "fragment" /\ input # << >> =>
       /\ parse(tostring(input[1])) = [error |-> Ok, fragment |-> input[1]]
       /\ \A n \in 0 .. FRAG_HEADER_LEN - 1 :
            parse(SubSeq(tostring(input[1]), 1, n)).error = "TooShort"

\* What a newer peer might add to a message: a field of every wire type, groups
\* within groups, and known numbers with another wire type.
Unknown ==
  LET group(inside) == write_tag(15, 3) \o inside \o write_tag(15, 4)
  IN  { write_varint_field(15, WORD - 1),
        write_tag(15, 1) \o << 10, 1, 0, 12, 10, 1, 0, 12 >>,
        write_tag(15, 5) \o << 10, 1, 0, 12 >>,
        write_bytes_field(15, << 10, 12 >>), write_tag(1, 5) \o << 12, 12, 12, 12 >>,
        group(write_varint_field(1, 12) \o group(write_bytes_field(2, << 12 >>))
              \o write_bytes_field(3, << 26 >>)) }

\* UnknownFieldsSkipped: such a field, anywhere between the fields of a message,
\* of one of its instructions or of the block within, changes nothing that is
\* decoded from the rest.
UnknownFieldsSkipped ==
  kind = "host" =>
    \A u \in Unknown, k \in 1 .. Len(input) :
      LET before == host_encode(SubSeq(input, 1, k - 1))
          after  == host_encode(SubSeq(input, k + 1, Len(input)))
          field  == InstructionField(input[k])
          block  == InstructionBlock(input[k])
          inner  == write_bytes_field(field, block)
          whole  == write_bytes_field(1, inner)
      IN  \A bytes \in { u \o whole, whole \o u,
                         write_bytes_field(1, u \o inner), write_bytes_field(1, inner \o u),
                         write_bytes_field(1, write_bytes_field(field, u \o block)),
                         write_bytes_field(1, write_bytes_field(field, block \o u)) } :
            host_decode(before \o bytes \o after) = [error |-> Ok, instructions |-> input]

\* A first field that the decoder of an instruction cannot get past.  (A known
\* field with an unreadable value is not one: the decoder goes on behind its
\* length, inside what was to be the value.)
Unreadable(buf) ==
  LET tag == read_tag(buf, 1)
  IN  /\ buf # << >>
      /\ \/ tag.error # Ok
         \/ /\ << tag.field, tag.wire_type >> \notin {<< 2, 2 >>, << 3, 2 >>}
            /\ skip_field(buf, tag.pos, tag.wire_type).error # Ok

\* DamageContained: a message cut anywhere is refused, unless the cut falls
\* between two instructions, and then those before it are decoded; a cut
\* TransportInstruction is refused or lacks just its last fields.  Bytes that
\* cannot be read as a field make a message an error when they follow it, but
\* inside an instruction, after its part, leave that part as it was ("tolerate a
\* malformed tail; the prefix is usable", decode_user_instruction).
DamageContained ==
  /\ kind = "host" =>
       LET bytes == host_encode(input)
       IN  \A n \in 0 .. Len(bytes) - 1 :
             LET r == host_decode(SubSeq(bytes, 1, n))
             IN  r.error = Ok =>
                   \E k \in 0 .. Len(input) - 1 :
                     /\ n = Len(host_encode(SubSeq(input, 1, k)))
                     /\ r.instructions = SubSeq(input, 1, k)
  /\ kind = "transport" /\ input # << >> =>
       LET bytes == transport_encode(input[1])
       IN  \A n \in 0 .. Len(bytes) - 1 :
             LET r == transport_decode(SubSeq(bytes, 1, n))
             IN  r.error = Ok => \A f \in DOMAIN r.inst :
                                   r.inst[f] \in {input[1][f], transport_decode(<< >>).inst[f]}
  /\ kind = "raw" /\ Unreadable(input) =>
       \A i \in HostPieces :
         i.kind # "echoack" =>
           LET inner == encode_instruction(i)
           IN  /\ decode_user_instruction(inner \o input) = i
               /\ user_decode(write_bytes_field(1, inner) \o input).error # Ok

\* BootstrapFaithful: the scan's outcome is the first offending line's error - a
\* bad probe, a second probe, a bad connect before any good one - or the first
\* connect with the probe's address, printed before it or after it.
BootstrapFaithful ==
  kind = "output" =>
    LET probes   == {k \in 1 .. Len(input) : input[k].kind = "probe"}
        connects == {k \in 1 .. Len(input) : input[k].kind = "connect"}
        first    == Min(connects)
        badProbe == {k \in probes : ~ input[k].good \/ k # Min(probes)}
        badFirst == {k \in connects : k = first /\ ~ input[k].good}
        r        == parse_mosh_bootstrap(input)
    IN  IF badProbe \cup badFirst # {}
          THEN r.error = IF Min(badProbe \cup badFirst) \in probes THEN "BadConnection"
                                                                  ELSE "BadConnect"
        ELSE IF connects = {} THEN r.error = "NoConnect"
        ELSE r = [error |-> "", port |-> input[first].port,
                  server_ip |-> IF probes = {} THEN NoIp ELSE input[Min(probes)].ip]
=============================================================================
