-------------------------------- MODULE Wire --------------------------------
(***************************************************************************)
(* The proto2 codec of src/wire.rs on bytes: the fields of a message, the  *)
(* rule for fields that are not known, and the three schemas.  Reading     *)
(* never fails as a whole: a reader returns an error and the position that *)
(* it has reached, from which the tolerant decoders go on.                 *)
(***************************************************************************)
EXTENDS Varint, SequencesExt

BadLength == "BadLength"
UnmatchedGroup == "UnmatchedGroup"

-----------------------------------------------------------------------------
(* Writing. *)

write_tag(field, wire_type) == write_varint(field * 8 + wire_type)

write_bytes_field(field, bytes) ==
  write_tag(field, 2) \o write_varint(Len(bytes)) \o bytes

write_varint_field(field, value) == write_tag(field, 0) \o write_varint(value)

-----------------------------------------------------------------------------
(* Reading. *)

\* Field numbers are cast to u32.
Tag(key) == [error |-> key.error, pos |-> key.pos,
             field |-> (key.value \div 8) % INT, wire_type |-> key.value % 8]
read_tag(buf, pos) == Tag(read_varint(buf, pos))

\* Mutant: a field longer than the buffer is taken to end with it.
DelimitedClipped(buf, len) ==
  LET end == Min({len.pos + len.value, Len(buf) + 1})
  IN  IF len.error # Ok THEN len
      ELSE [error |-> Ok, value |-> SubSeq(buf, len.pos, end - 1), pos |-> end]

\* Behind the length len.
Delimited(buf, len) ==
  LET end == len.pos + len.value
  IN  CASE len.error # Ok                       -> len
        [] len.error = Ok /\ end > Len(buf) + 1 -> [len EXCEPT !.error = BadLength]
        [] OTHER -> [error |-> Ok, value |-> SubSeq(buf, len.pos, end - 1), pos |-> end]
read_length_delimited(buf, pos) == Delimited(buf, read_varint(buf, pos))

\* A field of fixed width.
SkipFixed(buf, pos, width) ==
  IF Len(buf) + 1 < pos + width THEN [error |-> Truncated, pos |-> pos]
                                ELSE [error |-> Ok, pos |-> pos + width]

RECURSIVE skip_field(_, _, _), SkipGroup(_, _)

skip_field(buf, pos, wire_type) ==
  CASE wire_type = 0 -> read_varint(buf, pos)
    [] wire_type = 1 -> SkipFixed(buf, pos, 8)
    [] wire_type = 2 -> read_length_delimited(buf, pos)
    [] wire_type = 3 -> SkipGroup(buf, pos)
    [] wire_type = 5 -> SkipFixed(buf, pos, 4)
    [] OTHER         -> [error |-> UnmatchedGroup, pos |-> pos]

\* Mutant: the group ends at the first end marker, nested ones included.
SkipGroupFlat(buf, pos) ==
  LET ends == {p \in pos .. Len(buf) : buf[p] % 8 = 4}
  IN  IF ends = {} THEN [error |-> Truncated, pos |-> Len(buf) + 1]
      ELSE [error |-> Ok, pos |-> 1 + CHOOSE p \in ends : \A o \in ends : p <= o]

\* Up to the matching end marker (wire type 4), of whatever field number.
GroupFrom(buf, inner) == IF inner.error # Ok THEN inner ELSE SkipGroup(buf, inner.pos)
GroupAt(buf, tag) ==
  IF tag.error # Ok \/ tag.wire_type = 4 THEN tag
  ELSE GroupFrom(buf, skip_field(buf, tag.pos, tag.wire_type))
SkipGroup(buf, pos) == GroupAt(buf, read_tag(buf, pos))

\* One turn of a decoder's loop: what it found, if anything, and where it goes on.
\* A tag or an unknown field that cannot be read ends the loop.
End(buf, error) ==
  [found |-> << [field |-> 0, wire_type |-> 0, value |-> 0, error |-> error] >>,
   pos |-> Len(buf) + 1]
Known(tag, read) ==
  [found |-> << [field |-> tag.field, wire_type |-> tag.wire_type,
                 value |-> read.value, error |-> read.error] >>,
   pos |-> read.pos]
Skipped(buf, skip) ==
  IF skip.error # Ok THEN End(buf, skip.error) ELSE [found |-> << >>, pos |-> skip.pos]
FieldAt(buf, known, tag) ==
  CASE tag.error # Ok -> End(buf, tag.error)
    [] tag.error = Ok /\ << tag.field, tag.wire_type >> \in known ->
         Known(tag, IF tag.wire_type = 0 THEN read_varint(buf, tag.pos)
                                         ELSE read_length_delimited(buf, tag.pos))
    [] OTHER -> Skipped(buf, skip_field(buf, tag.pos, tag.wire_type))

\* The loop of every decoder over buf: the fields of `known', with their values
\* or why these could not be read; others are skipped.
Items(buf, known) ==
  LET from[pos \in 1 .. Len(buf) + 1] ==
        LET field == FieldAt(buf, known, read_tag(buf, pos))
        IN  IF pos > Len(buf) THEN << >> ELSE field.found \o from[field.pos]
  IN  from[1]

\* A strict decoder (`?') fails with the first error; a tolerant one (`if let
\* Ok', `break') takes what could be read.
FirstError(items) ==
  LET bad == SelectSeq(items, LAMBDA i : i.error # Ok)
  IN  IF bad = << >> THEN Ok ELSE Head(bad).error

Readable(items) == SelectSeq(items, LAMBDA i : i.error = Ok)

\* A repeated field overrides.
LastValue(items, field, default) ==
  LET hits == SelectSeq(items, LAMBDA i : i.field = field)
  IN  IF hits = << >> THEN default ELSE Last(hits).value

-----------------------------------------------------------------------------
(* TransportInstruction. *)

transport_encode(i) ==
  write_varint_field(1, i.protocol_version) \o write_varint_field(2, i.old_num) \o
  write_varint_field(3, i.new_num) \o write_varint_field(4, i.ack_num) \o
  write_varint_field(5, i.throwaway_num) \o
  write_bytes_field(6, i.diff) \o write_bytes_field(7, i.chaff)

\* Mutant: the numbers are 32 bits wide.
FieldsNarrow(items) ==
  [error |-> FirstError(items),
   inst  |-> [protocol_version |-> LastValue(items, 1, 0) % INT,
              old_num          |-> LastValue(items, 2, 0) % INT,
              new_num          |-> LastValue(items, 3, 0) % INT,
              ack_num          |-> LastValue(items, 4, 0) % INT,
              throwaway_num    |-> LastValue(items, 5, 0) % INT,
              diff             |-> LastValue(items, 6, << >>),
              chaff            |-> LastValue(items, 7, << >>)]]

TransportFields(items) ==
  [error |-> FirstError(items),
   inst  |-> [protocol_version |-> LastValue(items, 1, 0) % INT,
              old_num          |-> LastValue(items, 2, 0),
              new_num          |-> LastValue(items, 3, 0),
              ack_num          |-> LastValue(items, 4, 0),
              throwaway_num    |-> LastValue(items, 5, 0),
              diff             |-> LastValue(items, 6, << >>),
              chaff            |-> LastValue(items, 7, << >>)]]
transport_decode(buf) ==
  TransportFields(Items(buf, {<< f, 0 >> : f \in 1 .. 5} \cup {<< 6, 2 >>, << 7, 2 >>}))

-----------------------------------------------------------------------------
(* UserMessage and HostMessage: repeated instructions in field 1.  Keystroke *)
(* and HostBytes are laid out alike, and so are the two Resizes; only the    *)
(* host's messages know EchoAck.                                             *)

Bytes(b) == [kind |-> "bytes", bytes |-> b]
Resize(w, h) == [kind |-> "resize", width |-> w, height |-> h]
EchoAck(n) == [kind |-> "echoack", num |-> n]

InstructionField(i) == CASE i.kind = "bytes"   -> 2
                         [] i.kind = "resize"  -> 3
                         [] i.kind = "echoack" -> 7

InstructionBlock(i) ==
  CASE i.kind = "bytes"   -> write_bytes_field(4, i.bytes)
    [] i.kind = "resize"  -> write_varint_field(5, AsUnsigned(i.width)) \o
                             write_varint_field(6, AsUnsigned(i.height))
    [] i.kind = "echoack" -> write_varint_field(8, i.num)

encode_instruction(i) == write_bytes_field(InstructionField(i), InstructionBlock(i))

Encoded(instructions) ==
  FoldLeft(LAMBDA out, i : out \o write_bytes_field(1, encode_instruction(i)),
           << >>, instructions)

user_encode(instructions) == Encoded(instructions)
host_encode(instructions) == Encoded(instructions)

\* What each kind of part, by its readable fields, makes of the result so far: a
\* block of bytes or an EchoAck without its field counts for nothing, a Resize
\* without one has dimension 0.
BytesPart(result, fields) == IF fields = << >> THEN result ELSE Bytes(Last(fields).value)
ResizePart(fields) ==
  Resize(AsSigned(LastValue(fields, 5, 0)), AsSigned(LastValue(fields, 6, 0)))
EchoAckPart(result, fields) ==
  IF fields = << >> THEN result ELSE EchoAck(Last(fields).value)

\* Of several parts the last that can be read counts.
Combine(result, item) ==
  CASE item.field = 2 -> BytesPart(result, Readable(Items(item.value, {<< 4, 2 >>})))
    [] item.field = 3 -> ResizePart(Readable(Items(item.value, {<< 5, 0 >>, << 6, 0 >>})))
    [] item.field = 7 -> EchoAckPart(result, Readable(Items(item.value, {<< 8, 0 >>})))

decode_user_instruction(buf) ==
  FoldLeft(Combine, Bytes(<< >>), Readable(Items(buf, {<< 2, 2 >>, << 3, 2 >>})))

decode_host_instruction(buf) ==
  FoldLeft(Combine, Bytes(<< >>),
           Readable(Items(buf, {<< 2, 2 >>, << 3, 2 >>, << 7, 2 >>})))

UserInstructions(items) ==
  [error        |-> FirstError(items),
   instructions |-> [k \in DOMAIN Readable(items) |->
                       decode_user_instruction(Readable(items)[k].value)]]
user_decode(buf) == UserInstructions(Items(buf, {<< 1, 2 >>}))

HostInstructions(items) ==
  [error        |-> FirstError(items),
   instructions |-> [k \in DOMAIN Readable(items) |->
                       decode_host_instruction(Readable(items)[k].value)]]
host_decode(buf) == HostInstructions(Items(buf, {<< 1, 2 >>}))
=============================================================================
