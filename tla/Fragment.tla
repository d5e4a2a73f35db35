------------------------------ MODULE Fragment ------------------------------
(***************************************************************************)
(* The fragment layer (src/fragment.rs): Fragmenter slices a compressed    *)
(* instruction into pieces that fit the MTU, FragmentAssembly puts them    *)
(* back together.  Sizes are in bytes of payload.                          *)
(*                                                                         *)
(* A payload is the compressed encoding of an instruction; all the layer   *)
(* needs of zlib and of the decoder is that they invert the encoder, and   *)
(* refuse what is not an encoding or inflates past DECOMPRESS_LIMIT.  So a *)
(* payload is a sequence of distinct cells, and Inflate looks a sequence   *)
(* up among the payloads of the instructions within the limit.  The queue  *)
(* index fragment_num counts from 0, as on the wire.                       *)
(***************************************************************************)
EXTENDS SequencesExt

CONSTANTS
  Instructions,        \* headers; SspLink!HeaderDeterminesDiff: one diff each
  PayloadLen,          \* instruction -> length of its compressed encoding
  InflatedLen,         \* instruction -> length of its encoding
  FRAG_HEADER_LEN,     \* 10
  MAX_FRAGMENT_INDEX,  \* 15 bits on the wire (0x7FFF)
  ASSEMBLY_LIMIT,      \* bytes one instruction may reassemble to
  DECOMPRESS_LIMIT     \* bytes it may inflate to

NoInstruction == "none"

ASSUME FragmentAssumption ==
  /\ NoInstruction \notin Instructions
  /\ PayloadLen \in [Instructions -> Nat \ {0}]
  /\ InflatedLen \in [Instructions -> Nat]
  /\ FRAG_HEADER_LEN \in Nat
  /\ MAX_FRAGMENT_INDEX \in Nat
  /\ ASSEMBLY_LIMIT \in Nat
  /\ DECOMPRESS_LIMIT \in Nat

NoFragment == [id |-> 0, fragment_num |-> -1, final |-> FALSE, contents |-> << >>]
NoTotal == -1

Payload(inst) == [i \in 1 .. PayloadLen[inst] |-> << inst, i >>]

\* The cap of zlib_decompress on its output.
Inflates(inst) == InflatedLen[inst] <= DECOMPRESS_LIMIT

\* zlib_decompress followed by TransportInstruction::decode.
Inflate(bytes) ==
  LET encoded(inst) == Inflates(inst) /\ bytes = Payload(inst)
  IN  IF \E inst \in Instructions : encoded(inst)
        THEN CHOOSE inst \in Instructions : encoded(inst)
        ELSE NoInstruction

-----------------------------------------------------------------------------
(* Fragmenter. *)

FragmenterInit ==
  [next_instruction_id |-> 0, last_header |-> NoInstruction, last_mtu |-> NoTotal]

\* Mutant: the id is kept when only the MTU changed.
BumpedOnHeader(f, inst, budget) ==
  [next_instruction_id |-> f.next_instruction_id + IF f.last_header = inst THEN 0 ELSE 1,
   last_header |-> inst, last_mtu |-> budget]

\* The id advances when the header or the budget differs from the last call.
Bumped(f, inst, budget) ==
  LET same == f.last_header = inst /\ f.last_mtu = budget
  IN  [next_instruction_id |-> IF same THEN f.next_instruction_id
                                       ELSE f.next_instruction_id + 1,
       last_header |-> inst,
       last_mtu    |-> budget]

PieceCount(inst, budget) == (PayloadLen[inst] + budget - 1) \div budget

\* make_fragments, the pieces of inst under an id; its two errors are the
\* conditions of Fits.
Fits(inst, mtu) ==
  LET budget == mtu - FRAG_HEADER_LEN
  IN  budget > 0 /\ PieceCount(inst, budget) - 1 <= MAX_FRAGMENT_INDEX

Pieces(id, inst, budget) ==
  LET n == PieceCount(inst, budget)
  IN  [k \in 1 .. n |->
         [id |-> id, fragment_num |-> k - 1, final |-> k = n,
          contents |-> SubSeq(Payload(inst), (k - 1) * budget + 1,
                              IF k = n THEN PayloadLen[inst] ELSE k * budget)]]

-----------------------------------------------------------------------------
(* FragmentAssembly. *)

EmptyAssembly ==
  [fragments |-> << >>, current_id |-> 0, fragments_arrived |-> 0,
   fragments_total |-> NoTotal, assembled_bytes |-> 0]

\* Mutant: reset forgets the counter.
ResetKeepsCount(asm) ==
  [EmptyAssembly EXCEPT !.current_id = asm.current_id,
                        !.fragments_arrived = asm.fragments_arrived]

\* reset keeps current_id.
reset(asm) == [EmptyAssembly EXCEPT !.current_id = asm.current_id]

Resized(slots, n) ==
  [i \in 1 .. n |-> IF i <= Len(slots) THEN slots[i] ELSE NoFragment]

Arrived(slots) == Cardinality({i \in 1 .. Len(slots) : slots[i] # NoFragment})

\* The bytes take_assembly concatenates.
Concatenated(slots) == FlattenSeq([i \in 1 .. Len(slots) |-> slots[i].contents])

\* take_assembly.  A hole or too many bytes drop the assembly; so does
\* success; but bytes that do not inflate, or inflate past the limit, are
\* returned early from, with the fragments and the running assembled_bytes left
\* as they are.
take_assembly(asm) ==
  LET hole  == \E i \in 1 .. Len(asm.fragments) : asm.fragments[i] = NoFragment
      bytes == Concatenated(asm.fragments)
      total == asm.assembled_bytes + Len(bytes)
  IN  IF hole \/ total > ASSEMBLY_LIMIT
        THEN [asm |-> reset(asm), inst |-> NoInstruction]
        ELSE IF Inflate(bytes) = NoInstruction
               THEN [asm |-> [asm EXCEPT !.assembled_bytes = total],
                     inst |-> NoInstruction]
               ELSE [asm |-> reset(asm), inst |-> Inflate(bytes)]

\* Mutant: a new id starts from the byte count of the assembly it replaces.
PlacedOverOldBytes(asm, frag) ==
  LET idx  == frag.fragment_num + 1
      new  == asm.current_id # frag.id
      wide == Resized(IF new THEN << >> ELSE asm.fragments,
                      IF new \/ idx > Len(asm.fragments) THEN idx
                                                         ELSE Len(asm.fragments))
  IN  IF wide[idx] = NoFragment
        THEN [asm EXCEPT !.fragments = [wide EXCEPT ![idx] = frag],
                         !.current_id = frag.id,
                         !.fragments_arrived = IF new THEN 1 ELSE @ + 1,
                         !.fragments_total = IF new THEN NoTotal ELSE @]
        ELSE asm

\* The first half of add_fragment: put the fragment in its slot.
Placed(asm, frag) ==
  LET idx == frag.fragment_num + 1
      wide == Resized(asm.fragments, IF idx > Len(asm.fragments)
                                       THEN idx ELSE Len(asm.fragments))
  IN  IF asm.current_id # frag.id
        THEN [fragments |-> [Resized(<< >>, idx) EXCEPT ![idx] = frag],
              current_id |-> frag.id, fragments_arrived |-> 1,
              fragments_total |-> NoTotal, assembled_bytes |-> 0]
        ELSE IF wide[idx] = NoFragment
               THEN [asm EXCEPT !.fragments = [wide EXCEPT ![idx] = frag],
                                !.fragments_arrived = @ + 1]
               ELSE asm

\* A fragment that differs from the one already in its slot.
Conflicts(asm, frag) ==
  LET idx == frag.fragment_num + 1
  IN  /\ asm.current_id = frag.id
      /\ idx <= Len(asm.fragments)
      /\ asm.fragments[idx] \notin {NoFragment, frag}

\* Mutant: the slots are cut off and not counted again.
TotalledUncounted(asm, frag) ==
  LET total == frag.fragment_num + 1
  IN  IF ~ frag.final THEN asm
      ELSE IF total < Len(asm.fragments)
             THEN [asm EXCEPT !.fragments = SubSeq(@, 1, total),
                              !.fragments_total = total]
             ELSE [asm EXCEPT !.fragments_total = total]

\* The second half: a final fragment fixes the total, cuts off what lies
\* beyond it and recounts.
Totalled(asm, frag) ==
  LET total == frag.fragment_num + 1
      kept  == SubSeq(asm.fragments, 1, total)
  IN  IF ~ frag.final THEN asm
      ELSE IF total < Len(asm.fragments)
             THEN [asm EXCEPT !.fragments = kept,
                              !.fragments_arrived = Arrived(kept),
                              !.fragments_total = total]
             ELSE [asm EXCEPT !.fragments_total = total]

add_fragment(asm, frag) ==
  LET next == Totalled(Placed(asm, frag), frag)
  IN  IF Conflicts(asm, frag)
        THEN [asm |-> asm, inst |-> NoInstruction]
        ELSE IF next.fragments_arrived = next.fragments_total
               THEN take_assembly(next)
               ELSE [asm |-> next, inst |-> NoInstruction]
=============================================================================
