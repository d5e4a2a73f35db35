--------------------------- MODULE DatagramProofs ---------------------------
(***************************************************************************)
(* Proofs about the path of a datagram, layer by layer: the fragments that *)
(* an instruction is cut into, the packets that carry them, and the        *)
(* sockets that those are sent from.  Each layer has a specification of    *)
(* its own, and each part below is about one of them; they share the       *)
(* lemmas about sequences and finite sets.                                 *)
(***************************************************************************)
EXTENDS FragmentLink, Packet, Roaming,
        SequenceTheorems, FiniteSetTheorems, WellFoundedInduction, TLAPS

-----------------------------------------------------------------------------
(***************************************************************************)
(* THE FRAGMENT LAYER (FragmentSpec).                                      *)
(*                                                                         *)
(* For every size of payload and budget, every instruction, and any strays: *)
(* under an id in use the assembly holds only pieces of the instruction that *)
(* the id was given to, each in its place, and never all of them unless it *)
(* inflates past the limit.                                                *)
(***************************************************************************)

LEMMA LeastElement ==
  ASSUME NEW S \in SUBSET Nat, S # {}
  PROVE  \E m \in S : \A n \in S : m <= n
<1>1. PICK m \in S : \A n \in S : ~ (<< n, m >> \in OpToRel(<, Nat))
  BY WFMin, NatLessThanWellFounded
<1>2. ASSUME NEW n \in S PROVE m <= n
  <2>1. SUFFICES ASSUME n < m PROVE FALSE
    BY SMT
  <2>2. << n, m >> \in OpToRel(<, Nat)
    BY <2>1 DEF OpToRel
  <2>3. QED
    BY <1>1, <2>2
<1>3. QED
  BY <1>2

LEMMA FunctionIsSeq ==
  ASSUME NEW n \in Nat, NEW S, NEW f \in [1 .. n -> S]
  PROVE  f \in Seq(S) /\ Len(f) = n
BY SeqDef

-----------------------------------------------------------------------------
(* The pieces of an instruction. *)

Cell == Instructions \X Nat

\* An instruction, the budget its payload is cut to and the number of pieces.
Cut(inst, b, n) ==
  inst \in Instructions /\ b \in Nat \ {0} /\ n = PieceCount(inst, b)

LEMMA Division ==
  ASSUME NEW a \in Nat, NEW b \in Nat \ {0}
  PROVE  a \div b \in Nat /\ (a \div b) * b <= a /\ a < (a \div b) * b + b
BY Z3

LEMMA Multiples ==
  ASSUME NEW j \in Nat, NEW k \in Nat, j <= k, NEW b \in Nat
  PROVE  j * b \in Nat /\ j * b <= k * b /\ (j + 1) * b = j * b + b
BY Z3

\* How far into the payload the first k pieces reach.
End(inst, b, k) == IF k = PieceCount(inst, b) THEN PayloadLen[inst] ELSE k * b

LEMMA PieceBounds ==
  ASSUME NEW inst, NEW b, NEW n, Cut(inst, b, n)
  PROVE  /\ n \in Nat \ {0}
         /\ \A k \in 0 .. n : End(inst, b, k) \in 0 .. PayloadLen[inst]
         /\ \A k \in 1 .. n : /\ (k - 1) * b = End(inst, b, k - 1)
                              /\ End(inst, b, k - 1) <= End(inst, b, k)
         /\ End(inst, b, 0) = 0 /\ End(inst, b, n) = PayloadLen[inst]
<1> DEFINE L == PayloadLen[inst]
<1>1. L \in Nat \ {0} /\ b \in Nat \ {0} /\ n = (L + b - 1) \div b
  BY FragmentAssumption DEF Cut, PieceCount
<1> HIDE DEF L
<1>2. /\ n \in Nat /\ n * b <= L + b - 1 /\ L + b - 1 < n * b + b
  <2>1. L + b - 1 \in Nat
    BY <1>1
  <2>2. QED
    BY <1>1, <2>1, Division
<1>3. n # 0
  <2>1. n = 0 => n * b = 0
    BY <1>1
  <2>2. QED
    BY <1>1, <1>2, <2>1
<1>4. ASSUME NEW k \in 0 .. n - 1
      PROVE  k * b \in Nat /\ k * b < L /\ (k + 1) * b = k * b + b
  <2>1. /\ k \in Nat /\ n - 1 \in Nat /\ k <= n - 1 /\ b \in Nat
    BY <1>1, <1>2
  <2>2. /\ k * b \in Nat /\ k * b <= (n - 1) * b /\ (k + 1) * b = k * b + b
        /\ (n - 1) * b \in Nat /\ ((n - 1) + 1) * b = (n - 1) * b + b
    BY <2>1, Multiples
  <2>3. (n - 1) + 1 = n
    BY <1>2
  <2>4. n * b = (n - 1) * b + b
    BY <2>2, <2>3
  <2> DEFINE x == (n - 1) * b
             y == n * b
             z == k * b
  <2>5. x \in Nat /\ y = x + b /\ y <= L + b - 1 /\ z <= x /\ z \in Nat
    BY <1>2, <2>2, <2>4
  <2> HIDE DEF x, y, z
  <2>6. z < L
    BY <1>1, <2>5
  <2>7. QED
    BY <2>2, <2>6 DEF z
<1>5. End(inst, b, n) = L /\ \A k \in 0 .. n - 1 : End(inst, b, k) = k * b
  BY <1>1, <1>2, FragmentAssumption DEF End, Cut, L
<1>6. ASSUME NEW k \in 0 .. n PROVE End(inst, b, k) \in 0 .. L
  <2>1. CASE k = n
    BY <1>1, <1>5, <2>1
  <2>2. CASE k # n
    <3>1. k \in 0 .. n - 1
      BY <1>2, <2>2
    <3>2. QED
      BY <1>1, <1>4, <1>5, <3>1
  <2>3. QED
    BY <2>1, <2>2
<1>7. ASSUME NEW k \in 1 .. n
      PROVE  (k - 1) * b = End(inst, b, k - 1) /\ End(inst, b, k - 1) <= End(inst, b, k)
  <2>1. k - 1 \in 0 .. n - 1 /\ (k - 1) + 1 = k
    BY <1>2
  <2>2. /\ End(inst, b, k - 1) = (k - 1) * b /\ (k - 1) * b < L
        /\ k * b = (k - 1) * b + b /\ (k - 1) * b \in Nat
    BY <1>4, <1>5, <2>1
  <2>3. CASE k = n
    BY <1>1, <1>5, <2>2, <2>3
  <2>4. CASE k # n
    <3>1. k \in 0 .. n - 1
      BY <1>2, <2>4
    <3>2. End(inst, b, k) = k * b
      BY <1>5, <3>1
    <3>3. QED
      BY <1>1, <2>2, <3>2
  <2>5. QED
    BY <2>2, <2>3, <2>4
<1>8. End(inst, b, 0) = 0
  BY <1>1, <1>2, <1>3, <1>5
<1>9. QED
  BY <1>2, <1>3, <1>5, <1>6, <1>7, <1>8 DEF L

LEMMA PayloadIsSeq ==
  ASSUME NEW inst \in Instructions
  PROVE  /\ Payload(inst) \in Seq(Cell) /\ Len(Payload(inst)) = PayloadLen[inst]
         /\ \A i \in 1 .. PayloadLen[inst] : Payload(inst)[i] = << inst, i >>
<1> DEFINE P == Payload(inst)
<1>1. PayloadLen[inst] \in Nat
  BY FragmentAssumption
<1>2. P \in [1 .. PayloadLen[inst] -> Cell]
  BY <1>1 DEF Payload, Cell
<1>3. \A i \in 1 .. PayloadLen[inst] : P[i] = << inst, i >>
  BY DEF Payload
<1> HIDE DEF P
<1>4. P \in Seq(Cell) /\ Len(P) = PayloadLen[inst]
  BY <1>1, <1>2, FunctionIsSeq
<1>5. QED
  BY <1>3, <1>4 DEF P

\* Two payloads are never the same bytes, so a payload within the limit inflates to
\* its instruction, and one past it to none.
LEMMA InflateInverts ==
  ASSUME NEW inst \in Instructions
  PROVE  /\ Inflate(Payload(inst)) = IF Inflates(inst) THEN inst ELSE NoInstruction
         /\ inst # NoInstruction
<1>1. ASSUME NEW other \in Instructions, Payload(inst) = Payload(other)
      PROVE  other = inst
  <2>1. 1 \in 1 .. PayloadLen[inst] /\ 1 \in 1 .. PayloadLen[other]
    BY FragmentAssumption
  <2>2. Payload(inst)[1] = << inst, 1 >> /\ Payload(other)[1] = << other, 1 >>
    BY <2>1, PayloadIsSeq
  <2>3. QED
    BY <1>1, <2>2
<1>2. CASE Inflates(inst)
  BY <1>1, <1>2, FragmentAssumption DEF Inflate
<1>3. CASE ~ Inflates(inst)
  BY <1>1, <1>3, FragmentAssumption DEF Inflate
<1>4. QED
  BY <1>2, <1>3

\* Two adjacent stretches of a sequence, put together.
LEMMA Adjacent ==
  ASSUME NEW S, NEW s \in Seq(S), NEW j \in Nat, NEW k \in Nat, j <= k, k <= Len(s)
  PROVE  SubSeq(s, 1, j) \o SubSeq(s, j + 1, k) = SubSeq(s, 1, k)
<1> DEFINE x == SubSeq(s, 1, j)
           y == SubSeq(s, j + 1, k)
           z == SubSeq(s, 1, k)
<1>1. Len(s) \in Nat /\ \A i \in 1 .. Len(s) : s[i] \in S
  BY LenProperties, ElementOfSeq
<1>2. x \in Seq(S) /\ Len(x) = j /\ \A i \in 1 .. j : x[i] = s[i]
  <2>1. \A i \in 1 .. j : s[i] \in S
    BY <1>1
  <2>2. /\ x \in Seq(S) /\ Len(x) = (IF 1 <= j THEN j - 1 + 1 ELSE 0)
        /\ \A i \in 1 .. j - 1 + 1 : x[i] = s[1 + i - 1]
    BY <2>1, SubSeqProperties
  <2>3. j - 1 + 1 = j /\ \A i \in 1 .. j : 1 + i - 1 = i
    OBVIOUS
  <2> HIDE DEF x
  <2>4. QED
    BY <2>2, <2>3
<1>3. z \in Seq(S) /\ Len(z) = k /\ \A i \in 1 .. k : z[i] = s[i]
  <2>1. \A i \in 1 .. k : s[i] \in S
    BY <1>1
  <2>2. /\ z \in Seq(S) /\ Len(z) = (IF 1 <= k THEN k - 1 + 1 ELSE 0)
        /\ \A i \in 1 .. k - 1 + 1 : z[i] = s[1 + i - 1]
    BY <2>1, SubSeqProperties
  <2>3. k - 1 + 1 = k /\ \A i \in 1 .. k : 1 + i - 1 = i
    OBVIOUS
  <2> HIDE DEF z
  <2>4. QED
    BY <2>2, <2>3
<1>4. y \in Seq(S) /\ Len(y) = k - j /\ \A i \in 1 .. k - j : y[i] = s[j + i]
  <2>1. \A i \in j + 1 .. k : s[i] \in S
    BY <1>1
  <2>2. /\ y \in Seq(S) /\ Len(y) = (IF j + 1 <= k THEN k - (j + 1) + 1 ELSE 0)
        /\ \A i \in 1 .. k - (j + 1) + 1 : y[i] = s[(j + 1) + i - 1]
    BY <2>1, SubSeqProperties
  <2>3. k - (j + 1) + 1 = k - j /\ \A i \in 1 .. k - j : (j + 1) + i - 1 = j + i
    OBVIOUS
  <2> HIDE DEF y
  <2>4. QED
    BY <2>2, <2>3
<1> HIDE DEF x, y, z
<1>5. /\ x \o y \in Seq(S) /\ Len(x \o y) = j + (k - j)
      /\ \A i \in 1 .. j + (k - j) : (x \o y)[i] = IF i <= j THEN x[i] ELSE y[i - j]
  BY <1>2, <1>4, ConcatProperties
<1>6. ASSUME NEW i \in 1 .. k PROVE (x \o y)[i] = z[i]
  <2>1. CASE i <= j
    BY <1>2, <1>3, <1>5, <2>1
  <2>2. CASE ~ (i <= j)
    <3>1. i - j \in 1 .. k - j /\ j + (i - j) = i /\ i \in 1 .. j + (k - j) /\ ~ (i <= j)
      BY <2>2
    <3>2. QED
      BY <1>3, <1>4, <1>5, <3>1
  <2>3. QED
    BY <2>1, <2>2
<1>7. Len(x \o y) = Len(z) /\ \A i \in 1 .. Len(x \o y) : (x \o y)[i] = z[i]
  BY <1>3, <1>5, <1>6
<1>8. x \o y = z
  BY <1>3, <1>5, <1>7, SeqEqual
<1>9. QED
  BY <1>8 DEF x, y, z

\* The pieces, concatenated, are the payload.
LEMMA PiecesMakePayload ==
  ASSUME NEW inst, NEW b, NEW n, Cut(inst, b, n), NEW id, NEW slots,
         Len(slots) = n, \A i \in 1 .. n : slots[i] = Pieces(id, inst, b)[i]
  PROVE  Concatenated(slots) = Payload(inst)
<1> DEFINE P == Payload(inst)
           parts == [i \in 1 .. Len(slots) |-> slots[i].contents]
           Step(f, i) == IF i = 1 THEN parts[i] ELSE f[i - 1] \o parts[i]
           flatten == CHOOSE f : f = [i \in 1 .. Len(parts) |-> Step(f, i)]
           E(k) == End(inst, b, k)
           Upto(k) == SubSeq(P, 1, E(k))
<1>1. /\ n \in Nat \ {0}
      /\ \A k \in 0 .. n : E(k) \in 0 .. PayloadLen[inst]
      /\ \A k \in 1 .. n : (k - 1) * b = E(k - 1) /\ E(k - 1) <= E(k)
      /\ E(0) = 0 /\ E(n) = PayloadLen[inst]
  BY PieceBounds
<1>2. P \in Seq(Cell) /\ Len(P) = PayloadLen[inst]
  BY PayloadIsSeq DEF Cut
<1>3. ASSUME NEW k \in 1 .. n PROVE parts[k] = SubSeq(P, E(k - 1) + 1, E(k))
  <2>1. parts[k] = Pieces(id, inst, b)[k].contents
    OBVIOUS
  <2>2. Pieces(id, inst, b)[k].contents = SubSeq(P, (k - 1) * b + 1, E(k))
    BY DEF Pieces, End, Cut
  <2>3. QED
    BY <1>1, <2>1, <2>2
<1>4. Len(parts) = n
  BY <1>1
<1>5. Concatenated(slots) = flatten[Len(parts)]
  BY <1>1, <1>4 DEF Concatenated, FlattenSeq
<1> HIDE DEF parts, P, E
<1>6. ASSUME NEW k \in 2 .. n PROVE Upto(k - 1) \o parts[k] = Upto(k)
  <2>1. k \in 1 .. n /\ k - 1 \in 0 .. n /\ k \in 0 .. n
    BY <1>1
  <2>2. E(k - 1) \in Nat /\ E(k) \in Nat /\ E(k - 1) <= E(k) /\ E(k) <= Len(P)
    BY <1>1, <1>2, <2>1, FragmentAssumption DEF Cut
  <2>3. SubSeq(P, 1, E(k - 1)) \o SubSeq(P, E(k - 1) + 1, E(k)) = SubSeq(P, 1, E(k))
    BY <1>2, <2>2, Adjacent
  <2>4. QED
    BY <1>3, <2>1, <2>3
<1>7. parts[1] = Upto(1)
  <2>1. 1 \in 1 .. n /\ 1 - 1 = 0 /\ E(1 - 1) + 1 = 1
    BY <1>1
  <2>2. QED
    BY <1>3, <2>1
<1> DEFINE whole == [i \in 1 .. n |-> Upto(i)]
<1> HIDE DEF Upto
<1>8. ASSUME NEW i \in 1 .. n PROVE whole[i] = Step(whole, i)
  <2>1. CASE i = 1
    BY <1>7, <2>1
  <2>2. CASE i # 1
    <3>1. i \in 2 .. n /\ i - 1 \in 1 .. n
      BY <1>1, <2>2
    <3>2. whole[i - 1] = Upto(i - 1) /\ whole[i] = Upto(i)
      BY <3>1
    <3>3. QED
      BY <1>6, <2>2, <3>1, <3>2
  <2>3. QED
    BY <2>1, <2>2
<1>9. whole = [i \in 1 .. n |-> Step(whole, i)]
  <2>1. whole = [i \in 1 .. n |-> whole[i]]
    OBVIOUS
  <2> HIDE DEF Step, whole
  <2>2. QED
    BY <1>8, <2>1
<1>10. flatten = [i \in 1 .. n |-> Step(flatten, i)]
  <2> HIDE DEF Step, whole
  <2>1. QED
    BY <1>4, <1>9
<1>11. \A i \in 1 .. n : flatten[i] = Step(flatten, i)
  <2> HIDE DEF flatten, Step
  <2>1. QED
    BY <1>10
<1> HIDE DEF flatten
<1> DEFINE Bad == {i \in 1 .. n : flatten[i] # Upto(i)}
<1>12. Bad = {}
  <2>1. SUFFICES ASSUME Bad # {} PROVE FALSE
    OBVIOUS
  <2>2. Bad \in SUBSET Nat
    OBVIOUS
  <2>3. PICK k \in Bad : \A j \in Bad : k <= j
    <3> HIDE DEF Bad
    <3>1. QED
      BY <2>1, <2>2, LeastElement
  <2>4. k \in 1 .. n /\ flatten[k] # Upto(k)
    BY <2>3
  <2>5. k # 1
    BY <1>7, <1>11, <2>4
  <2>6. k \in 2 .. n /\ k - 1 \in 1 .. n /\ k - 1 \notin Bad
    <3> HIDE DEF Bad
    <3>1. QED
      BY <1>1, <2>3, <2>4, <2>5
  <2>7. flatten[k - 1] = Upto(k - 1)
    BY <2>6
  <2>8. flatten[k] = flatten[k - 1] \o parts[k]
    BY <1>11, <2>4, <2>5
  <2>9. QED
    BY <1>6, <2>4, <2>6, <2>7, <2>8
<1>13. flatten[n] = Upto(n)
  BY <1>1, <1>12
<1>14. Upto(n) = P
  BY <1>1, <1>2, SubSeqFull DEF Upto
<1>15. QED
  BY <1>4, <1>5, <1>13, <1>14 DEF P

-----------------------------------------------------------------------------
(* The assembly. *)

Contents == Seq(Cell) \cup {s.contents : s \in Strays}
Slot == [id : Int, fragment_num : Int, final : BOOLEAN, contents : Contents]
AnyFragment == [id : Nat, fragment_num : Nat, final : BOOLEAN, contents : Contents]

Filled(slots) == {i \in 1 .. Len(slots) : slots[i] # NoFragment}

\* An assembly whose counter counts its slots.
AsmOK(asm) ==
  /\ asm = [fragments |-> asm.fragments, current_id |-> asm.current_id,
            fragments_arrived |-> asm.fragments_arrived,
            fragments_total |-> asm.fragments_total,
            assembled_bytes |-> asm.assembled_bytes]
  /\ asm.fragments \in Seq(Slot)
  /\ asm.fragments_arrived = Arrived(asm.fragments)

LEMMA FilledIsFinite ==
  ASSUME NEW slots \in Seq(Slot)
  PROVE  /\ IsFiniteSet(Filled(slots)) /\ Arrived(slots) = Cardinality(Filled(slots))
         /\ Arrived(slots) \in Nat
<1>1. Len(slots) \in Nat
  BY LenProperties
<1>2. IsFiniteSet(1 .. Len(slots))
  BY <1>1, FS_Interval
<1>3. Filled(slots) \in SUBSET (1 .. Len(slots))
  BY DEF Filled
<1>4. IsFiniteSet(Filled(slots))
  BY <1>2, <1>3, FS_Subset
<1>5. Arrived(slots) = Cardinality(Filled(slots))
  BY DEF Arrived, Filled
<1>6. QED
  BY <1>4, <1>5, FS_CardinalityType

LEMMA FragmentFillsSlot ==
  /\ NoFragment \in Slot
  /\ \A frag \in AnyFragment : frag \in Slot /\ frag # NoFragment
<1>1. << >> \in Contents
  BY EmptySeq DEF Contents
<1>2. NoFragment \in Slot
  BY <1>1 DEF NoFragment, Slot
<1>3. ASSUME NEW frag \in AnyFragment PROVE frag \in Slot /\ frag # NoFragment
  <2>1. frag.fragment_num \in Nat
    BY DEF AnyFragment
  <2>2. NoFragment.fragment_num = -1
    BY DEF NoFragment
  <2>3. frag \in Slot
    BY DEF AnyFragment, Slot
  <2>4. QED
    BY <2>1, <2>2, <2>3
<1>4. QED
  BY <1>2, <1>3

\* Making room for a slot and filling it.
LEMMA SlotFilled ==
  ASSUME NEW slots \in Seq(Slot), NEW idx \in Nat \ {0}, NEW frag \in AnyFragment,
         idx <= Len(slots) => slots[idx] = NoFragment
  PROVE  LET n    == IF idx > Len(slots) THEN idx ELSE Len(slots)
             wide == Resized(slots, n)
             with == [wide EXCEPT ![idx] = frag]
         IN  /\ wide[idx] = NoFragment
             /\ with \in Seq(Slot) /\ Len(with) = n
             /\ \A i \in 1 .. n : with[i] = IF i = idx THEN frag
                                            ELSE IF i <= Len(slots) THEN slots[i] ELSE NoFragment
             /\ Arrived(with) = Arrived(slots) + 1
<1> DEFINE n == IF idx > Len(slots) THEN idx ELSE Len(slots)
           wide == Resized(slots, n)
           with == [wide EXCEPT ![idx] = frag]
<1>1. Len(slots) \in Nat /\ \A i \in 1 .. Len(slots) : slots[i] \in Slot
  BY LenProperties, ElementOfSeq
<1>2. n \in Nat /\ idx \in 1 .. n /\ Len(slots) <= n
  BY <1>1
<1> HIDE DEF n
<1>3. \A i \in 1 .. n : wide[i] = IF i <= Len(slots) THEN slots[i] ELSE NoFragment
  BY DEF Resized
<1>4. wide \in [1 .. n -> Slot]
  BY <1>1, <1>2, FragmentFillsSlot DEF Resized
<1> HIDE DEF wide
<1>5. wide[idx] = NoFragment
  BY <1>2, <1>3
<1>6. /\ with \in [1 .. n -> Slot]
      /\ \A i \in 1 .. n : with[i] = IF i = idx THEN frag ELSE wide[i]
  BY <1>2, <1>4, FragmentFillsSlot
<1> HIDE DEF with
<1>7. with \in Seq(Slot) /\ Len(with) = n
  BY <1>2, <1>6, FunctionIsSeq
<1>8. Filled(with) = Filled(slots) \cup {idx} /\ idx \notin Filled(slots)
  <2>1. idx \notin Filled(slots)
    BY DEF Filled
  <2>2. ASSUME NEW i \in Int
        PROVE  i \in Filled(with) <=> i \in Filled(slots) \cup {idx}
    <3>1. CASE i = idx
      BY <1>2, <1>6, <1>7, <3>1, FragmentFillsSlot DEF Filled
    <3>2. CASE i # idx /\ i \in 1 .. n
      BY <1>1, <1>2, <1>3, <1>6, <1>7, <3>2 DEF Filled
    <3>3. CASE i \notin 1 .. n
      BY <1>1, <1>2, <1>7, <3>3 DEF Filled
    <3>4. QED
      BY <3>1, <3>2, <3>3
  <2>3. Filled(with) \subseteq Int /\ Filled(slots) \cup {idx} \subseteq Int
    BY <1>2 DEF Filled
  <2>4. QED
    BY <2>1, <2>2, <2>3
<1>9. Arrived(with) = Arrived(slots) + 1
  BY <1>7, <1>8, FilledIsFinite, FS_AddElement
<1>10. QED
  BY <1>3, <1>5, <1>6, <1>7, <1>9 DEF n, wide, with

\* What the assembly held under this id.
Before(asm, frag) == IF asm.current_id = frag.id THEN asm.fragments ELSE << >>

LEMMA PlacedOK ==
  ASSUME NEW asm, AsmOK(asm), NEW frag \in AnyFragment, ~ Conflicts(asm, frag)
  PROVE  LET p   == Placed(asm, frag)
             old == Before(asm, frag)
             idx == frag.fragment_num + 1
         IN  /\ AsmOK(p) /\ p.current_id = frag.id
             /\ old \in Seq(Slot)
             /\ Len(p.fragments) = IF idx > Len(old) THEN idx ELSE Len(old)
             /\ \A i \in 1 .. Len(p.fragments) :
                  p.fragments[i] = IF i = idx THEN frag
                                   ELSE IF i <= Len(old) THEN old[i] ELSE NoFragment
             /\ asm.current_id = frag.id =>
                  p.fragments_total = asm.fragments_total /\ p.assembled_bytes = asm.assembled_bytes
             /\ asm.current_id # frag.id =>
                  p.fragments_total = NoTotal /\ p.assembled_bytes = 0
<1> DEFINE p == Placed(asm, frag)
           old == Before(asm, frag)
           idx == frag.fragment_num + 1
           n == IF idx > Len(old) THEN idx ELSE Len(old)
           wide == Resized(old, n)
           with == [wide EXCEPT ![idx] = frag]
<1>1. idx \in Nat \ {0}
  BY DEF AnyFragment
<1>2. old \in Seq(Slot)
  BY EmptySeq DEF Before, AsmOK
<1>3. CASE old = << >> \/ idx > Len(old) \/ old[idx] = NoFragment
  <2>1. Len(<< >>) = 0
    BY EmptySeq
  <2>2. idx <= Len(old) => old[idx] = NoFragment
    BY <1>1, <1>2, <1>3, <2>1, LenProperties
  <2>3. /\ wide[idx] = NoFragment
        /\ with \in Seq(Slot) /\ Len(with) = n
        /\ \A i \in 1 .. n : with[i] = IF i = idx THEN frag
                                       ELSE IF i <= Len(old) THEN old[i] ELSE NoFragment
        /\ Arrived(with) = Arrived(old) + 1
    <3> HIDE DEF old, idx
    <3>1. QED
      BY <1>1, <1>2, <2>2, SlotFilled
  <2>4. CASE asm.current_id = frag.id
    <3>1. old = asm.fragments
      BY <2>4 DEF Before
    <3>2. p = [asm EXCEPT !.fragments = with, !.fragments_arrived = @ + 1]
      BY <2>3, <2>4, <3>1 DEF Placed
    <3> HIDE DEF with, n, wide, old, idx, p
    <3>3. p = [fragments |-> with, current_id |-> asm.current_id,
               fragments_arrived |-> asm.fragments_arrived + 1,
               fragments_total |-> asm.fragments_total,
               assembled_bytes |-> asm.assembled_bytes]
      BY <3>2 DEF AsmOK
    <3>4. asm.fragments_arrived = Arrived(old)
      BY <3>1 DEF AsmOK
    <3>5. AsmOK(p)
      BY <2>3, <3>3, <3>4 DEF AsmOK
    <3>6. QED
      BY <1>2, <2>3, <2>4, <3>3, <3>5 DEF idx, n, old, p
  <2>5. CASE asm.current_id # frag.id
    <3>1. old = << >>
      BY <2>5 DEF Before
    <3>2. n = idx
      BY <1>1, <2>1, <3>1
    <3>3. p = [fragments |-> with, current_id |-> frag.id, fragments_arrived |-> 1,
               fragments_total |-> NoTotal, assembled_bytes |-> 0]
      BY <2>5, <3>1, <3>2 DEF Placed
    <3>4. Arrived(old) = 0
      <4>1. Filled(old) = {}
        BY <2>1, <3>1 DEF Filled
      <4>2. QED
        BY <1>2, <4>1, FilledIsFinite, FS_EmptySet
    <3> HIDE DEF with, n, wide, old, idx, p
    <3>5. QED
      BY <1>2, <2>3, <2>5, <3>3, <3>4 DEF AsmOK, idx, n, old, p
  <2>6. QED
    BY <2>4, <2>5
<1>4. CASE old # << >> /\ ~ (idx > Len(old)) /\ old[idx] # NoFragment
  <2>1. asm.current_id = frag.id /\ old = asm.fragments
    BY <1>4 DEF Before
  <2>2. Len(old) \in Nat /\ idx \in 1 .. Len(old) /\ n = Len(old)
    BY <1>1, <1>2, <1>4, LenProperties
  <2>3. old[idx] = frag
    BY <1>4, <2>1, <2>2 DEF Conflicts
  <2>4. p = asm
    <3>1. wide[idx] = frag
      BY <2>2, <2>3 DEF Resized
    <3>2. QED
      BY <1>4, <2>1, <2>3, <3>1 DEF Placed
  <2> HIDE DEF wide, with, n, old, idx, p
  <2>5. QED
    BY <1>2, <2>1, <2>2, <2>3, <2>4 DEF n, old, idx, p
<1>5. QED
  BY <1>3, <1>4

LEMMA TotalledOK ==
  ASSUME NEW asm, AsmOK(asm), NEW frag \in AnyFragment
  PROVE  LET t == Totalled(asm, frag)
         IN  AsmOK(t) /\ t.current_id = asm.current_id
<1> DEFINE t == Totalled(asm, frag)
           total == frag.fragment_num + 1
           kept == SubSeq(asm.fragments, 1, total)
<1>1. CASE ~ frag.final
  BY <1>1 DEF Totalled
<1>2. CASE frag.final /\ total < Len(asm.fragments)
  <2>1. total \in Int /\ \A i \in 1 .. total : asm.fragments[i] \in Slot
    BY <1>2, ElementOfSeq, LenProperties DEF AnyFragment, AsmOK
  <2>2. kept \in Seq(Slot)
    <3> HIDE DEF total
    <3>1. QED
      BY <2>1, SubSeqProperties
  <2>3. t = [asm EXCEPT !.fragments = kept, !.fragments_arrived = Arrived(kept),
                        !.fragments_total = total]
    BY <1>2 DEF Totalled
  <2> HIDE DEF kept, t, total
  <2>4. t = [fragments |-> kept, current_id |-> asm.current_id,
             fragments_arrived |-> Arrived(kept), fragments_total |-> total,
             assembled_bytes |-> asm.assembled_bytes]
    BY <2>3 DEF AsmOK
  <2>5. QED
    BY <2>2, <2>4 DEF AsmOK, t
<1>3. CASE frag.final /\ ~ (total < Len(asm.fragments))
  <2>1. t = [asm EXCEPT !.fragments_total = total]
    BY <1>3 DEF Totalled
  <2> HIDE DEF t, total
  <2>2. t = [fragments |-> asm.fragments, current_id |-> asm.current_id,
             fragments_arrived |-> asm.fragments_arrived, fragments_total |-> total,
             assembled_bytes |-> asm.assembled_bytes]
    BY <2>1 DEF AsmOK
  <2>3. QED
    BY <2>2 DEF AsmOK, t
<1>4. QED
  BY <1>1, <1>2, <1>3

LEMMA ResetOK ==
  ASSUME NEW asm
  PROVE  AsmOK(reset(asm)) /\ reset(asm).current_id = asm.current_id
         /\ reset(asm).fragments = << >> /\ reset(asm).fragments_arrived = 0
         /\ reset(asm).fragments_total = NoTotal /\ reset(asm).assembled_bytes = 0
<1>1. reset(asm) = [fragments |-> << >>, current_id |-> asm.current_id,
                    fragments_arrived |-> 0, fragments_total |-> NoTotal,
                    assembled_bytes |-> 0]
  BY DEF reset, EmptyAssembly
<1>2. Filled(<< >>) = {} /\ << >> \in Seq(Slot)
  BY EmptySeq DEF Filled
<1>3. Arrived(<< >>) = 0
  BY <1>2, FilledIsFinite, FS_EmptySet
<1>4. QED
  BY <1>1, <1>2, <1>3 DEF AsmOK

LEMMA TakenOK ==
  ASSUME NEW asm, AsmOK(asm)
  PROVE  LET r == take_assembly(asm) IN AsmOK(r.asm) /\ r.asm.current_id = asm.current_id
<1> DEFINE r == take_assembly(asm)
           total == asm.assembled_bytes + Len(Concatenated(asm.fragments))
           after == [asm EXCEPT !.assembled_bytes = total]
<1>1. r.asm = reset(asm) \/ r.asm = after
  BY DEF take_assembly
<1>2. AsmOK(after) /\ after.current_id = asm.current_id
  <2> HIDE DEF total
  <2>1. after = [fragments |-> asm.fragments, current_id |-> asm.current_id,
                 fragments_arrived |-> asm.fragments_arrived,
                 fragments_total |-> asm.fragments_total, assembled_bytes |-> total]
    BY DEF AsmOK
  <2> HIDE DEF after
  <2>2. QED
    BY <2>1 DEF AsmOK
<1> HIDE DEF after
<1>3. QED
  BY <1>1, <1>2, ResetOK

\* fragments_arrived stays the count of the filled slots, whoever sends.
LEMMA AddKeepsAsm ==
  ASSUME NEW asm, AsmOK(asm), NEW frag \in AnyFragment
  PROVE  LET r == add_fragment(asm, frag) IN AsmOK(r.asm) /\ r.asm.current_id = frag.id
<1> DEFINE next == Totalled(Placed(asm, frag), frag)
<1>1. CASE Conflicts(asm, frag)
  BY <1>1 DEF add_fragment, Conflicts
<1>2. CASE ~ Conflicts(asm, frag)
  <2>1. AsmOK(next) /\ next.current_id = frag.id
    BY <1>2, PlacedOK, TotalledOK
  <2>2. AsmOK(take_assembly(next).asm) /\ take_assembly(next).asm.current_id = next.current_id
    <3> HIDE DEF next
    <3>1. QED
      BY <2>1, TakenOK
  <2>3. \/ add_fragment(asm, frag) = take_assembly(next)
        \/ add_fragment(asm, frag) = [asm |-> next, inst |-> NoInstruction]
    BY <1>2 DEF add_fragment
  <2> HIDE DEF next
  <2>4. QED
    BY <2>1, <2>2, <2>3
<1>3. QED
  BY <1>1, <1>2

-----------------------------------------------------------------------------
(* The assembly under an id in use. *)

\* Under this id the assembly holds nothing but pieces of inst, in their places.
\* If inst inflates, one is missing and no bytes are counted; if it does not, its
\* pieces may stay there complete, counted again with each of them that comes.
Built(asm, id, inst, b) ==
  LET n  == PieceCount(inst, b)
      ps == Pieces(id, inst, b)
      s  == asm.fragments
  IN  asm.current_id = id =>
        /\ Len(s) <= n
        /\ \A i \in 1 .. Len(s) : s[i] \in {NoFragment, ps[i]}
        /\ asm.fragments_total = IF Len(s) = n THEN n ELSE NoTotal
        /\ Len(s) = n => s[n] # NoFragment
        /\ Inflates(inst) =>
             asm.assembled_bytes = 0 /\ asm.fragments_arrived # asm.fragments_total

\* The k-th piece.
LEMMA PieceIsFragment ==
  ASSUME NEW inst, NEW b, NEW n, Cut(inst, b, n), NEW id \in Nat, NEW k \in 1 .. n
  PROVE  LET f == Pieces(id, inst, b)[k]
         IN  /\ f \in AnyFragment /\ f.id = id /\ f.fragment_num + 1 = k
             /\ f.final <=> k = n
<1> DEFINE f == Pieces(id, inst, b)[k]
           bytes == SubSeq(Payload(inst), (k - 1) * b + 1,
                           IF k = n THEN PayloadLen[inst] ELSE k * b)
<1>1. f = [id |-> id, fragment_num |-> k - 1, final |-> k = n, contents |-> bytes]
  BY DEF Pieces, Cut
<1>2. n \in Nat
  BY PieceBounds
<1>3. bytes \in Seq(Cell)
  <2> DEFINE lo == End(inst, b, k - 1) + 1
             hi == End(inst, b, k)
  <2>1. bytes = SubSeq(Payload(inst), lo, hi)
    BY PieceBounds DEF End, Cut
  <2>2. End(inst, b, k - 1) \in Nat /\ hi \in 0 .. PayloadLen[inst]
    <3>1. k \in 0 .. n /\ k - 1 \in 0 .. n
      BY <1>2
    <3>2. QED
      BY <3>1, PieceBounds, FragmentAssumption DEF Cut
  <2>3. /\ Payload(inst) \in Seq(Cell) /\ Len(Payload(inst)) = PayloadLen[inst]
        /\ PayloadLen[inst] \in Nat
    BY PayloadIsSeq, FragmentAssumption DEF Cut
  <2>4. lo \in Int /\ hi \in Int /\ \A i \in lo .. hi : i \in 1 .. PayloadLen[inst]
    BY <2>2, <2>3
  <2> HIDE DEF lo, hi
  <2>5. \A i \in lo .. hi : Payload(inst)[i] \in Cell
    BY <2>3, <2>4, ElementOfSeq
  <2>6. QED
    BY <2>1, <2>4, <2>5, SubSeqProperties
<1> HIDE DEF bytes
<1>4. f \in AnyFragment
  BY <1>1, <1>2, <1>3 DEF AnyFragment, Contents
<1> HIDE DEF f
<1>5. f.id = id /\ f.fragment_num = k - 1 /\ f.final = (k = n)
  BY <1>1, Zenon
<1>6. f.fragment_num + 1 = k
  BY <1>2, <1>5
<1>7. QED
  BY <1>4, <1>5, <1>6, Zenon DEF f

\* After a reset nothing is held.
LEMMA ResetIsBuilt ==
  ASSUME NEW inst, NEW b, NEW n, Cut(inst, b, n), NEW id, NEW asm
  PROVE  Built(reset(asm), id, inst, b)
<1>1. n \in Nat \ {0} /\ n = PieceCount(inst, b)
  BY PieceBounds DEF Cut
<1>2. Len(<< >>) = 0
  BY EmptySeq
<1>3. QED
  BY <1>1, <1>2, ResetOK DEF Built, NoTotal

\* What is in the slots once a piece has been placed among others.
LEMMA PieceIsPlaced ==
  ASSUME NEW inst, NEW b, NEW n, Cut(inst, b, n), NEW id \in Nat, NEW k \in 1 .. n,
         NEW asm, AsmOK(asm), Built(asm, id, inst, b)
  PROVE  LET ps   == Pieces(id, inst, b)
             next == Totalled(Placed(asm, ps[k]), ps[k])
             s    == next.fragments
             old  == Before(asm, ps[k])
         IN  /\ ~ Conflicts(asm, ps[k])
             /\ AsmOK(next) /\ next.current_id = id
             /\ Inflates(inst) => next.assembled_bytes = 0
             /\ Len(s) <= n /\ \A i \in 1 .. Len(s) : s[i] \in {NoFragment, ps[i]}
             /\ next.fragments_total = IF Len(s) = n THEN n ELSE NoTotal
             /\ Len(s) = n => s[n] # NoFragment
             /\ Filled(old) \cup {k} \subseteq Filled(s)
<1> DEFINE ps == Pieces(id, inst, b)
           f == ps[k]
           old == Before(asm, f)
           p == Placed(asm, f)
           next == Totalled(p, f)
<1>1. n \in Nat \ {0} /\ n = PieceCount(inst, b)
  BY PieceBounds DEF Cut
<1>2. /\ f \in AnyFragment /\ f.id = id /\ f.fragment_num + 1 = k
      /\ f.final <=> k = n
  BY PieceIsFragment
<1> HIDE DEF f
<1>3. /\ old \in Seq(Slot) /\ Len(old) \in Nat /\ Len(old) <= n
      /\ \A i \in 1 .. Len(old) : old[i] \in {NoFragment, ps[i]}
      /\ Len(old) = n => old[n] # NoFragment /\ asm.current_id = id
  <2>1. CASE asm.current_id = id
    <3>1. old = asm.fragments /\ old \in Seq(Slot)
      BY <1>2, <2>1 DEF Before, AsmOK
    <3>2. Len(old) \in Nat
      BY <3>1, LenProperties
    <3> HIDE DEF old, ps
    <3>3. QED
      BY <1>1, <2>1, <3>1, <3>2 DEF Built, ps
  <2>2. CASE asm.current_id # id
    <3>1. old = << >> /\ Len(<< >>) = 0 /\ << >> \in Seq(Slot)
      BY <1>2, <2>2, EmptySeq DEF Before
    <3> HIDE DEF old, ps
    <3>2. QED
      BY <1>1, <3>1
  <2>3. QED
    BY <2>1, <2>2
<1>4. ~ Conflicts(asm, f)
  <2>1. SUFFICES ASSUME Conflicts(asm, f) PROVE FALSE
    OBVIOUS
  <2>2. asm.current_id = id /\ k <= Len(asm.fragments) /\ asm.fragments[k] \notin {NoFragment, f}
    BY <1>2, <2>1 DEF Conflicts
  <2>3. old = asm.fragments
    BY <1>2, <2>2 DEF Before
  <2> HIDE DEF old, ps
  <2>4. k \in 1 .. Len(old)
    BY <1>1, <1>3, <2>2, <2>3
  <2>5. old[k] \in {NoFragment, ps[k]} /\ old[k] \notin {NoFragment, f}
    BY <1>3, <2>2, <2>3, <2>4
  <2>6. QED
    BY <2>5 DEF f
<1>5. /\ AsmOK(p) /\ p.current_id = id
      /\ Len(p.fragments) = IF k > Len(old) THEN k ELSE Len(old)
      /\ \A i \in 1 .. Len(p.fragments) :
           p.fragments[i] = IF i = k THEN f ELSE IF i <= Len(old) THEN old[i] ELSE NoFragment
      /\ asm.current_id = id =>
           p.fragments_total = asm.fragments_total /\ p.assembled_bytes = asm.assembled_bytes
      /\ asm.current_id # id => p.fragments_total = NoTotal /\ p.assembled_bytes = 0
  BY <1>2, <1>4, PlacedOK
<1>6. /\ Inflates(inst) => p.assembled_bytes = 0
      /\ p.fragments_total = IF Len(old) = n THEN n ELSE NoTotal
  <2>1. CASE asm.current_id = id
    <3>1. old = asm.fragments
      BY <1>2, <2>1 DEF Before
    <3> HIDE DEF old, p
    <3>2. QED
      BY <1>1, <1>5, <2>1, <3>1 DEF Built
  <2>2. CASE asm.current_id # id
    <3> HIDE DEF old, p
    <3>1. QED
      BY <1>3, <1>5, <2>2
  <2>3. QED
    BY <2>1, <2>2
<1> HIDE DEF p, old, ps
<1>7. Len(p.fragments) \in Nat /\ Len(p.fragments) <= n /\ k \in 1 .. Len(p.fragments)
  BY <1>1, <1>3, <1>5
<1>8. /\ next.fragments = p.fragments /\ next.assembled_bytes = p.assembled_bytes
      /\ next.fragments_total = IF k = n THEN n ELSE p.fragments_total
      /\ AsmOK(next) /\ next.current_id = id
  <2>1. AsmOK(next) /\ next.current_id = id
    BY <1>2, <1>5, TotalledOK
  <2>2. CASE k # n
    <3>1. ~ f.final
      BY <1>2, <2>2
    <3>2. next = p
      BY <3>1 DEF Totalled
    <3>3. QED
      BY <2>1, <2>2, <3>2
  <2>3. CASE k = n
    <3>1. f.final /\ ~ (f.fragment_num + 1 < Len(p.fragments)) /\ f.fragment_num + 1 = n
      BY <1>1, <1>2, <1>7, <2>3
    <3>2. next = [p EXCEPT !.fragments_total = n]
      BY <3>1 DEF Totalled
    <3>3. next = [fragments |-> p.fragments, current_id |-> p.current_id,
                  fragments_arrived |-> p.fragments_arrived, fragments_total |-> n,
                  assembled_bytes |-> p.assembled_bytes]
      BY <1>5, <3>2 DEF AsmOK
    <3> HIDE DEF next
    <3>4. QED
      BY <2>1, <2>3, <3>3
  <2>4. QED
    BY <2>2, <2>3
<1> HIDE DEF next
<1>9. ASSUME NEW i \in 1 .. Len(p.fragments) PROVE p.fragments[i] \in {NoFragment, ps[i]}
  <2>1. CASE i = k
    BY <1>5, <2>1 DEF f
  <2>2. CASE i # k /\ i <= Len(old)
    <3>1. i \in 1 .. Len(old)
      BY <1>3, <1>7, <2>2
    <3>2. QED
      BY <1>3, <1>5, <2>2, <3>1
  <2>3. CASE i # k /\ ~ (i <= Len(old))
    BY <1>5, <2>3
  <2>4. QED
    BY <2>1, <2>2, <2>3
<1>10. Len(p.fragments) = n <=> k = n \/ Len(old) = n
  BY <1>1, <1>3, <1>5
<1>11. Len(p.fragments) = n => p.fragments[n] # NoFragment
  <2>1. SUFFICES ASSUME Len(p.fragments) = n PROVE p.fragments[n] # NoFragment
    OBVIOUS
  <2>2. n \in 1 .. Len(p.fragments)
    BY <1>1, <2>1
  <2>3. CASE k = n
    BY <1>2, <1>5, <2>2, <2>3, FragmentFillsSlot
  <2>4. CASE k # n
    <3>1. Len(old) = n /\ n <= Len(old)
      BY <1>1, <1>10, <2>1, <2>4
    <3>2. QED
      BY <1>3, <1>5, <2>2, <2>4, <3>1
  <2>5. QED
    BY <2>3, <2>4
<1>12. Filled(old) \cup {k} \subseteq Filled(p.fragments)
  <2>1. k \in Filled(p.fragments)
    BY <1>2, <1>5, <1>7, FragmentFillsSlot DEF Filled
  <2>2. ASSUME NEW i \in Filled(old) PROVE i \in Filled(p.fragments)
    <3>1. i \in 1 .. Len(old) /\ old[i] # NoFragment
      BY DEF Filled
    <3>2. i \in 1 .. Len(p.fragments) /\ i <= Len(old)
      BY <1>3, <1>5, <3>1
    <3>3. p.fragments[i] # NoFragment
      BY <1>2, <1>5, <3>1, <3>2, FragmentFillsSlot
    <3>4. QED
      BY <3>2, <3>3 DEF Filled
  <2>3. QED
    BY <2>1, <2>2
<1>13. next.fragments_total = IF Len(p.fragments) = n THEN n ELSE NoTotal
  BY <1>6, <1>8, <1>10
<1>14. QED
  BY <1>4, <1>6, <1>7, <1>8, <1>9, <1>11, <1>12, <1>13 DEF next, p, old, f, ps

\* An assembly all of whose slots are filled has its count.
LEMMA AllArrived ==
  ASSUME NEW slots \in Seq(Slot), NEW n \in Nat, Len(slots) = n
  PROVE  Arrived(slots) = n <=> 1 .. n \subseteq Filled(slots)
<1>1. Filled(slots) \in SUBSET (1 .. n)
  BY DEF Filled
<1>2. IsFiniteSet(1 .. n) /\ Cardinality(1 .. n) = n
  <2>1. IsFiniteSet(1 .. n) /\ Cardinality(1 .. n) = IF 1 > n THEN 0 ELSE n - 1 + 1
    BY FS_Interval
  <2>2. (IF 1 > n THEN 0 ELSE n - 1 + 1) = n
    OBVIOUS
  <2>3. QED
    BY <2>1, <2>2
<1>3. Arrived(slots) = Cardinality(Filled(slots))
  BY FilledIsFinite
<1>4. Cardinality(1 .. n) = Cardinality(Filled(slots)) => 1 .. n = Filled(slots)
  BY <1>1, <1>2, FS_Subset
<1>5. 1 .. n \subseteq Filled(slots) => Filled(slots) = 1 .. n
  BY <1>1
<1>6. QED
  BY <1>2, <1>3, <1>4, <1>5, Zenon

\* Under an id in use some piece is missing, if its instruction inflates.
LEMMA PieceMissing ==
  ASSUME NEW inst, NEW b, NEW n, Cut(inst, b, n), NEW id \in Nat, Inflates(inst),
         NEW asm, AsmOK(asm), Built(asm, id, inst, b), asm.current_id = id
  PROVE  ~ (1 .. n \subseteq Filled(asm.fragments))
<1> DEFINE s == asm.fragments
<1>1. SUFFICES ASSUME 1 .. n \subseteq Filled(s) PROVE FALSE
  OBVIOUS
<1>2. n \in Nat \ {0} /\ n = PieceCount(inst, b)
  BY PieceBounds DEF Cut
<1>3. s \in Seq(Slot) /\ Len(s) \in Nat /\ asm.fragments_arrived = Arrived(s)
  BY LenProperties DEF AsmOK
<1>4. /\ Len(s) <= n /\ asm.fragments_total = IF Len(s) = n THEN n ELSE NoTotal
      /\ asm.fragments_arrived # asm.fragments_total
  BY <1>2 DEF Built
<1> HIDE DEF s
<1>5. Len(s) = n
  <2>1. n \in Filled(s)
    BY <1>1, <1>2
  <2>2. QED
    BY <1>2, <1>3, <1>4, <2>1 DEF Filled
<1>6. Arrived(s) = n
  BY <1>1, <1>2, <1>3, <1>5, AllArrived
<1>7. QED
  BY <1>3, <1>4, <1>5, <1>6

\* A piece received on top of others of the same instruction completes it, or is
\* kept with them; what it completes is handed up within the limits, and only then.
LEMMA AddPiece ==
  ASSUME NEW inst, NEW b, NEW n, Cut(inst, b, n), NEW id \in Nat, NEW k \in 1 .. n,
         NEW asm, AsmOK(asm), Built(asm, id, inst, b)
  PROVE  LET f    == Pieces(id, inst, b)[k]
             r    == add_fragment(asm, f)
             next == Totalled(Placed(asm, f), f)
         IN  /\ AsmOK(r.asm) /\ Built(r.asm, id, inst, b) /\ r.asm.current_id = id
             /\ r.inst \in {NoInstruction, inst}
             /\ Deliverable(inst) =>
                  /\ next.fragments_arrived = next.fragments_total => r.inst = inst
                  /\ r.inst = NoInstruction =>
                       Filled(Before(asm, f)) \cup {k} \subseteq Filled(r.asm.fragments)
             /\ ~ Deliverable(inst) => r.inst = NoInstruction
<1> DEFINE ps == Pieces(id, inst, b)
           f == ps[k]
           r == add_fragment(asm, f)
           next == Totalled(Placed(asm, f), f)
           s == next.fragments
<1>1. n \in Nat \ {0} /\ n = PieceCount(inst, b) /\ inst \in Instructions
  BY PieceBounds DEF Cut
<1>2. f \in AnyFragment /\ f.id = id
  BY PieceIsFragment
<1>3. AsmOK(r.asm) /\ r.asm.current_id = id
  BY <1>2, AddKeepsAsm
<1>4. /\ ~ Conflicts(asm, f)
      /\ AsmOK(next) /\ next.current_id = id
      /\ Inflates(inst) => next.assembled_bytes = 0
      /\ Len(s) <= n /\ \A i \in 1 .. Len(s) : s[i] \in {NoFragment, ps[i]}
      /\ next.fragments_total = IF Len(s) = n THEN n ELSE NoTotal
      /\ Len(s) = n => s[n] # NoFragment
      /\ Filled(Before(asm, f)) \cup {k} \subseteq Filled(s)
  BY PieceIsPlaced
<1>5. r = IF next.fragments_arrived = next.fragments_total
            THEN take_assembly(next) ELSE [asm |-> next, inst |-> NoInstruction]
  BY <1>4 DEF add_fragment
<1>6. inst # NoInstruction
  BY <1>1, FragmentAssumption
<1> HIDE DEF r, next, f
<1>7. CASE next.fragments_arrived # next.fragments_total
  <2>1. r.asm = next /\ r.inst = NoInstruction
    BY <1>5, <1>7
  <2>2. Built(next, id, inst, b)
    <3> HIDE DEF ps
    <3>1. QED
      BY <1>1, <1>4, <1>7 DEF Built, ps
  <2>3. QED
    BY <1>3, <1>4, <1>7, <2>1, <2>2 DEF r, next, f, ps
<1>8. CASE next.fragments_arrived = next.fragments_total
  <2>1. s \in Seq(Slot) /\ Len(s) \in Nat /\ next.fragments_arrived = Arrived(s)
    BY <1>4, LenProperties DEF AsmOK
  <2> HIDE DEF s, ps
  <2>2. Arrived(s) \in Nat
    BY <2>1, FilledIsFinite
  <2>3. Len(s) = n /\ Arrived(s) = n
    BY <1>1, <1>4, <1>8, <2>1, <2>2 DEF NoTotal
  <2>4. 1 .. n \subseteq Filled(s)
    BY <1>1, <2>1, <2>3, AllArrived
  <2>5. \A i \in 1 .. n : s[i] # NoFragment /\ s[i] = ps[i]
    BY <1>4, <2>3, <2>4 DEF Filled
  <2>6. Concatenated(s) = Payload(inst)
    BY <2>3, <2>5, PiecesMakePayload DEF ps
  <2>7. Inflate(Payload(inst)) = IF Inflates(inst) THEN inst ELSE NoInstruction
    BY <1>1, InflateInverts
  <2>8. Len(Payload(inst)) = PayloadLen[inst] /\ PayloadLen[inst] \in Nat
    BY <1>1, PayloadIsSeq, FragmentAssumption
  <2>9. r = take_assembly(next)
    BY <1>5, <1>8
  <2>10. ~ \E i \in 1 .. Len(s) : s[i] = NoFragment
    BY <2>3, <2>5
  <2> DEFINE total == next.assembled_bytes + Len(Concatenated(s))
             counted == [next EXCEPT !.assembled_bytes = total]
  <2>11. r = IF total > ASSEMBLY_LIMIT
               THEN [asm |-> reset(next), inst |-> NoInstruction]
               ELSE IF Inflates(inst) THEN [asm |-> reset(next), inst |-> inst]
                                      ELSE [asm |-> counted, inst |-> NoInstruction]
    BY <1>6, <2>6, <2>7, <2>9, <2>10 DEF take_assembly, s
  <2>12. Built(reset(next), id, inst, b)
    BY ResetIsBuilt
  <2>13. CASE Inflates(inst)
    <3>1. total = PayloadLen[inst]
      BY <1>4, <2>6, <2>8, <2>13
    <3> HIDE DEF total
    <3>2. r.asm = reset(next) /\ r.inst = IF PayloadLen[inst] > ASSEMBLY_LIMIT
                                            THEN NoInstruction ELSE inst
      BY <2>11, <2>13, <3>1
    <3>3. r.inst = IF Deliverable(inst) THEN inst ELSE NoInstruction
      BY <2>8, <2>13, <3>2, FragmentAssumption DEF Deliverable
    <3>4. QED
      BY <1>3, <1>6, <2>12, <3>2, <3>3 DEF r, next, f, ps
  <2>14. CASE ~ Inflates(inst)
    <3>1. r.asm \in {reset(next), counted} /\ r.inst = NoInstruction /\ ~ Deliverable(inst)
      BY <2>11, <2>14 DEF Deliverable
    <3>2. counted = [fragments |-> s, current_id |-> next.current_id,
                     fragments_arrived |-> next.fragments_arrived,
                     fragments_total |-> next.fragments_total, assembled_bytes |-> total]
      BY <1>4 DEF AsmOK, s
    <3> HIDE DEF total, counted
    <3>3. Built(counted, id, inst, b)
      BY <1>1, <1>4, <2>14, <3>2 DEF Built, ps
    <3>4. QED
      BY <1>3, <2>12, <3>1, <3>3 DEF r, next, f, ps
  <2>15. QED
    BY <2>13, <2>14
<1>9. QED
  BY <1>7, <1>8

-----------------------------------------------------------------------------
(* Runs of fragments. *)

\* One fragment more.
Fed(x, frag) ==
  LET r == add_fragment(x.asm, frag)
  IN  [asm |-> r.asm, inst |-> IF r.inst # NoInstruction THEN r.inst ELSE x.inst]

\* f is what the first k fragments make of an assembly, one after the other.
Traces(f, asm, frags, k) ==
  /\ f = [i \in 0 .. k |-> f[i]]
  /\ f[0] = [asm |-> asm, inst |-> NoInstruction]
  /\ \A i \in 1 .. k : f[i] = Fed(f[i - 1], frags[i])

LEMMA TraceExists ==
  ASSUME NEW asm, NEW frags, NEW n \in Nat
  PROVE  \E f : Traces(f, asm, frags, n)
<1> DEFINE Runs(f, k) == Traces(f, asm, frags, k)
           Bad == {k \in 0 .. n : ~ \E f : Runs(f, k)}
<1>1. SUFFICES ASSUME Bad # {} PROVE FALSE
  <2>1. n \in 0 .. n
    OBVIOUS
  <2>2. Bad = {} => \E f : Runs(f, n)
    <3> HIDE DEF Runs
    <3>1. QED
      BY <2>1
  <2>3. QED
    BY <2>2
<1>2. Bad \in SUBSET Nat
  OBVIOUS
<1>3. PICK k \in Bad : \A j \in Bad : k <= j
  <2> HIDE DEF Bad
  <2>1. QED
    BY <1>1, <1>2, LeastElement
<1>4. k \in 0 .. n /\ ~ \E f : Runs(f, k)
  BY <1>3
<1>5. k # 0
  <2> DEFINE start == [i \in 0 .. 0 |-> [asm |-> asm, inst |-> NoInstruction]]
  <2>1. Runs(start, 0)
    BY DEF Traces
  <2> HIDE DEF Runs, start
  <2>2. QED
    BY <1>4, <2>1
<1>6. k - 1 \in 0 .. n /\ k \in 1 .. n /\ k - 1 \notin Bad
  <2> HIDE DEF Bad
  <2>1. QED
    BY <1>3, <1>4, <1>5
<1>7. PICK f : Runs(f, k - 1)
  <2> HIDE DEF Runs
  <2>1. QED
    BY <1>6
<1> DEFINE next == Fed(f[k - 1], frags[k])
           g == [i \in 0 .. k |-> IF i = k THEN next ELSE f[i]]
<1> HIDE DEF next
<1>8. g = [i \in 0 .. k |-> g[i]]
  OBVIOUS
<1>9. g[0] = [asm |-> asm, inst |-> NoInstruction]
  BY <1>4, <1>5, <1>7 DEF Traces
<1>10. ASSUME NEW i \in 1 .. k PROVE g[i] = Fed(g[i - 1], frags[i])
  <2>1. i - 1 \in 0 .. k /\ i - 1 # k /\ g[i - 1] = f[i - 1]
    BY <1>4
  <2>2. CASE i = k
    BY <1>4, <2>1, <2>2 DEF next
  <2>3. CASE i # k
    <3>1. i \in 1 .. k - 1 /\ i \in 0 .. k
      BY <1>4, <2>3
    <3>2. QED
      BY <1>7, <2>1, <2>3, <3>1 DEF Traces
  <2>4. QED
    BY <2>2, <2>3
<1>11. Runs(g, k)
  <2> HIDE DEF g
  <2>1. QED
    BY <1>8, <1>9, <1>10 DEF Traces
<1> HIDE DEF Runs, g
<1>12. QED
  BY <1>4, <1>11

\* Feed is where the trace ends.
LEMMA FeedIsTraced ==
  ASSUME NEW asm, NEW frags, Len(frags) \in Nat
  PROVE  \E f : Traces(f, asm, frags, Len(frags)) /\ Feed(asm, frags) = f[Len(frags)]
<1> DEFINE n == Len(frags)
           start == [asm |-> asm, inst |-> NoInstruction]
           Step(f, i) == IF i = 0 THEN start ELSE Fed(f[i - 1], frags[i])
           after == CHOOSE f : f = [i \in 0 .. n |-> Step(f, i)]
<1>1. Feed(asm, frags) = after[n]
  BY DEF Feed, Fed
<1>2. \E f : f = [i \in 0 .. n |-> Step(f, i)]
  <2>1. PICK f : Traces(f, asm, frags, n)
    BY TraceExists
  <2> HIDE DEF start
  <2>2. ASSUME NEW i \in 0 .. n PROVE f[i] = Step(f, i)
    <3>1. CASE i = 0
      BY <2>1, <3>1 DEF Traces, start
    <3>2. CASE i # 0
      <4>1. i \in 1 .. n
        BY <3>2
      <4>2. QED
        BY <2>1, <3>2, <4>1 DEF Traces
    <3>3. QED
      BY <3>1, <3>2
  <2>3. f = [i \in 0 .. n |-> f[i]]
    BY <2>1 DEF Traces
  <2> HIDE DEF Step
  <2>4. f = [i \in 0 .. n |-> Step(f, i)]
    BY <2>2, <2>3
  <2>5. QED
    BY <2>4
<1>3. after = [i \in 0 .. n |-> Step(after, i)]
  <2> HIDE DEF Step
  <2>1. QED
    BY <1>2
<1>4. \A i \in 0 .. n : after[i] = Step(after, i)
  <2> HIDE DEF after, Step
  <2>1. QED
    BY <1>3
<1> HIDE DEF after
<1>5. Traces(after, asm, frags, n)
  <2>1. after = [i \in 0 .. n |-> after[i]]
    <3> HIDE DEF Step
    <3>1. QED
      BY <1>3
  <2>2. after[0] = start
    BY <1>4
  <2>3. \A i \in 1 .. n : after[i] = Fed(after[i - 1], frags[i])
    BY <1>4
  <2>4. QED
    BY <2>1, <2>2, <2>3 DEF Traces
<1>6. QED
  BY <1>1, <1>5

\* From x to y the k-th piece was added: the instruction is handed up, or the
\* piece is kept with those there before.
PieceAdded(x, y, id, inst, b, k) ==
  /\ AsmOK(y.asm) /\ Built(y.asm, id, inst, b) /\ y.asm.current_id = id
  /\ x.inst = inst => y.inst = inst
  /\ x.inst = NoInstruction =>
       \/ y.inst = inst
       \/ /\ y.inst = NoInstruction
          /\ k \in Filled(y.asm.fragments)
          /\ x.asm.current_id = id =>
               Filled(x.asm.fragments) \subseteq Filled(y.asm.fragments)

LEMMA FedPiece ==
  ASSUME NEW inst, NEW b, NEW n, Cut(inst, b, n), NEW id \in Nat, NEW k \in 1 .. n,
         Deliverable(inst),
         NEW x, AsmOK(x.asm), Built(x.asm, id, inst, b)
  PROVE  PieceAdded(x, Fed(x, Pieces(id, inst, b)[k]), id, inst, b, k)
<1> DEFINE f == Pieces(id, inst, b)[k]
           r == add_fragment(x.asm, f)
           y == Fed(x, f)
<1>1. inst # NoInstruction
  BY FragmentAssumption DEF Cut
<1>2. f.id = id
  BY PieceIsFragment
<1>3. /\ AsmOK(r.asm) /\ Built(r.asm, id, inst, b) /\ r.asm.current_id = id
      /\ r.inst \in {NoInstruction, inst}
      /\ r.inst = NoInstruction =>
           Filled(Before(x.asm, f)) \cup {k} \subseteq Filled(r.asm.fragments)
  <2>1. AsmOK(r.asm) /\ Built(r.asm, id, inst, b) /\ r.asm.current_id = id
    BY AddPiece
  <2>2. r.inst \in {NoInstruction, inst}
    BY AddPiece
  <2>3. Deliverable(inst) => (r.inst = NoInstruction =>
           Filled(Before(x.asm, f)) \cup {k} \subseteq Filled(r.asm.fragments))
    BY AddPiece
  <2> HIDE DEF r, f
  <2>4. QED
    BY <2>1, <2>2, <2>3
<1>4. y = [asm |-> r.asm, inst |-> IF r.inst # NoInstruction THEN r.inst ELSE x.inst]
  BY DEF Fed
<1>5. x.asm.current_id = id => Before(x.asm, f) = x.asm.fragments
  BY <1>2 DEF Before
<1> HIDE DEF r, y, f
<1>6. y.asm = r.asm /\ y.inst = IF r.inst # NoInstruction THEN r.inst ELSE x.inst
  BY <1>4
<1>7. CASE r.inst = inst
  BY <1>1, <1>3, <1>6, <1>7 DEF y, f, PieceAdded
<1>8. CASE r.inst = NoInstruction
  BY <1>3, <1>5, <1>6, <1>8 DEF y, f, PieceAdded
<1>9. QED
  BY <1>3, <1>7, <1>8

\* Fragments that are the pieces of an instruction, all of them.
Covers(frags, id, inst, b, n) ==
  /\ Len(frags) \in Nat
  /\ \A i \in 1 .. Len(frags) : \E k \in 1 .. n : frags[i] = Pieces(id, inst, b)[k]
  /\ \A k \in 1 .. n : \E i \in 1 .. Len(frags) : frags[i] = Pieces(id, inst, b)[k]

\* Every piece of an instruction within the limits, in any order and however often, with at
\* most pieces of it there before.
LEMMA PiecesAreAssembled ==
  ASSUME NEW inst, NEW b, NEW n, Cut(inst, b, n), NEW id \in Nat,
         Deliverable(inst),
         NEW asm, AsmOK(asm), Built(asm, id, inst, b),
         NEW frags, Covers(frags, id, inst, b, n)
  PROVE  Feed(asm, frags).inst = inst
<1> DEFINE ps == Pieces(id, inst, b)
           m == Len(frags)
<1>1. n \in Nat \ {0} /\ inst # NoInstruction
  BY PieceBounds, FragmentAssumption DEF Cut
<1> USE DEF Covers
<1>2. PICK t : Traces(t, asm, frags, m) /\ Feed(asm, frags) = t[m]
  BY FeedIsTraced
<1>3. /\ t[0] = [asm |-> asm, inst |-> NoInstruction]
      /\ \A i \in 1 .. m : t[i] = Fed(t[i - 1], frags[i])
  BY <1>2 DEF Traces
<1> DEFINE Held(i) == \A j \in 1 .. i : \A k \in 1 .. n :
                        frags[j] = ps[k] => k \in Filled(t[i].asm.fragments)
           Good(i) == /\ AsmOK(t[i].asm) /\ Built(t[i].asm, id, inst, b)
                      /\ \/ t[i].inst = inst
                         \/ /\ t[i].inst = NoInstruction
                            /\ i # 0 => t[i].asm.current_id = id
                            /\ Held(i)
           Bad == {i \in 0 .. m : ~ Good(i)}
<1>4. Good(0)
  BY <1>3
<1>5. ASSUME NEW i \in 1 .. m, Good(i - 1) PROVE Good(i)
  <2> DEFINE x == t[i - 1]
             y == t[i]
  <2>1. /\ AsmOK(x.asm) /\ Built(x.asm, id, inst, b)
        /\ \/ x.inst = inst
           \/ x.inst = NoInstruction /\ (i - 1 # 0 => x.asm.current_id = id) /\ Held(i - 1)
    BY <1>5
  <2>2. ASSUME NEW k \in 1 .. n, frags[i] = ps[k]
        PROVE  PieceAdded(x, y, id, inst, b, k)
    <3>1. y = Fed(x, Pieces(id, inst, b)[k])
      BY <1>3, <2>2
    <3>2. AsmOK(x.asm) /\ Built(x.asm, id, inst, b)
      BY <2>1
    <3> HIDE DEF x, y, Covers
    <3>3. PieceAdded(x, Fed(x, Pieces(id, inst, b)[k]), id, inst, b, k)
      BY <3>2, FedPiece
    <3>4. QED
      BY <3>1, <3>3
  <2>3. PICK k0 \in 1 .. n : frags[i] = ps[k0]
    OBVIOUS
  <2>4. CASE y.inst = inst
    BY <2>2, <2>3, <2>4 DEF PieceAdded
  <2>5. CASE y.inst # inst
    <3>1. /\ x.inst = NoInstruction /\ y.inst = NoInstruction
          /\ i - 1 # 0 => /\ x.asm.current_id = id
                          /\ Filled(x.asm.fragments) \subseteq Filled(y.asm.fragments)
          /\ Held(i - 1)
      <4> HIDE DEF Held, x, y
      <4>1. QED
        BY <2>1, <2>2, <2>3, <2>5 DEF PieceAdded
    <3>2. ASSUME NEW j \in 1 .. i, NEW k \in 1 .. n, frags[j] = ps[k]
          PROVE  k \in Filled(y.asm.fragments)
      <4>1. CASE j = i
        <5> HIDE DEF x, y
        <5>1. QED
          BY <2>2, <2>5, <3>1, <3>2, <4>1 DEF PieceAdded
      <4>2. CASE j # i
        <5>1. j \in 1 .. i - 1 /\ i - 1 # 0
          BY <4>2
        <5>2. k \in Filled(x.asm.fragments)
          BY <3>1, <3>2, <5>1
        <5>3. QED
          BY <3>1, <5>1, <5>2
      <4>3. QED
        BY <4>1, <4>2
    <3>3. Held(i)
      BY <3>2
    <3>4. AsmOK(y.asm) /\ Built(y.asm, id, inst, b) /\ y.asm.current_id = id
      BY <2>2, <2>3 DEF PieceAdded
    <3> HIDE DEF Held
    <3>5. QED
      BY <3>1, <3>3, <3>4
  <2>6. QED
    BY <2>4, <2>5
<1> HIDE DEF Good
<1>6. Bad = {}
  <2>1. SUFFICES ASSUME Bad # {} PROVE FALSE
    OBVIOUS
  <2>2. Bad \in SUBSET Nat
    OBVIOUS
  <2>3. PICK i \in Bad : \A j \in Bad : i <= j
    <3> HIDE DEF Bad
    <3>1. QED
      BY <2>1, <2>2, LeastElement
  <2>4. i \in 0 .. m /\ ~ Good(i) /\ i # 0
    BY <1>4, <2>3
  <2>5. i \in 1 .. m /\ i - 1 \in 0 .. m /\ i - 1 \notin Bad
    <3> HIDE DEF Bad
    <3>1. QED
      BY <2>3, <2>4
  <2>6. QED
    BY <1>5, <2>4, <2>5
<1>7. Good(m) /\ m # 0
  <2>1. m \in 0 .. m
    OBVIOUS
  <2>2. 1 \in 1 .. n
    BY <1>1
  <2>3. \E i \in 1 .. m : frags[i] = ps[1]
    BY <2>2
  <2>4. QED
    BY <1>6, <2>1, <2>3
<1>8. CASE t[m].inst = inst
  BY <1>2, <1>8
<1>9. CASE t[m].inst # inst
  <2>1. /\ AsmOK(t[m].asm) /\ Built(t[m].asm, id, inst, b) /\ t[m].asm.current_id = id
        /\ Held(m)
    BY <1>7, <1>9 DEF Good
  <2>2. 1 .. n \subseteq Filled(t[m].asm.fragments)
    BY <2>1
  <2>3. QED
    BY <2>1, <2>2, PieceMissing DEF Deliverable
<1>10. QED
  BY <1>8, <1>9

\* The pieces one after the other, and any other order of them.
LEMMA PiecesCover ==
  ASSUME NEW inst, NEW b, NEW n, Cut(inst, b, n), NEW id,
         NEW frags, frags = Pieces(id, inst, b) \/ frags \in SetToSeqs(ToSet(Pieces(id, inst, b)))
  PROVE  Covers(frags, id, inst, b, n)
<1> DEFINE ps == Pieces(id, inst, b)
           S == ToSet(ps)
           c == Cardinality(S)
<1>1. n \in Nat
  BY PieceBounds
<1>2. DOMAIN ps = 1 .. n /\ ps = [k \in 1 .. n |-> ps[k]]
  BY DEF Pieces, Cut
<1> HIDE DEF ps
<1>3. CASE frags = ps
  <2>1. ps \in [1 .. n -> {ps[k] : k \in 1 .. n}]
    BY <1>2
  <2>2. Len(ps) = n
    BY <1>1, <2>1, FunctionIsSeq
  <2>3. QED
    BY <1>1, <1>3, <2>2 DEF ps, Covers
<1>4. CASE frags \in SetToSeqs(S)
  <2>1. S = {ps[k] : k \in 1 .. n}
    BY <1>2 DEF ToSet
  <2> HIDE DEF S
  <2>2. ps \in Surjection(1 .. n, S)
    BY <1>2, <2>1 DEF Surjection
  <2>3. IsFiniteSet(S) /\ c \in Nat
    <3>1. IsFiniteSet(1 .. n)
      BY <1>1, FS_Interval
    <3>2. IsFiniteSet(S)
      BY <2>2, <3>1, FS_Surjection
    <3>3. QED
      BY <3>2, FS_CardinalityType
  <2>4. frags \in [1 .. c -> S] /\ \A i, j \in 1 .. c : i # j => frags[i] # frags[j]
    BY <1>4 DEF SetToSeqs
  <2> HIDE DEF c
  <2>5. Len(frags) = c
    BY <2>3, <2>4, FunctionIsSeq
  <2>6. Cardinality(1 .. c) = c
    <3>1. Cardinality(1 .. c) = IF 1 > c THEN 0 ELSE c - 1 + 1
      BY <2>3, FS_Interval
    <3>2. QED
      BY <2>3, <3>1
  <2>7. frags \in Injection(1 .. c, S)
    BY <2>4 DEF Injection, IsInjective
  <2>8. frags \in Surjection(1 .. c, S)
    BY <2>3, <2>6, <2>7, FS_Injection DEF c
  <2>9. \A x \in S : \E i \in 1 .. c : frags[i] = x
    BY <2>8 DEF Surjection
  <2>10. \A i \in 1 .. c : \E k \in 1 .. n : frags[i] = ps[k]
    BY <2>1, <2>4
  <2>11. \A k \in 1 .. n : \E i \in 1 .. c : frags[i] = ps[k]
    BY <2>1, <2>9
  <2>12. QED
    BY <2>3, <2>5, <2>10, <2>11 DEF ps, Covers
<1>5. QED
  BY <1>3, <1>4 DEF ps, S

-----------------------------------------------------------------------------
(* The link. *)

BudgetOf(m) == m.mtu - FRAG_HEADER_LEN

\* Every id up to the fragmenter's last one stands for one instruction cut to one
\* budget, what is on the wire are pieces of those, and under each of the ids the
\* assembly has pieces of its instruction and of no other (Built).
FragmentInv ==
  LET last == fragmenter.next_instruction_id
  IN  /\ last \in Nat /\ last <= MaxId
      /\ meaning \in [1 .. last -> [inst : Instructions, mtu : Nat]]
      /\ \A id \in 1 .. last : BudgetOf(meaning[id]) \in Nat \ {0}
      /\ IF last = 0 THEN fragmenter.last_header = NoInstruction
         ELSE /\ meaning[last].inst = fragmenter.last_header
              /\ BudgetOf(meaning[last]) = fragmenter.last_mtu
      /\ AsmOK(assembly)
      /\ assembly.current_id \in 1 .. MaxId => assembly.current_id <= last
      /\ \A id \in 1 .. last :
           Built(assembly, id, meaning[id].inst, BudgetOf(meaning[id]))
      /\ \A f \in sent : \E id \in 1 .. last :
           LET m == meaning[id]
           IN  \E k \in 1 .. PieceCount(m.inst, BudgetOf(m)) :
                 f = Pieces(id, m.inst, BudgetOf(m))[k]

LEMMA FragmentInvInit == FragmentInit => FragmentInv
<1> SUFFICES ASSUME FragmentInit PROVE FragmentInv
  OBVIOUS
<1>1. /\ fragmenter.next_instruction_id = 0 /\ fragmenter.last_header = NoInstruction
      /\ assembly = EmptyAssembly /\ sent = {} /\ meaning = << >>
  BY DEF FragmentInit, FragmenterInit
<1>2. EmptyAssembly = reset(EmptyAssembly) /\ EmptyAssembly.current_id = 0
  BY DEF reset, EmptyAssembly
<1>3. AsmOK(assembly) /\ assembly.current_id = 0
  BY <1>1, <1>2, ResetOK
<1>4. meaning \in [1 .. 0 -> [inst : Instructions, mtu : Nat]]
  BY <1>1
<1>5. MaxId \in Nat
  BY FragmentLinkAssumption
<1>6. QED
  BY <1>1, <1>3, <1>4, <1>5 DEF FragmentInv

\* A new call: either its id is the last one and stands for the same thing, or it
\* is new to the assembly too.
LEMMA FragmentInvMake ==
  ASSUME FragmentInv, NEW inst \in Instructions, NEW mtu \in Mtus, make_fragments(inst, mtu)
  PROVE  FragmentInv'
<1> DEFINE last == fragmenter.next_instruction_id
           budget == mtu - FRAG_HEADER_LEN
           after == Bumped(fragmenter, inst, budget)
           id == after.next_instruction_id
           this == [inst |-> inst, mtu |-> mtu]
           Piece(f, i, m) == \E k \in 1 .. PieceCount(m.inst, BudgetOf(m)) :
                               f = Pieces(i, m.inst, BudgetOf(m))[k]
<1>1. /\ mtu \in Nat /\ FRAG_HEADER_LEN \in Nat /\ MaxId \in Nat
  BY FragmentAssumption, FragmentLinkAssumption
<1>2. /\ budget > 0 /\ id <= MaxId /\ fragmenter' = after /\ assembly' = assembly
      /\ meaning' = [i \in DOMAIN meaning \cup {id} |-> IF i = id THEN this ELSE meaning[i]]
      /\ sent' \subseteq sent \cup ToSet(Pieces(id, inst, budget))
  BY DEF make_fragments
<1>3. /\ last \in Nat /\ last <= MaxId
      /\ meaning \in [1 .. last -> [inst : Instructions, mtu : Nat]]
      /\ \A i \in 1 .. last : BudgetOf(meaning[i]) \in Nat \ {0}
      /\ last = 0 => fragmenter.last_header = NoInstruction
      /\ last # 0 => /\ meaning[last].inst = fragmenter.last_header
                     /\ BudgetOf(meaning[last]) = fragmenter.last_mtu
      /\ AsmOK(assembly)
      /\ assembly.current_id \in 1 .. MaxId => assembly.current_id <= last
      /\ \A i \in 1 .. last : Built(assembly, i, meaning[i].inst, BudgetOf(meaning[i]))
      /\ \A f \in sent : \E i \in 1 .. last : Piece(f, i, meaning[i])
  BY DEF FragmentInv
<1>4. budget \in Nat \ {0} /\ BudgetOf(this) = budget
  BY <1>1, <1>2 DEF BudgetOf
<1>5. after.last_header = inst /\ after.last_mtu = budget
  BY DEF Bumped
<1>6. \/ id = last /\ last # 0 /\ meaning[last] = this
      \/ id = last + 1
  <2>1. CASE fragmenter.last_header = inst /\ fragmenter.last_mtu = budget
    <3>1. id = last /\ last # 0
      BY <1>3, <2>1, FragmentAssumption DEF Bumped
    <3>2. meaning[last].inst = inst /\ BudgetOf(meaning[last]) = budget
      BY <1>3, <2>1, <3>1
    <3>3. meaning[last] \in [inst : Instructions, mtu : Nat]
      BY <1>3, <3>1
    <3>4. meaning[last].mtu = mtu
      BY <1>1, <3>2, <3>3 DEF BudgetOf
    <3>5. meaning[last] = this
      BY <3>2, <3>3, <3>4
    <3>6. QED
      BY <3>1, <3>5
  <2>2. CASE ~ (fragmenter.last_header = inst /\ fragmenter.last_mtu = budget)
    BY <2>2 DEF Bumped
  <2>3. QED
    BY <2>1, <2>2
<1> HIDE DEF id, after, this, budget, last
<1>7. /\ id \in Nat \ {0} /\ last <= id /\ 1 .. last \subseteq 1 .. id
      /\ DOMAIN meaning \cup {id} = 1 .. id
      /\ \A i \in 1 .. id : i # id => i \in 1 .. last
  BY <1>3, <1>6
<1>8. this \in [inst : Instructions, mtu : Nat]
  BY <1>1 DEF this
<1>9. /\ meaning' \in [1 .. id -> [inst : Instructions, mtu : Nat]]
      /\ meaning'[id] = this
      /\ \A i \in 1 .. last : meaning'[i] = meaning[i]
  BY <1>2, <1>3, <1>6, <1>7, <1>8
<1>10. this.inst = inst
  BY DEF this
<1>11. ASSUME NEW i \in 1 .. id
       PROVE  /\ BudgetOf(meaning'[i]) \in Nat \ {0}
              /\ Built(assembly, i, meaning'[i].inst, BudgetOf(meaning'[i]))
  <2>1. CASE i \in 1 .. last
    BY <1>3, <1>9, <2>1
  <2>2. CASE i \notin 1 .. last
    <3>1. i = id /\ id = last + 1
      BY <1>6, <1>7, <2>2
    <3>2. assembly.current_id # i
      BY <1>1, <1>2, <1>3, <1>7, <3>1
    <3>3. Built(assembly, i, meaning'[i].inst, BudgetOf(meaning'[i]))
      BY <3>2 DEF Built
    <3>4. QED
      BY <1>4, <1>9, <3>1, <3>3
  <2>3. QED
    BY <2>1, <2>2
<1>12. ASSUME NEW f \in sent' PROVE \E i \in 1 .. id : Piece(f, i, meaning'[i])
  <2>1. CASE f \in sent
    <3>1. PICK i \in 1 .. last : Piece(f, i, meaning[i])
      BY <1>3, <2>1
    <3>2. i \in 1 .. id /\ meaning'[i] = meaning[i]
      BY <1>7, <1>9
    <3> HIDE DEF Piece
    <3>3. QED
      BY <3>1, <3>2
  <2>2. CASE f \in ToSet(Pieces(id, inst, budget))
    <3>1. PICK k \in 1 .. PieceCount(inst, budget) : f = Pieces(id, inst, budget)[k]
      BY <2>2 DEF ToSet, Pieces
    <3>2. Piece(f, id, meaning'[id])
      BY <1>4, <1>9, <1>10, <3>1
    <3> HIDE DEF Piece
    <3>3. QED
      BY <1>7, <3>2
  <2>3. QED
    BY <1>2, <2>1, <2>2
<1>13. fragmenter'.next_instruction_id = id
  BY <1>2 DEF id
<1>14. /\ meaning'[id].inst = fragmenter'.last_header
       /\ BudgetOf(meaning'[id]) = fragmenter'.last_mtu
  BY <1>2, <1>4, <1>5, <1>9, <1>10
<1>15. assembly'.current_id \in 1 .. MaxId => assembly'.current_id <= id
  BY <1>1, <1>2, <1>3, <1>7
<1>16. QED
  BY <1>2, <1>3, <1>7, <1>9, <1>11, <1>12, <1>13, <1>14, <1>15 DEF FragmentInv

\* A fragment of the link, or a stray one under an id of its own.
LEMMA FragmentInvReceive ==
  ASSUME FragmentInv, NEW frag \in sent \cup Strays, Receive(frag)
  PROVE  FragmentInv'
<1> DEFINE last == fragmenter.next_instruction_id
           r == add_fragment(assembly, frag)
           inst(i) == meaning[i].inst
           b(i) == BudgetOf(meaning[i])
<1>1. /\ assembly' = r.asm /\ fragmenter' = fragmenter /\ sent' = sent /\ meaning' = meaning
  BY DEF Receive
<1>2. /\ last \in Nat /\ last <= MaxId /\ MaxId \in Nat
      /\ AsmOK(assembly)
      /\ \A i \in 1 .. last : Built(assembly, i, inst(i), b(i))
  BY FragmentLinkAssumption DEF FragmentInv
<1>3. /\ AsmOK(r.asm)
      /\ r.asm.current_id \in 1 .. MaxId => r.asm.current_id <= last
      /\ \A i \in 1 .. last : Built(r.asm, i, inst(i), b(i))
  <2>1. CASE frag \in Strays
    <3>1. frag \in [id : Nat \ (1 .. MaxId), fragment_num : Nat, final : BOOLEAN,
                    contents : {frag.contents}]
      BY <2>1, FragmentLinkAssumption
    <3>2. frag.contents \in Contents
      BY <2>1 DEF Contents
    <3>3. frag \in AnyFragment /\ frag.id \notin 1 .. MaxId
      BY <3>1, <3>2 DEF AnyFragment
    <3>4. AsmOK(r.asm) /\ r.asm.current_id = frag.id
      BY <1>2, <3>3, AddKeepsAsm
    <3> HIDE DEF r, last
    <3>5. \A i \in 1 .. last : r.asm.current_id # i
      BY <1>2, <3>3, <3>4
    <3>6. \A i \in 1 .. last : Built(r.asm, i, inst(i), b(i))
      BY <3>5 DEF Built
    <3>7. QED
      BY <3>3, <3>4, <3>6
  <2>2. CASE frag \in sent
    <3>1. PICK id \in 1 .. last : \E k \in 1 .. PieceCount(inst(id), b(id)) :
                                    frag = Pieces(id, inst(id), b(id))[k]
      BY <2>2 DEF FragmentInv
    <3>2. PICK k \in 1 .. PieceCount(inst(id), b(id)) :
                 frag = Pieces(id, inst(id), b(id))[k]
      BY <3>1
    <3>3. Cut(inst(id), b(id), PieceCount(inst(id), b(id))) /\ id \in Nat
      BY DEF Cut, FragmentInv
    <3>4. Built(assembly, id, inst(id), b(id))
      BY <1>2
    <3> HIDE DEF r, last, inst, b
    <3>5. AsmOK(r.asm) /\ Built(r.asm, id, inst(id), b(id)) /\ r.asm.current_id = id
      BY <1>2, <3>2, <3>3, <3>4, AddPiece DEF r
    <3>6. ASSUME NEW i \in 1 .. last PROVE Built(r.asm, i, inst(i), b(i))
      <4>1. CASE i = id
        BY <3>5, <4>1
      <4>2. CASE i # id
        BY <3>5, <4>2 DEF Built
      <4>3. QED
        BY <4>1, <4>2
    <3>7. QED
      BY <1>2, <3>5, <3>6
  <2>3. QED
    BY <2>1, <2>2
<1> HIDE DEF r
<1>4. QED
  BY <1>1, <1>3 DEF FragmentInv

LEMMA FragmentInvNext == FragmentInv /\ [FragmentNext]_fragmentVars => FragmentInv'
<1> SUFFICES ASSUME FragmentInv, [FragmentNext]_fragmentVars PROVE FragmentInv'
  OBVIOUS
<1>1. CASE UNCHANGED fragmentVars
  BY <1>1 DEF FragmentInv, fragmentVars
<1>2. ASSUME NEW inst \in Instructions, NEW mtu \in Mtus, make_fragments(inst, mtu)
      PROVE  FragmentInv'
  BY <1>2, FragmentInvMake
<1>3. ASSUME NEW frag \in sent \cup Strays, Receive(frag) PROVE FragmentInv'
  BY <1>3, FragmentInvReceive
<1>4. QED
  BY <1>1, <1>2, <1>3 DEF FragmentNext

\* Ids are used for one instruction and one budget each, and under an id in use
\* the assembly has pieces of that instruction alone, never all of them if it
\* inflates within the limit.
THEOREM FragmentInvariant == FragmentSpec => []FragmentInv
BY FragmentInvInit, FragmentInvNext, PTL DEF FragmentSpec

\* The invariant about one id.
LEMMA MeaningIsCut ==
  ASSUME FragmentInv, NEW id \in DOMAIN meaning
  PROVE  LET m == meaning[id]
             b == BudgetOf(m)
         IN  /\ Cut(m.inst, b, PieceCount(m.inst, b)) /\ id \in Nat
             /\ AsmOK(assembly) /\ Built(assembly, id, m.inst, b)
BY DEF FragmentInv, Cut

\* Whatever late, duplicated and reordered fragments came before, the fragment
\* that completes an assembly hands up the instruction its id was given to, or
\* nothing when that one is over a limit (FragmentAssembly::add_fragment over
\* Fragmenter::make_fragments, ASSEMBLY_LIMIT and DECOMPRESS_LIMIT).
THEOREM AssembledAsSentAlways == FragmentSpec => []AssembledAsSent
<1>1. FragmentInv => AssembledAsSent
  <2>1. SUFFICES ASSUME FragmentInv, NEW f \in sent,
                        LET next == Totalled(Placed(assembly, f), f)
                        IN  next.fragments_arrived = next.fragments_total
                 PROVE  LET inst == meaning[f.id].inst
                        IN  add_fragment(assembly, f).inst
                              = IF Deliverable(inst) THEN inst ELSE NoInstruction
    BY DEF AssembledAsSent
  <2>2. PICK id \in DOMAIN meaning :
               \E k \in 1 .. PieceCount(meaning[id].inst, BudgetOf(meaning[id])) :
                 f = Pieces(id, meaning[id].inst, BudgetOf(meaning[id]))[k]
    BY <2>1 DEF FragmentInv
  <2> DEFINE inst == meaning[id].inst
             b == BudgetOf(meaning[id])
             n == PieceCount(inst, b)
  <2>3. Cut(inst, b, n) /\ id \in Nat /\ AsmOK(assembly) /\ Built(assembly, id, inst, b)
    BY <2>1, MeaningIsCut
  <2>4. PICK k \in 1 .. n : f = Pieces(id, inst, b)[k]
    BY <2>2
  <2> HIDE DEF inst, b, n
  <2>5. f.id = id
    BY <2>3, <2>4, PieceIsFragment
  <2>6. add_fragment(assembly, f).inst = IF Deliverable(inst) THEN inst ELSE NoInstruction
    BY <2>1, <2>3, <2>4, AddPiece
  <2>7. QED
    BY <2>5, <2>6 DEF inst
<1>2. QED
  BY <1>1, FragmentInvariant, PTL

\* From every reachable assembly the pieces of any instruction sent that is within
\* the limits, received in whichever order, hand it up: no mixture of earlier
\* fragments wedges the assembly (FragmentAssembly::add_fragment).
THEOREM NeverWedgedAlways == FragmentSpec => []NeverWedged
<1>1. FragmentInv => NeverWedged
  <2>1. SUFFICES ASSUME FragmentInv, NEW id \in DOMAIN meaning,
                        Deliverable(meaning[id].inst),
                        NEW order \in SetToSeqs(ToSet(Pieces(id, meaning[id].inst,
                                                       BudgetOf(meaning[id]))))
                 PROVE  Feed(assembly, order).inst = meaning[id].inst
    BY DEF NeverWedged, BudgetOf
  <2> DEFINE inst == meaning[id].inst
             b == BudgetOf(meaning[id])
             n == PieceCount(inst, b)
  <2>2. Cut(inst, b, n) /\ id \in Nat /\ AsmOK(assembly) /\ Built(assembly, id, inst, b)
    BY <2>1, MeaningIsCut
  <2> HIDE DEF inst, b, n
  <2>3. Covers(order, id, inst, b, n)
    BY <2>1, <2>2, PiecesCover DEF inst, b
  <2>4. Feed(assembly, order).inst = inst
    BY <2>1, <2>2, <2>3, PiecesAreAssembled DEF inst
  <2>5. QED
    BY <2>4 DEF inst
<1>2. QED
  BY <1>1, FragmentInvariant, PTL

\* fragments_arrived, which decides when an assembly is complete, is the number
\* of the slots that are filled, also after a truncation by a final fragment.
THEOREM ArrivedIsCountAlways == FragmentSpec => []ArrivedIsCount
<1>1. FragmentInv => ArrivedIsCount
  BY DEF FragmentInv, AsmOK, ArrivedIsCount
<1>2. QED
  BY <1>1, FragmentInvariant, PTL

\* Whatever an ill-behaved sender left in the assembly, an instruction within the
\* limits is assembled under an id that it does not hold.
THEOREM FreshIdRecoversAlways == FragmentSpec => []FreshIdRecovers
<1>1. FragmentInv => FreshIdRecovers
  <2>1. SUFFICES ASSUME FragmentInv, NEW inst \in Instructions, NEW mtu \in Mtus,
                        NEW id \in (1 .. MaxId + 1) \ {assembly.current_id},
                        Fits(inst, mtu), Deliverable(inst)
                 PROVE  Feed(assembly, Pieces(id, inst, mtu - FRAG_HEADER_LEN)).inst = inst
    BY DEF FreshIdRecovers
  <2> DEFINE b == mtu - FRAG_HEADER_LEN
             n == PieceCount(inst, b)
             ps == Pieces(id, inst, b)
  <2>2. Cut(inst, b, n) /\ id \in Nat
    BY <2>1, FragmentAssumption, FragmentLinkAssumption DEF Cut, Fits
  <2>3. AsmOK(assembly) /\ Built(assembly, id, inst, b)
    BY <2>1 DEF FragmentInv, Built
  <2> HIDE DEF b, n
  <2>4. Covers(ps, id, inst, b, n)
    BY <2>2, PiecesCover
  <2> HIDE DEF ps
  <2>5. Feed(assembly, ps).inst = inst
    BY <2>1, <2>2, <2>3, <2>4, PiecesAreAssembled
  <2>6. QED
    BY <2>5 DEF ps, b
<1>2. QED
  BY <1>1, FragmentInvariant, PTL

-----------------------------------------------------------------------------
(***************************************************************************)
(* THE PACKET LAYER (Spec).                                                *)
(*                                                                         *)
(* For every size of the timestamp and of the sequence number, every budget of *)
(* blocks, all clock origins, and a network that repeats, reorders, reflects *)
(* and loses datagrams.                                                    *)
(***************************************************************************)

USE PacketAssumption

Other(e) == IF e = "ToServer" THEN "ToClient" ELSE "ToServer"

\* The nonce n is the one that direction e gives to its s-th datagram.
Named(n, e, s) == s \in 0 .. SEQ_MASK /\ n = Bit(e) * (SEQ_MASK + 1) + s

\* timestamp16 at another time than now.
TimestampAt(e, t) ==
  LET ts == (t + Origin[e]) % TS_MOD IN IF ts = NoTimestamp THEN 0 ELSE ts

\* st was sealed by e, and received by the other end within MaxDelay.
StampOK(st, e) ==
  /\ st.ts = TimestampAt(e, st.sent_at)
  /\ st.sent_at \in Nat /\ st.received_at \in Nat
  /\ st.sent_at <= st.received_at /\ st.received_at - st.sent_at <= MaxDelay

\* d was sealed by e, and echoes, if anything, something that e received.
DatagramOK(d, e) ==
  /\ \E s \in 0 .. next_seq[e] - 1 : Named(d.nonce, e, s)
  /\ d.sent_at \in Nat /\ d.sent_at <= now
  /\ d.timestamp = TimestampAt(e, d.sent_at)
  /\ d.echoes = NoStamp => d.timestamp_reply = NoTimestamp
  /\ d.echoes # NoStamp =>
       /\ StampOK(d.echoes, Other(e))
       /\ \E s \in 0 .. expected_receiver_seq[e] - 1 : Named(d.echoes.nonce, Other(e), s)
       /\ d.echoes.received_at <= d.sent_at
       /\ d.timestamp_reply =
            (d.echoes.ts + (d.sent_at - d.echoes.received_at)) % TS_MOD

\* The stamp e has saved is newer than every one that it has echoed.
SavedOK(e) ==
  saved_timestamp[e] # NoStamp =>
    /\ StampOK(saved_timestamp[e], Other(e))
    /\ saved_timestamp[e].received_at <= now
    /\ \E s \in 0 .. expected_receiver_seq[e] - 1 :
         /\ Named(saved_timestamp[e].nonce, Other(e), s)
         /\ \A d \in wire, r \in 0 .. SEQ_MASK :
              d.echoes # NoStamp /\ Named(d.echoes.nonce, Other(e), r) => r < s

\* Types, of what the properties depend on.
CountersOK ==
  /\ now \in Nat
  /\ next_seq \in [Directions -> 0 .. SEQ_MASK + 1]
  /\ expected_receiver_seq \in [Directions -> 0 .. SEQ_MASK + 1]
  /\ DOMAIN saved_timestamp = Directions /\ DOMAIN rtt = Directions
  /\ seals \in Nat
  /\ IsFiniteSet({d.nonce : d \in wire})

\* PacketInv: the inductive invariant - every datagram is numbered below its
\* sealer's counter and stamped with its sealer's clock, what it echoes was
\* received by its sealer, and no stamp is saved or echoed twice.
PacketInv ==
  /\ CountersOK
  /\ \A d \in wire : \E e \in Directions : DatagramOK(d, e)
  /\ \A e \in Directions : SavedOK(e)
  /\ NoncesUnique
  /\ EchoedOnce
  /\ RttIsNetworkDelay

-----------------------------------------------------------------------------
(* Arithmetic. *)

LEMMA SmallMod ==
  ASSUME NEW a \in Nat, NEW m \in Nat, a < m
  PROVE  a % m = a /\ a \div m = 0 /\ (m + a) % m = a /\ (m + a) \div m = 1
BY Z3

LEMMA DivMod ==
  ASSUME NEW a \in Int, NEW m \in Nat \ {0}
  PROVE  /\ a % m \in 0 .. m - 1
         /\ \E q \in Int : a % m = a - q * m
<1>1. a % m \in 0 .. m - 1
  BY Z3
<1>2. a \div m \in Int /\ a % m = a - (a \div m) * m
  BY Z3
<1>3. QED
  BY <1>1, <1>2

LEMMA MultipleBound ==
  ASSUME NEW k \in Int, NEW m \in Nat
  PROVE  /\ k >= 2 => k * m >= 2 * m
         /\ k <= -1 => k * m <= -m
BY Z3

-----------------------------------------------------------------------------
(* Nonces. *)

\* A nonce names its direction and its number: get_dir and get_seq undo new.
LEMMA NamedOnce ==
  ASSUME NEW e \in Directions, NEW n, NEW s, Named(n, e, s)
  PROVE  /\ n \in Nat /\ n # -1
         /\ SequenceNumber(n) = s
         /\ n \div (SEQ_MASK + 1) = Bit(e)
<1>1. s \in Nat /\ SEQ_MASK + 1 \in Nat /\ s < SEQ_MASK + 1
  BY DEF Named
<1>2. CASE e = "ToServer"
  <2>1. n = s /\ Bit(e) = 0
    BY <1>1, <1>2 DEF Named, Bit
  <2>2. QED
    BY <2>1, <1>1, SmallMod DEF SequenceNumber
<1>3. CASE e = "ToClient"
  <2>1. n = (SEQ_MASK + 1) + s /\ Bit(e) = 1
    BY <1>1, <1>3 DEF Named, Bit
  <2>2. QED
    BY <2>1, <1>1, SmallMod DEF SequenceNumber
<1>4. QED
  BY <1>2, <1>3 DEF Directions

LEMMA NonceIsNamed ==
  ASSUME NEW e \in Directions, NEW s \in 0 .. SEQ_MASK
  PROVE  Named(Nonce(e, s), e, s)
<1>1. s % (SEQ_MASK + 1) = s
  BY SmallMod
<1>2. QED
  BY <1>1 DEF Nonce, Named

LEMMA NameIsUnique ==
  ASSUME NEW e \in Directions, NEW f \in Directions, NEW n, NEW s, NEW r,
         Named(n, e, s), Named(n, f, r)
  PROVE  e = f /\ s = r
<1>1. s = r /\ Bit(e) = Bit(f)
  BY NamedOnce
<1>2. QED
  BY <1>1 DEF Bit, Directions

-----------------------------------------------------------------------------
(* Timestamps. *)

\* A 16-bit timestamp is the clock, up to whole cycles and the reserved value.
LEMMA TimestampIsClock ==
  ASSUME NEW e \in Directions, NEW t \in Nat
  PROVE  /\ TimestampAt(e, t) \in 0 .. TS_MOD - 1
         /\ \E q \in Int, extra \in {0, 1} :
              TimestampAt(e, t) = t + Origin[e] + extra - q * TS_MOD
<1> DEFINE ts == (t + Origin[e]) % TS_MOD
<1>1. t + Origin[e] \in Int /\ TS_MOD \in Nat \ {0}
  OBVIOUS
<1>2. ts \in 0 .. TS_MOD - 1 /\ \E q \in Int : ts = (t + Origin[e]) - q * TS_MOD
  BY <1>1, DivMod
<1>3. TimestampAt(e, t) = IF ts = TS_MOD - 1 THEN 0 ELSE ts
  BY DEF TimestampAt, NoTimestamp
<1> HIDE DEF ts
<1>4. PICK q \in Int : ts = (t + Origin[e]) - q * TS_MOD
  BY <1>2
<1>5. CASE ts = TS_MOD - 1
  <2> DEFINE p == q + 1
  <2>1. p \in Int /\ p * TS_MOD = q * TS_MOD + TS_MOD
    BY <1>1
  <2> HIDE DEF p
  <2>2. TimestampAt(e, t) = t + Origin[e] + 1 - p * TS_MOD
    BY <1>1, <1>3, <1>4, <1>5, <2>1
  <2>3. TimestampAt(e, t) \in 0 .. TS_MOD - 1
    BY <1>1, <1>3, <1>5
  <2>4. QED
    BY <2>1, <2>2, <2>3
<1>6. CASE ts # TS_MOD - 1
  <2>1. TimestampAt(e, t) = t + Origin[e] + 0 - q * TS_MOD
    BY <1>1, <1>3, <1>4, <1>6
  <2>2. QED
    BY <1>2, <1>3, <1>6, <2>1
<1>7. QED
  BY <1>5, <1>6

\* The sample is the delay, for every datagram that answers one of e's own.
LEMMA SampleIsDelay ==
  ASSUME PacketInv, NEW e \in Directions, NEW d \in wire, DatagramOK(d, Other(e)),
         now - d.sent_at <= MaxDelay, d.timestamp_reply # NoTimestamp,
         Sample(e, d) < RTT_MAX_SAMPLE
  PROVE  Sample(e, d) - Delay(d) \in {-1, 0, 1}
<1>1. Other(e) \in Directions /\ Other(Other(e)) = e
  BY DEF Other, Directions
<1>2. /\ now \in Nat /\ d.sent_at \in Nat /\ d.sent_at <= now
      /\ d.echoes # NoStamp /\ StampOK(d.echoes, e)
      /\ d.echoes.received_at <= d.sent_at
      /\ d.timestamp_reply =
           (d.echoes.ts + (d.sent_at - d.echoes.received_at)) % TS_MOD
  BY <1>1 DEF DatagramOK, PacketInv, CountersOK
<1> DEFINE left == d.echoes.sent_at
           got  == d.echoes.received_at
           held == d.sent_at - got
<1>3. /\ left \in Nat /\ got \in Nat /\ left <= got /\ got - left <= MaxDelay
      /\ d.echoes.ts = TimestampAt(e, left)
  BY <1>2 DEF StampOK
<1>4. Delay(d) = (now - d.sent_at) + (got - left)
  BY DEF Delay
<1>5. held \in Nat
  BY <1>2, <1>3
<1>6. PICK q0 \in Int, x0 \in {0, 1} :
        TimestampAt(e, left) = left + Origin[e] + x0 - q0 * TS_MOD
  BY <1>3, TimestampIsClock
<1>7. PICK q1 \in Int, x1 \in {0, 1} :
        TimestampAt(e, now) = now + Origin[e] + x1 - q1 * TS_MOD
  BY <1>2, TimestampIsClock
<1>8. TimestampAt(e, left) \in Int /\ TimestampAt(e, now) \in Int
  BY <1>2, <1>3, TimestampIsClock
<1>9. TS_MOD \in Nat \ {0}
  OBVIOUS
<1>10. PICK q2 \in Int :
         d.timestamp_reply = (TimestampAt(e, left) + held) - q2 * TS_MOD
  <2> DEFINE a == TimestampAt(e, left) + held
  <2>1. a \in Int
    BY <1>5, <1>8
  <2>2. d.timestamp_reply = a % TS_MOD
    BY <1>2, <1>3
  <2> HIDE DEF a
  <2>3. PICK q \in Int : a % TS_MOD = a - q * TS_MOD
    BY <2>1, <1>9, DivMod
  <2>4. QED
    BY <2>2, <2>3 DEF a
<1>11. d.timestamp_reply \in Int
  <2> DEFINE a == TimestampAt(e, left) + held
             b == q2 * TS_MOD
  <2>1. a \in Int /\ b \in Int
    BY <1>5, <1>8, <1>9
  <2>2. d.timestamp_reply = a - b
    BY <1>10
  <2> HIDE DEF a, b
  <2>3. QED
    BY <2>1, <2>2
<1>12. Sample(e, d) = (TimestampAt(e, now) - d.timestamp_reply) % TS_MOD
  BY DEF Sample, timestamp16, TimestampAt
<1>13. /\ Sample(e, d) \in 0 .. TS_MOD - 1
       /\ \E q \in Int : Sample(e, d) = (TimestampAt(e, now) - d.timestamp_reply) - q * TS_MOD
  <2> DEFINE a == TimestampAt(e, now) - d.timestamp_reply
  <2>1. a \in Int
    BY <1>8, <1>11
  <2>2. Sample(e, d) = a % TS_MOD
    BY <1>12
  <2> HIDE DEF a
  <2>3. a % TS_MOD \in 0 .. TS_MOD - 1 /\ \E q \in Int : a % TS_MOD = a - q * TS_MOD
    BY <2>1, <1>9, DivMod
  <2>4. QED
    BY <2>2, <2>3 DEF a
<1>14. PICK q3 \in Int :
         Sample(e, d) = (TimestampAt(e, now) - d.timestamp_reply) - q3 * TS_MOD
  BY <1>13
<1> DEFINE D == Delay(d)
           k == q0 + q2 - q1 - q3
<1>15. D \in Nat /\ D <= 2 * MaxDelay /\ D = now - left - held
  BY <1>2, <1>3, <1>4
<1>16. k \in Int /\ k * TS_MOD = q0 * TS_MOD + q2 * TS_MOD - q1 * TS_MOD - q3 * TS_MOD
  BY <1>9
<1> HIDE DEF D, k, held, left, got
<1>17. Sample(e, d) = D + x1 - x0 + k * TS_MOD
  <2>1. /\ q0 * TS_MOD \in Int /\ q1 * TS_MOD \in Int /\ q2 * TS_MOD \in Int
        /\ q3 * TS_MOD \in Int /\ left \in Int /\ held \in Int /\ Origin[e] \in Int
    BY <1>3, <1>5, <1>9
  <2> DEFINE m0 == q0 * TS_MOD
             m1 == q1 * TS_MOD
             m2 == q2 * TS_MOD
             m3 == q3 * TS_MOD
             km == k * TS_MOD
  <2>2. km = m0 + m2 - m1 - m3
    BY <1>16
  <2>3. TimestampAt(e, left) = left + Origin[e] + x0 - m0
    BY <1>6
  <2>4. TimestampAt(e, now) = now + Origin[e] + x1 - m1
    BY <1>7
  <2>5. d.timestamp_reply = (TimestampAt(e, left) + held) - m2
    BY <1>10
  <2>6. Sample(e, d) = (TimestampAt(e, now) - d.timestamp_reply) - m3
    BY <1>14
  <2> HIDE DEF m0, m1, m2, m3, km
  <2>7. m0 \in Int /\ m1 \in Int /\ m2 \in Int /\ m3 \in Int
    BY <2>1 DEF m0, m1, m2, m3
  <2>8. Sample(e, d) = D + x1 - x0 + km
    BY <2>1, <2>2, <2>3, <2>4, <2>5, <2>6, <2>7, <1>2, <1>15
  <2>9. QED
    BY <2>8 DEF km
<1>18. k = 0
  <2>1. /\ k >= 2 => k * TS_MOD >= 2 * TS_MOD
        /\ k <= -1 => k * TS_MOD <= - TS_MOD
        /\ k = 1 => k * TS_MOD = TS_MOD
    BY <1>9, <1>16, MultipleBound
  <2>2. k * TS_MOD \in Int
    BY <1>9, <1>16
  <2>3. D + x1 - x0 \in -1 .. 2 * MaxDelay + 1
    BY <1>15
  <2>4. QED
    BY <2>1, <2>2, <2>3, <1>13, <1>16, <1>17
<1>19. k * TS_MOD = 0
  BY <1>18, <1>9
<1>20. QED
  BY <1>15, <1>17, <1>19 DEF D

-----------------------------------------------------------------------------
(* The steps. *)

LEMMA InitHasPacketInv == Init => PacketInv
<1> SUFFICES ASSUME Init PROVE PacketInv
  OBVIOUS
<1>1. {d.nonce : d \in wire} = {}
  BY DEF Init
<1>2. CountersOK
  BY <1>1, FS_EmptySet DEF Init, CountersOK
<1>3. NoncesUnique
  BY <1>1, FS_EmptySet DEF Init, NoncesUnique
<1>4. \A e \in Directions : SavedOK(e)
  BY DEF Init, SavedOK
<1>5. EchoedOnce /\ RttIsNetworkDelay /\ \A d \in wire : \E e \in Directions : DatagramOK(d, e)
  BY DEF Init, EchoedOnce, RttIsNetworkDelay
<1>6. QED
  BY <1>2, <1>3, <1>4, <1>5 DEF PacketInv

\* What was sealed stays right while the counters and the clock go on.
LEMMA DatagramStaysOK ==
  ASSUME CountersOK, CountersOK', now <= now', NEW e \in Directions,
         next_seq[e] <= next_seq'[e],
         expected_receiver_seq[e] <= expected_receiver_seq'[e],
         NEW d, DatagramOK(d, e)
  PROVE  DatagramOK(d, e)'
<1>1. 0 .. next_seq[e] - 1 \subseteq 0 .. next_seq'[e] - 1
  BY DEF CountersOK
<1>2. 0 .. expected_receiver_seq[e] - 1 \subseteq 0 .. expected_receiver_seq'[e] - 1
  BY DEF CountersOK
<1>3. d.sent_at \in Nat /\ d.sent_at <= now'
  BY DEF DatagramOK, CountersOK
<1>4. QED
  BY <1>1, <1>2, <1>3 DEF DatagramOK

LEMMA ClockKeepsInv ==
  ASSUME PacketInv, Clock
  PROVE  PacketInv'
<1>1. /\ now \in Nat /\ now' = now + 1
      /\ UNCHANGED << next_seq, expected_receiver_seq, saved_timestamp, rtt, wire, seals >>
  BY DEF PacketInv, CountersOK, Clock, sealerVars
<1>2. CountersOK' /\ CountersOK
  BY <1>1 DEF PacketInv, CountersOK
<1>3. \A d \in wire' : \E e \in Directions : DatagramOK(d, e)'
  <2>1. SUFFICES ASSUME NEW d \in wire PROVE \E e \in Directions : DatagramOK(d, e)'
    BY <1>1
  <2>2. PICK e \in Directions : DatagramOK(d, e)
    BY DEF PacketInv
  <2>3. now <= now' /\ next_seq[e] <= next_seq'[e]
        /\ expected_receiver_seq[e] <= expected_receiver_seq'[e]
    BY <1>1, <1>2 DEF CountersOK
  <2>4. QED
    BY <1>2, <2>2, <2>3, DatagramStaysOK
<1>4. \A e \in Directions : SavedOK(e)'
  <2>1. SUFFICES ASSUME NEW e \in Directions, saved_timestamp[e] # NoStamp
                 PROVE  SavedOK(e)'
    BY <1>1 DEF SavedOK
  <2>2. SavedOK(e)
    BY DEF PacketInv
  <2>3. saved_timestamp[e].received_at \in Nat /\ saved_timestamp[e].received_at <= now'
    BY <1>1, <2>1, <2>2 DEF SavedOK, StampOK
  <2>4. QED
    BY <1>1, <2>1, <2>2, <2>3 DEF SavedOK
<1>5. NoncesUnique' /\ EchoedOnce' /\ RttIsNetworkDelay'
  BY <1>1 DEF PacketInv, NoncesUnique, EchoedOnce, RttIsNetworkDelay
<1>6. QED
  BY <1>2, <1>3, <1>4, <1>5 DEF PacketInv

\* A seal that fails leaves no trace but the spent budget and the stamp that
\* would have been echoed.
LEMMA FailedSealKeepsInv ==
  ASSUME PacketInv, NEW e \in Directions,
         UNCHANGED << now, next_seq, expected_receiver_seq, rtt, wire, seals >>,
         saved_timestamp' = [saved_timestamp EXCEPT ![e] = IF Fresh(e) THEN NoStamp ELSE @]
  PROVE  PacketInv'
<1>1. CountersOK' /\ CountersOK
  BY DEF PacketInv, CountersOK
<1>2. \A d \in wire' : \E f \in Directions : DatagramOK(d, f)'
  BY DEF PacketInv, DatagramOK
<1>3. \A f \in Directions : SavedOK(f)'
  <2>1. ASSUME NEW f \in Directions
        PROVE  saved_timestamp'[f] \in {NoStamp, saved_timestamp[f]}
    BY <1>1 DEF CountersOK
  <2>2. QED
    BY <2>1 DEF PacketInv, SavedOK
<1>4. NoncesUnique' /\ EchoedOnce' /\ RttIsNetworkDelay'
  BY DEF PacketInv, NoncesUnique, EchoedOnce, RttIsNetworkDelay
<1>5. QED
  BY <1>1, <1>2, <1>3, <1>4 DEF PacketInv

\* A seal that succeeds uses a number for the first and only time.
LEMMA SealKeepsInv ==
  ASSUME PacketInv, NEW e \in Directions, ~ SequenceExhausted(e),
         next_seq' = [next_seq EXCEPT ![e] = @ + 1],
         wire' = wire \cup {[Header(e) EXCEPT !.nonce = Nonce(e, next_seq[e])]},
         seals' = seals + 1,
         UNCHANGED << now, expected_receiver_seq, rtt >>,
         saved_timestamp' = [saved_timestamp EXCEPT ![e] = IF Fresh(e) THEN NoStamp ELSE @]
  PROVE  PacketInv'
<1> DEFINE nonce == Nonce(e, next_seq[e])
           new   == [Header(e) EXCEPT !.nonce = nonce]
<1>1. /\ CountersOK
      /\ next_seq[e] \in 0 .. SEQ_MASK
      /\ Other(e) \in Directions
  BY DEF PacketInv, CountersOK, SequenceExhausted, Other, Directions
<1>2. /\ new.nonce = nonce
      /\ new.timestamp = TimestampAt(e, now)
      /\ new.timestamp_reply = Reply(e)
      /\ new.sent_at = now
      /\ new.echoes = IF Fresh(e) THEN saved_timestamp[e] ELSE NoStamp
  BY DEF Header, timestamp16, TimestampAt
<1>3. wire' = wire \cup {new}
  OBVIOUS
<1> HIDE DEF new, nonce
<1>4. Named(nonce, e, next_seq[e])
  BY <1>1, NonceIsNamed DEF nonce
<1>5. CountersOK'
  <2>1. {d.nonce : d \in wire'} = {d.nonce : d \in wire} \cup {nonce}
    BY <1>2, <1>3
  <2> DEFINE old == {d.nonce : d \in wire}
  <2>2. IsFiniteSet(old)
    BY <1>1 DEF CountersOK
  <2> HIDE DEF old
  <2>3. IsFiniteSet(old \cup {nonce})
    BY <2>2, FS_AddElement
  <2>4. IsFiniteSet({d.nonce : d \in wire'})
    BY <2>1, <2>3 DEF old
  <2>5. QED
    BY <1>1, <2>4 DEF CountersOK
<1>6. \A d \in wire : d.nonce # nonce
  <2>1. SUFFICES ASSUME NEW d \in wire, d.nonce = nonce PROVE FALSE
    OBVIOUS
  <2>2. PICK f \in Directions : DatagramOK(d, f)
    BY DEF PacketInv
  <2>3. PICK s \in 0 .. next_seq[f] - 1 : Named(d.nonce, f, s)
    BY <2>2 DEF DatagramOK
  <2>4. f = e /\ s = next_seq[e]
    BY <2>1, <2>3, <1>4, NameIsUnique
  <2>5. QED
    BY <2>3, <2>4, <1>1
<1>7. NoncesUnique'
  <2> DEFINE old == {d.nonce : d \in wire}
  <2>1. IsFiniteSet(old)
    BY <1>1 DEF CountersOK
  <2>2. {d.nonce : d \in wire'} = old \cup {nonce}
    BY <1>2, <1>3
  <2>3. nonce \notin old
    BY <1>6
  <2>4. Cardinality(old) = seals
    BY DEF PacketInv, NoncesUnique
  <2> HIDE DEF old
  <2>5. Cardinality(old \cup {nonce}) = seals + 1
    BY <2>1, <2>3, <2>4, FS_AddElement
  <2>6. QED
    BY <2>2, <2>5 DEF NoncesUnique
<1>8. Fresh(e) =>
        /\ saved_timestamp[e] # NoStamp
        /\ StampOK(saved_timestamp[e], Other(e))
        /\ saved_timestamp[e].received_at <= now
        /\ \E s \in 0 .. expected_receiver_seq[e] - 1 :
             /\ Named(saved_timestamp[e].nonce, Other(e), s)
             /\ \A d \in wire, r \in 0 .. SEQ_MASK :
                  d.echoes # NoStamp /\ Named(d.echoes.nonce, Other(e), r) => r < s
  BY DEF PacketInv, SavedOK, Fresh
<1>9. \A d \in wire' : \E f \in Directions : DatagramOK(d, f)'
  <2>1. SUFFICES ASSUME NEW d \in wire \cup {new} PROVE \E f \in Directions : DatagramOK(d, f)'
    BY <1>3
  <2>2. CASE d \in wire
    <3>1. PICK f \in Directions : DatagramOK(d, f)
      BY <2>2 DEF PacketInv
    <3>2. now <= now' /\ next_seq[f] <= next_seq'[f]
          /\ expected_receiver_seq[f] <= expected_receiver_seq'[f]
      BY <1>1 DEF CountersOK
    <3>3. QED
      BY <1>1, <1>5, <3>1, <3>2, DatagramStaysOK
  <2>3. CASE d = new
    <3>1. \E s \in 0 .. next_seq'[e] - 1 : Named(d.nonce, e, s)
      <4>1. next_seq[e] \in 0 .. next_seq'[e] - 1
        BY <1>1 DEF CountersOK
      <4>2. QED
        BY <4>1, <1>2, <1>4, <2>3
    <3>2. d.sent_at \in Nat /\ d.sent_at <= now' /\ d.timestamp = TimestampAt(e, d.sent_at)
      BY <1>1, <1>2, <2>3 DEF CountersOK
    <3>3. CASE Fresh(e)
      <4>1. d.echoes = saved_timestamp[e]
        BY <1>2, <2>3, <3>3
      <4>2. d.timestamp_reply = (d.echoes.ts + (d.sent_at - d.echoes.received_at)) % TS_MOD
        BY <1>2, <2>3, <3>3, <4>1 DEF Reply
      <4>3. d.echoes.received_at <= d.sent_at
        BY <1>2, <1>8, <2>3, <3>3, <4>1
      <4>4. \E s \in 0 .. expected_receiver_seq'[e] - 1 : Named(d.echoes.nonce, Other(e), s)
        BY <1>8, <3>3, <4>1
      <4>5. QED
        BY <1>8, <3>1, <3>2, <3>3, <4>1, <4>2, <4>3, <4>4 DEF DatagramOK
    <3>4. CASE ~ Fresh(e)
      <4>1. d.echoes = NoStamp /\ d.timestamp_reply = NoTimestamp
        BY <1>2, <2>3, <3>4 DEF Reply
      <4>2. QED
        BY <3>1, <3>2, <4>1 DEF DatagramOK
    <3>5. QED
      BY <3>3, <3>4
  <2>4. QED
    BY <2>1, <2>2, <2>3
<1>10. \A f \in Directions : SavedOK(f)'
  <2>1. SUFFICES ASSUME NEW f \in Directions, saved_timestamp'[f] # NoStamp
                 PROVE  SavedOK(f)'
    BY DEF SavedOK
  <2>2. saved_timestamp'[f] = saved_timestamp[f] /\ ~ (f = e /\ Fresh(e))
    BY <1>1, <2>1 DEF CountersOK
  <2>3. /\ StampOK(saved_timestamp[f], Other(f))
        /\ saved_timestamp[f].received_at <= now
    BY <2>1, <2>2 DEF PacketInv, SavedOK
  <2>4. PICK s \in 0 .. expected_receiver_seq[f] - 1 :
          /\ Named(saved_timestamp[f].nonce, Other(f), s)
          /\ \A d \in wire, r \in 0 .. SEQ_MASK :
               d.echoes # NoStamp /\ Named(d.echoes.nonce, Other(f), r) => r < s
    BY <2>1, <2>2 DEF PacketInv, SavedOK
  <2>5. \A r \in 0 .. SEQ_MASK : ~ (new.echoes # NoStamp /\ Named(new.echoes.nonce, Other(f), r))
    <3>1. CASE f = e
      BY <1>2, <2>2, <3>1
    <3>2. CASE f # e
      <4>1. Other(f) = e /\ Other(e) # e
        BY <3>2 DEF Other, Directions
      <4>2. SUFFICES ASSUME NEW r \in 0 .. SEQ_MASK, new.echoes # NoStamp,
                            Named(new.echoes.nonce, e, r)
                     PROVE  FALSE
        BY <4>1
      <4>3. \E t \in 0 .. expected_receiver_seq[e] - 1 : Named(new.echoes.nonce, Other(e), t)
        BY <1>2, <1>8, <4>2
      <4>4. QED
        BY <1>1, <4>1, <4>2, <4>3, NameIsUnique
    <3>3. QED
      BY <3>1, <3>2
  <2>6. \A d \in wire', r \in 0 .. SEQ_MASK :
          d.echoes # NoStamp /\ Named(d.echoes.nonce, Other(f), r) => r < s
    BY <1>3, <2>4, <2>5
  <2>7. QED
    BY <2>2, <2>3, <2>4, <2>6 DEF SavedOK
<1>11. EchoedOnce'
  <2>1. ASSUME NEW d \in wire, d.echoes # NoStamp, new.echoes # NoStamp,
               d.echoes.nonce = new.echoes.nonce
        PROVE  FALSE
    <3>1. Fresh(e) /\ new.echoes = saved_timestamp[e]
      BY <1>2, <2>1
    <3>2. PICK s \in 0 .. expected_receiver_seq[e] - 1 :
            /\ Named(new.echoes.nonce, Other(e), s)
            /\ \A c \in wire, r \in 0 .. SEQ_MASK :
                 c.echoes # NoStamp /\ Named(c.echoes.nonce, Other(e), r) => r < s
      BY <1>8, <3>1
    <3>3. s \in 0 .. SEQ_MASK
      BY <3>2 DEF Named
    <3>4. s < s
      BY <2>1, <3>2, <3>3
    <3>5. QED
      BY <3>3, <3>4
  <2>2. SUFFICES ASSUME NEW d1 \in wire \cup {new}, NEW d2 \in wire \cup {new},
                        d1.echoes # NoStamp, d2.echoes # NoStamp,
                        d1.echoes.nonce = d2.echoes.nonce
                 PROVE  d1 = d2
    BY <1>3 DEF EchoedOnce
  <2>3. QED
    BY <2>1, <2>2 DEF PacketInv, EchoedOnce
<1>12. RttIsNetworkDelay'
  BY DEF PacketInv, RttIsNetworkDelay
<1>13. QED
  BY <1>5, <1>7, <1>9, <1>10, <1>11, <1>12 DEF PacketInv

\* send_fragment seals, or not, and gives up the stamp that it echoes.
LEMMA SendKeepsInv ==
  ASSUME PacketInv, NEW e \in Directions, NEW blocks, send_fragment(e, blocks)
  PROVE  PacketInv'
<1>1. /\ UNCHANGED << now, expected_receiver_seq, rtt >>
      /\ saved_timestamp' = [saved_timestamp EXCEPT ![e] = IF Fresh(e) THEN NoStamp ELSE @]
      /\ seal(e, blocks, Header(e))
  BY DEF send_fragment
<1>2. CASE UNCHANGED << next_seq, wire, seals >>
  BY <1>1, <1>2, FailedSealKeepsInv
<1>3. CASE /\ ~ SequenceExhausted(e)
           /\ next_seq' = [next_seq EXCEPT ![e] = @ + 1]
           /\ wire' = wire \cup {[Header(e) EXCEPT !.nonce = Nonce(e, next_seq[e])]}
           /\ seals' = seals + 1
  BY <1>1, <1>3, SealKeepsInv
<1>4. QED
  BY <1>1, <1>2, <1>3 DEF seal

\* handle_datagram: what passes the gate is newer than anything received before.
LEMMA ReceiveKeepsInv ==
  ASSUME PacketInv, NEW e \in Directions, NEW d \in wire, handle_datagram(e, d)
  PROVE  PacketInv'
<1>1. /\ now - d.sent_at <= MaxDelay /\ Opens(e, d)
      /\ UNCHANGED << now, next_seq, wire, seals >>
  BY DEF handle_datagram, sealerVars
<1>2. CountersOK /\ Other(e) \in Directions /\ Other(Other(e)) = e
  BY DEF PacketInv, Other, Directions
<1>3. DatagramOK(d, Other(e))
  <2>1. PICK f \in Directions : DatagramOK(d, f)
    BY DEF PacketInv
  <2>2. d.nonce \div (SEQ_MASK + 1) = Bit(f)
    BY <2>1, NamedOnce DEF DatagramOK
  <2>3. f # e
    BY <1>1, <2>2 DEF Opens
  <2>4. QED
    BY <2>1, <2>3 DEF Other, Directions
<1>4. CASE ~ SeqOk(e, d)
  <2>1. UNCHANGED << expected_receiver_seq, saved_timestamp, rtt >>
    BY <1>4 DEF handle_datagram
  <2>2. CountersOK' /\ \A f \in Directions : SavedOK(f)'
    BY <1>1, <1>2, <2>1 DEF PacketInv, CountersOK, SavedOK
  <2>3. \A c \in wire' : \E f \in Directions : DatagramOK(c, f)'
    BY <1>1, <2>1 DEF PacketInv, DatagramOK
  <2>4. NoncesUnique' /\ EchoedOnce' /\ RttIsNetworkDelay'
    BY <1>1, <2>1 DEF PacketInv, NoncesUnique, EchoedOnce, RttIsNetworkDelay
  <2>5. QED
    BY <2>2, <2>3, <2>4 DEF PacketInv
<1>5. CASE SeqOk(e, d)
  <2> DEFINE seq   == SequenceNumber(d.nonce)
             stamp == [ts |-> d.timestamp, received_at |-> now,
                       nonce |-> d.nonce, sent_at |-> d.sent_at]
  <2>1. /\ expected_receiver_seq' = [expected_receiver_seq EXCEPT ![e] = seq + 1]
        /\ saved_timestamp' =
             [saved_timestamp EXCEPT ![e] = IF d.timestamp = NoTimestamp THEN @ ELSE stamp]
        /\ rtt' = [rtt EXCEPT ![e] =
                     IF d.timestamp_reply # NoTimestamp /\ Sample(e, d) < RTT_MAX_SAMPLE
                       THEN [sample |-> Sample(e, d), delay |-> Delay(d)] ELSE @]
    BY <1>5 DEF handle_datagram
  <2>2. seq >= expected_receiver_seq[e]
    BY <1>5 DEF SeqOk
  <2>3. PICK s \in 0 .. next_seq[Other(e)] - 1 : Named(d.nonce, Other(e), s)
    BY <1>3 DEF DatagramOK
  <2>4. seq = s /\ s \in 0 .. SEQ_MASK
    BY <1>2, <2>3, NamedOnce DEF Named
  <2> HIDE DEF seq
  <2>5. CountersOK'
    BY <1>1, <1>2, <2>1, <2>4 DEF CountersOK
  <2>6. \A f \in Directions : expected_receiver_seq[f] <= expected_receiver_seq'[f]
    BY <1>2, <2>1, <2>2, <2>4 DEF CountersOK
  <2>7. \A c \in wire' : \E f \in Directions : DatagramOK(c, f)'
    <3>1. SUFFICES ASSUME NEW c \in wire PROVE \E f \in Directions : DatagramOK(c, f)'
      BY <1>1
    <3>2. PICK f \in Directions : DatagramOK(c, f)
      BY DEF PacketInv
    <3>3. now <= now' /\ next_seq[f] <= next_seq'[f]
      BY <1>1, <1>2 DEF CountersOK
    <3>4. QED
      BY <1>2, <2>5, <2>6, <3>2, <3>3, DatagramStaysOK
  <2>8. \A c \in wire, r \in 0 .. SEQ_MASK :
          c.echoes # NoStamp /\ Named(c.echoes.nonce, Other(e), r) => r < expected_receiver_seq[e]
    <3>1. SUFFICES ASSUME NEW c \in wire, NEW r \in 0 .. SEQ_MASK, c.echoes # NoStamp,
                          Named(c.echoes.nonce, Other(e), r)
                   PROVE  r < expected_receiver_seq[e]
      OBVIOUS
    <3>2. PICK f \in Directions : DatagramOK(c, f)
      BY DEF PacketInv
    <3>3. PICK t \in 0 .. expected_receiver_seq[f] - 1 : Named(c.echoes.nonce, Other(f), t)
      BY <3>1, <3>2 DEF DatagramOK
    <3>4. Other(f) \in Directions
      BY DEF Other, Directions
    <3>5. Other(f) = Other(e) /\ t = r
      BY <1>2, <3>1, <3>3, <3>4, NameIsUnique
    <3>6. f = e
      BY <3>5 DEF Other, Directions
    <3>7. QED
      BY <1>2, <3>3, <3>5, <3>6 DEF CountersOK
  <2>9. \A f \in Directions : SavedOK(f)'
    <3>1. SUFFICES ASSUME NEW f \in Directions, saved_timestamp'[f] # NoStamp
                   PROVE  SavedOK(f)'
      BY DEF SavedOK
    <3>2. CASE saved_timestamp'[f] = saved_timestamp[f]
      <4>1. SavedOK(f)
        BY DEF PacketInv
      <4>2. 0 .. expected_receiver_seq[f] - 1 \subseteq 0 .. expected_receiver_seq'[f] - 1
        BY <1>2, <2>5, <2>6 DEF CountersOK
      <4>3. QED
        BY <1>1, <3>1, <3>2, <4>1, <4>2 DEF SavedOK
    <3>3. CASE f = e /\ saved_timestamp'[f] = stamp
      <4>1. /\ now \in Nat /\ d.sent_at \in Nat /\ d.sent_at <= now
            /\ d.timestamp = TimestampAt(Other(e), d.sent_at)
        BY <1>2, <1>3 DEF DatagramOK, CountersOK
      <4>2. StampOK(stamp, Other(e)) /\ stamp.received_at <= now
        BY <1>1, <4>1 DEF StampOK
      <4>3. stamp.nonce = d.nonce
        OBVIOUS
      <4> HIDE DEF stamp
      <4>4. s \in 0 .. expected_receiver_seq'[e] - 1
        BY <1>2, <2>1, <2>4 DEF CountersOK
      <4>5. \A c \in wire', r \in 0 .. SEQ_MASK :
              c.echoes # NoStamp /\ Named(c.echoes.nonce, Other(e), r) => r < s
        BY <1>1, <1>2, <2>2, <2>4, <2>8 DEF CountersOK
      <4>6. QED
        BY <1>1, <2>3, <3>3, <4>2, <4>3, <4>4, <4>5 DEF SavedOK
    <3>4. QED
      BY <1>2, <2>1, <3>2, <3>3 DEF CountersOK
  <2>10. RttIsNetworkDelay'
    <3>1. SUFFICES ASSUME NEW f \in Directions, rtt'[f] # NoSample
                   PROVE  rtt'[f].sample - rtt'[f].delay \in {-1, 0, 1}
      BY DEF RttIsNetworkDelay
    <3>2. CASE rtt'[f] = rtt[f]
      BY <3>1, <3>2 DEF PacketInv, RttIsNetworkDelay
    <3>3. CASE /\ rtt'[f] = [sample |-> Sample(e, d), delay |-> Delay(d)]
               /\ d.timestamp_reply # NoTimestamp /\ Sample(e, d) < RTT_MAX_SAMPLE
      BY <1>1, <1>3, <3>3, SampleIsDelay
    <3>4. QED
      BY <1>2, <2>1, <3>2, <3>3 DEF CountersOK
  <2>11. NoncesUnique' /\ EchoedOnce'
    BY <1>1 DEF PacketInv, NoncesUnique, EchoedOnce
  <2>12. QED
    BY <2>5, <2>7, <2>9, <2>10, <2>11 DEF PacketInv
<1>6. QED
  BY <1>4, <1>5

LEMMA NextKeepsPacketInv == PacketInv /\ [Next]_vars => PacketInv'
<1> SUFFICES ASSUME PacketInv, [Next]_vars PROVE PacketInv'
  OBVIOUS
<1>1. CASE Clock
  BY <1>1, ClockKeepsInv
<1>2. CASE \E e \in Directions, blocks \in BlockCounts : send_fragment(e, blocks)
  BY <1>2, SendKeepsInv
<1>3. CASE \E e \in Directions, d \in wire : handle_datagram(e, d)
  BY <1>3, ReceiveKeepsInv
<1>4. CASE UNCHANGED vars
  <2>1. UNCHANGED << now, next_seq, expected_receiver_seq, saved_timestamp, rtt, wire, seals >>
    BY <1>4 DEF vars, sealerVars
  <2>2. CountersOK' /\ \A e \in Directions : SavedOK(e)'
    BY <2>1 DEF PacketInv, CountersOK, SavedOK
  <2>3. \A d \in wire' : \E e \in Directions : DatagramOK(d, e)'
    BY <2>1 DEF PacketInv, DatagramOK
  <2>4. NoncesUnique' /\ EchoedOnce' /\ RttIsNetworkDelay'
    BY <2>1 DEF PacketInv, NoncesUnique, EchoedOnce, RttIsNetworkDelay
  <2>5. QED
    BY <2>2, <2>3, <2>4 DEF PacketInv
<1>5. QED
  BY <1>1, <1>2, <1>3, <1>4 DEF Next

-----------------------------------------------------------------------------
(* The theorems. *)

\* PacketInvariant: datagrams, stamps and counters agree on both ends.
THEOREM PacketInvariant == Spec => []PacketInv
BY InitHasPacketInv, NextKeepsPacketInv, PTL DEF Spec

\* NonceNeverReused: no nonce is used twice under the key that both directions
\* share, for any number of seals and any outcome of the two budgets.
THEOREM NonceNeverReused == Spec => []NoncesUnique
<1>1. PacketInv => NoncesUnique
  BY DEF PacketInv
<1>2. QED
  BY <1>1, PacketInvariant, PTL

\* RttIsMeasured: every sample of the RTT estimator is the network's delay,
\* within the one millisecond of the reserved timestamp.
THEOREM RttIsMeasured == Spec => []RttIsNetworkDelay
<1>1. PacketInv => RttIsNetworkDelay
  BY DEF PacketInv
<1>2. QED
  BY <1>1, PacketInvariant, PTL

\* TimestampEchoedOnce: no timestamp of the peer's is echoed by two datagrams.
THEOREM TimestampEchoedOnce == Spec => []EchoedOnce
<1>1. PacketInv => EchoedOnce
  BY DEF PacketInv
<1>2. QED
  BY <1>1, PacketInvariant, PTL

HIDE PacketAssumption

-----------------------------------------------------------------------------
(***************************************************************************)
(* THE SOCKETS (RoamingSpec).                                              *)
(*                                                                         *)
(* For every hop interval, socket age, number of sockets and drain cap, and *)
(* any network.                                                            *)
(***************************************************************************)

USE RoamingAssumption

\* The sockets are open, distinct, and never more than allowed.
SocketsOK ==
  /\ socks \in Seq(Sockets)
  /\ Len(socks) \in 1 .. MAX_PORTS_OPEN
  /\ \A i, j \in 1 .. Len(socks) : i # j => socks[i] # socks[j]

\* How long the i-th of n sockets has not been the newest, at least, when the
\* newest is `age' old: every later hop but the last waited for Silent.
Owed(i, n, age) == age + (n - 1 - i) * Silent

\* Old sockets have aged since a hop replaced them.
AgesOK ==
  /\ choice_age \in Nat /\ idle_age \in [Sockets -> Nat]
  /\ \A i \in 1 .. Len(socks) - 1 :
       idle_age[socks[i]] >= Linger \/ idle_age[socks[i]] >= Owed(i, Len(socks), choice_age)

\* Beyond the cap, each further datagram costs a socket.
DrainOK ==
  /\ loop \in {"round", "receive", "drain"}
  /\ at \in Nat /\ drained \in Nat
  /\ loop # "drain" => at = 0 /\ drained = 0
  /\ at <= Len(socks) - 1
  /\ drained >= OLD_SOCKET_DRAIN_CAP =>
       drained + at <= OLD_SOCKET_DRAIN_CAP + MAX_PORTS_OPEN - 2

\* RoamingInv: the inductive invariant behind both properties.
RoamingInv == SocketsOK /\ AgesOK /\ DrainOK

-----------------------------------------------------------------------------
(* The sockets, as sequences. *)

LEMMA LingerBound ==
  /\ Silent \in Nat /\ Old \in Nat /\ Linger \in Nat
  /\ Linger <= Old /\ Linger <= (MAX_PORTS_OPEN - 1) * Silent
<1>1. Silent \in Nat /\ Old \in Nat
  BY DEF Silent, Old
<1>2. (MAX_PORTS_OPEN - 1) * Silent \in Nat
  BY <1>1
<1>3. QED
  BY <1>1, <1>2 DEF Linger

LEMMA OpenSockets ==
  ASSUME SocketsOK
  PROVE  /\ DOMAIN socks = 1 .. Len(socks)
         /\ \A i \in 1 .. Len(socks) : socks[i] \in Sockets
         /\ newest = socks[Len(socks)]
         /\ Range(socks) = {socks[i] : i \in 1 .. Len(socks)}
<1>1. DOMAIN socks = 1 .. Len(socks)
  BY LenProperties DEF SocketsOK
<1>2. \A i \in 1 .. Len(socks) : socks[i] \in Sockets
  BY ElementOfSeq DEF SocketsOK
<1>3. QED
  BY <1>1, <1>2 DEF newest, Last, Range

\* There is always a socket to hop to: a name not in use.
LEMMA SocketToSpare ==
  ASSUME SocketsOK
  PROVE  FreeSocket \in Sockets /\ \A i \in 1 .. Len(socks) : socks[i] # FreeSocket
<1> DEFINE used == Range(socks)
<1>1. socks \in Surjection(1 .. Len(socks), used)
  <2>1. socks \in [1 .. Len(socks) -> Sockets]
    BY LenProperties DEF SocketsOK
  <2>2. used = {socks[i] : i \in 1 .. Len(socks)}
    BY OpenSockets
  <2>3. QED
    BY <2>1, <2>2 DEF Surjection
<1>2. /\ IsFiniteSet(1 .. Len(socks)) /\ Cardinality(1 .. Len(socks)) = Len(socks)
      /\ Cardinality(Sockets) = MAX_PORTS_OPEN + 1
  <2>1. Len(socks) \in Int /\ Len(socks) >= 1 /\ 1 \in Int
    BY DEF SocketsOK
  <2>2. MAX_PORTS_OPEN + 1 \in Int /\ MAX_PORTS_OPEN + 1 >= 1
    OBVIOUS
  <2>3. IsFiniteSet(1 .. Len(socks)) /\ Cardinality(1 .. Len(socks)) = Len(socks) - 1 + 1
    BY <2>1, FS_Interval
  <2>4. Cardinality(1 .. MAX_PORTS_OPEN + 1) = (MAX_PORTS_OPEN + 1) - 1 + 1
    BY <2>1, <2>2, FS_Interval
  <2>5. QED
    BY <2>1, <2>3, <2>4 DEF Sockets
<1>3. Cardinality(used) <= Len(socks)
  BY <1>1, <1>2, FS_Surjection
<1>4. Sockets \ used # {}
  <2>1. SUFFICES ASSUME Sockets \subseteq used PROVE FALSE
    OBVIOUS
  <2>2. used \subseteq Sockets
    BY OpenSockets
  <2>3. used = Sockets
    BY <2>1, <2>2
  <2>4. QED
    BY <1>2, <1>3, <2>3 DEF SocketsOK
<1>5. FreeSocket \in Sockets \ used
  BY <1>4 DEF FreeSocket
<1>6. QED
  BY <1>5, OpenSockets

-----------------------------------------------------------------------------
(* A round: what hopping and pruning leave open. *)

\* The four outcomes of maybe_hop_port followed by prune_sockets.
HopAdds(n) == n < MAX_PORTS_OPEN /\ socks' = Append(socks, FreeSocket)
HopReplaces(n) ==
  n = MAX_PORTS_OPEN /\ socks' = SubSeq(Append(socks, FreeSocket), 2, n + 1)
OnlyNewest(n) == n > 1 /\ choice_age > MAX_OLD_SOCKET_AGE_MS /\ socks' = << newest >>

\* A hop leaves no socket too old, and only a hop opens one too many.
LEMMA RoundOutcomes ==
  ASSUME SocketsOK, AgesOK, NEW delivered, NEW bound \in BOOLEAN,
         Round(delivered, bound)
  PROVE  \/ /\ HopDue /\ choice_age' = 0
            /\ HopAdds(Len(socks)) \/ HopReplaces(Len(socks))
         \/ /\ choice_age' = choice_age
            /\ socks' = socks \/ OnlyNewest(Len(socks))
<1> DEFINE n == Len(socks)
<1>1. n \in Nat /\ n >= 1 /\ n <= MAX_PORTS_OPEN
  BY DEF SocketsOK
<1>2. CASE HopDue /\ bound
  <2> DEFINE ss == Append(socks, FreeSocket)
  <2>1. Hopped(bound) = ss
    BY <1>2 DEF Hopped
  <2>2. choice_age' = 0 /\ socks' = Pruned(ss, 0)
    BY <1>2, <2>1 DEF Round
  <2>3. Len(ss) = n + 1
    BY SocketToSpare, AppendProperties DEF SocketsOK
  <2>4. Pruned(ss, 0) = IF n + 1 - MAX_PORTS_OPEN > 0
                          THEN SubSeq(ss, (n + 1 - MAX_PORTS_OPEN) + 1, n + 1) ELSE ss
    <3> HIDE DEF ss, n
    <3>1. QED
      BY <1>1, <2>3 DEF Pruned
  <2>5. CASE n < MAX_PORTS_OPEN
    <3>1. ~(n + 1 - MAX_PORTS_OPEN > 0)
      BY <1>1, <2>5
    <3>2. QED
      BY <1>2, <2>2, <2>4, <2>5, <3>1 DEF HopAdds
  <2>6. CASE n = MAX_PORTS_OPEN
    <3>1. n + 1 - MAX_PORTS_OPEN = 1
      BY <1>1, <2>6
    <3>2. QED
      BY <1>2, <2>2, <2>4, <2>6, <3>1 DEF HopReplaces
  <2>7. QED
    BY <1>1, <2>5, <2>6
<1>3. CASE ~(HopDue /\ bound)
  <2>1. choice_age' = choice_age /\ socks' = Pruned(socks, choice_age)
    BY <1>3 DEF Round, Hopped
  <2>2. CASE n > 1 /\ choice_age > MAX_OLD_SOCKET_AGE_MS
    <3>1. Len(<< newest >>) = 1 /\ ~(1 - MAX_PORTS_OPEN > 0)
      OBVIOUS
    <3>2. Pruned(socks, choice_age) = << newest >>
      BY <2>2, <3>1 DEF Pruned, newest
    <3>3. QED
      BY <2>1, <2>2, <3>2 DEF OnlyNewest
  <2>3. CASE ~(n > 1 /\ choice_age > MAX_OLD_SOCKET_AGE_MS)
    <3>1. ~(n - MAX_PORTS_OPEN > 0)
      BY <1>1
    <3>2. Pruned(socks, choice_age) = socks
      BY <2>3, <3>1 DEF Pruned
    <3>3. QED
      BY <2>1, <3>2
  <2>4. QED
    BY <2>2, <2>3
<1>4. QED
  BY <1>2, <1>3

\* Where each socket went, and how long it had been idle.
LEMMA RoundKeeps ==
  ASSUME SocketsOK, AgesOK, NEW delivered, NEW bound \in BOOLEAN,
         Round(delivered, bound)
  PROVE  /\ SocketsOK'
         /\ AgesOK'
         /\ \A s \in Range(socks) \ Range(socks') : idle_age[s] >= Linger
<1> DEFINE n == Len(socks)
<1>1. /\ n \in Nat /\ n >= 1 /\ n <= MAX_PORTS_OPEN
      /\ socks \in Seq(Sockets) /\ choice_age \in Nat /\ idle_age \in [Sockets -> Nat]
  BY DEF SocketsOK, AgesOK
<1>2. /\ \A i \in 1 .. n : socks[i] \in Sockets /\ socks[i] # FreeSocket
      /\ FreeSocket \in Sockets /\ newest = socks[n]
      /\ Range(socks) = {socks[i] : i \in 1 .. n}
  BY OpenSockets, SocketToSpare
<1>3. /\ \A i, j \in 1 .. n : i # j => socks[i] # socks[j]
      /\ \A i \in 1 .. n - 1 : \/ idle_age[socks[i]] >= Linger
                               \/ idle_age[socks[i]] >= Owed(i, n, choice_age)
  BY DEF SocketsOK, AgesOK
<1>4. \A s \in Sockets : s \in Range(socks') /\ s # FreeSocket => idle_age'[s] = idle_age[s]
  BY DEF Round
<1>5. idle_age' \in [Sockets -> Nat]
  BY <1>1 DEF Round
<1>6. CASE HopDue /\ choice_age' = 0 /\ HopAdds(n)
  <2>1. /\ socks' \in Seq(Sockets) /\ Len(socks') = n + 1
        /\ \A i \in 1 .. n : socks'[i] = socks[i]
        /\ socks'[n + 1] = FreeSocket
    BY <1>1, <1>2, <1>6, AppendProperties DEF HopAdds
  <2>2. SocketsOK'
    <3>1. Len(socks') \in 1 .. MAX_PORTS_OPEN
      BY <1>1, <1>6, <2>1 DEF HopAdds
    <3>2. ASSUME NEW i \in 1 .. Len(socks'), NEW j \in 1 .. Len(socks'), i # j
          PROVE  socks'[i] # socks'[j]
      <4>1. (i \in 1 .. n \/ i = n + 1) /\ (j \in 1 .. n \/ j = n + 1)
        BY <1>1, <2>1
      <4>2. CASE i \in 1 .. n /\ j \in 1 .. n
        BY <1>3, <2>1, <3>2, <4>2
      <4>3. CASE i = n + 1 \/ j = n + 1
        BY <1>2, <2>1, <3>2, <4>1, <4>3
      <4>4. QED
        BY <4>1, <4>2, <4>3
    <3>3. QED
      BY <2>1, <3>1, <3>2 DEF SocketsOK
  <2>3. Range(socks') = {socks'[i] : i \in 1 .. Len(socks')}
    <3>1. DOMAIN socks' = 1 .. Len(socks')
      BY <2>1, LenProperties
    <3>2. QED
      BY <3>1 DEF Range
  <2>4. Range(socks) \subseteq Range(socks')
    BY <1>1, <1>2, <2>1, <2>3
  <2>5. ASSUME NEW i \in 1 .. Len(socks') - 1
        PROVE  \/ idle_age'[socks'[i]] >= Linger
               \/ idle_age'[socks'[i]] >= Owed(i, Len(socks'), choice_age')
    <3>1. i \in 1 .. n /\ socks'[i] = socks[i]
      BY <1>1, <2>1
    <3>2. idle_age'[socks'[i]] = idle_age[socks[i]]
      BY <1>2, <1>4, <2>4, <3>1
    <3>3. CASE i = n
      <4>1. Owed(n, n + 1, 0) = 0
        BY <1>1, LingerBound DEF Owed
      <4>2. QED
        BY <1>1, <1>2, <1>6, <2>1, <3>1, <3>2, <3>3, <4>1
    <3>4. CASE i # n
      <4>1. Owed(i, n + 1, 0) <= Owed(i, n, choice_age)
        BY <1>1, <1>6, <3>1, <3>4, LingerBound DEF Owed, HopDue, Silent
      <4>2. Owed(i, n + 1, 0) \in Int /\ Owed(i, n, choice_age) \in Int
        BY <1>1, <3>1, LingerBound DEF Owed
      <4>3. i \in 1 .. n - 1 /\ idle_age[socks[i]] \in Nat
        BY <1>1, <1>2, <3>1, <3>4
      <4>4. QED
        BY <1>3, <1>6, <2>1, <3>2, <4>1, <4>2, <4>3
    <3>5. QED
      BY <3>3, <3>4
  <2>6. QED
    BY <1>5, <1>6, <2>2, <2>4, <2>5 DEF AgesOK
<1>7. CASE HopDue /\ choice_age' = 0 /\ HopReplaces(n)
  <2> DEFINE ss == Append(socks, FreeSocket)
  <2>1. /\ ss \in Seq(Sockets) /\ Len(ss) = n + 1
        /\ \A i \in 1 .. n : ss[i] = socks[i]
        /\ ss[n + 1] = FreeSocket
    BY <1>1, <1>2, AppendProperties
  <2>2. socks' = SubSeq(ss, 2, n + 1) /\ n = MAX_PORTS_OPEN
    BY <1>7 DEF HopReplaces
  <2>3. socks' \in Seq(Sockets) /\ Len(socks') = n
    <3> HIDE DEF ss
    <3>1. QED
      BY <1>1, <2>1, <2>2, SubSeqProperties
  <2>4. \A i \in 1 .. n : socks'[i] = ss[i + 1]
    <3> HIDE DEF ss
    <3>1. QED
      BY <1>1, <2>1, <2>2, SubSeqProperties
  <2>5. /\ \A i \in 1 .. n - 1 : socks'[i] = socks[i + 1]
        /\ socks'[n] = FreeSocket
    <3> HIDE DEF ss
    <3>1. \A i \in 1 .. n - 1 : i \in 1 .. n /\ i + 1 \in 1 .. n
      BY <1>1
    <3>2. n \in 1 .. n
      BY <1>1
    <3>3. QED
      BY <2>1, <2>4, <3>1, <3>2
  <2>6. SocketsOK'
    <3>1. ASSUME NEW i \in 1 .. n, NEW j \in 1 .. n, i # j
          PROVE  socks'[i] # socks'[j]
      <4>1. /\ i = n \/ (i \in 1 .. n - 1 /\ i + 1 \in 1 .. n)
            /\ j = n \/ (j \in 1 .. n - 1 /\ j + 1 \in 1 .. n)
            /\ i + 1 # j + 1
        BY <1>1, <3>1
      <4>2. CASE i = n \/ j = n
        BY <1>2, <2>5, <3>1, <4>1, <4>2
      <4>3. CASE i # n /\ j # n
        BY <1>3, <2>5, <4>1, <4>3
      <4>4. QED
        BY <4>2, <4>3
    <3>2. QED
      BY <1>1, <2>3, <3>1 DEF SocketsOK
  <2>7. Range(socks') = {socks'[i] : i \in 1 .. n}
    <3>1. DOMAIN socks' = 1 .. Len(socks')
      BY <2>3, LenProperties
    <3>2. QED
      BY <2>3, <3>1 DEF Range
  <2>8. \A i \in 2 .. n : socks[i] \in Range(socks')
    <3>1. TAKE i \in 2 .. n
    <3>2. i - 1 \in 1 .. n - 1 /\ i - 1 \in 1 .. n /\ (i - 1) + 1 = i
      BY <1>1
    <3>3. socks'[i - 1] = socks[i]
      BY <2>5, <3>2
    <3>4. QED
      BY <2>7, <3>2, <3>3
  <2>9. ASSUME NEW i \in 1 .. Len(socks') - 1
        PROVE  \/ idle_age'[socks'[i]] >= Linger
               \/ idle_age'[socks'[i]] >= Owed(i, Len(socks'), choice_age')
    <3>1. i \in 1 .. n - 1 /\ i + 1 \in 2 .. n /\ i + 1 \in 1 .. n
      BY <1>1, <2>3
    <3>2. socks'[i] = socks[i + 1]
      BY <2>5, <3>1
    <3>3. idle_age'[socks'[i]] = idle_age[socks[i + 1]]
      BY <1>2, <1>4, <2>8, <3>1, <3>2
    <3>4. CASE i = n - 1
      <4>1. Owed(i, n, 0) = 0
        BY <1>1, <3>4, LingerBound DEF Owed
      <4>2. QED
        BY <1>1, <1>2, <1>7, <2>3, <3>1, <3>3, <4>1
    <3>5. CASE i # n - 1
      <4>1. Owed(i, n, 0) <= Owed(i + 1, n, choice_age)
        BY <1>1, <1>7, <3>1, <3>5, LingerBound DEF Owed, HopDue, Silent
      <4>2. Owed(i, n, 0) \in Int /\ Owed(i + 1, n, choice_age) \in Int
        BY <1>1, <3>1, LingerBound DEF Owed
      <4>3. i + 1 \in 1 .. n - 1 /\ idle_age[socks[i + 1]] \in Nat
        BY <1>1, <1>2, <3>1, <3>5
      <4>4. QED
        BY <1>3, <1>7, <2>3, <3>3, <4>1, <4>2, <4>3, LingerBound
    <3>6. QED
      BY <3>4, <3>5
  <2>10. ASSUME NEW s \in Range(socks) \ Range(socks')
         PROVE  idle_age[s] >= Linger
    <3>1. PICK i \in 1 .. n : s = socks[i]
      BY <1>2
    <3>2. i = 1
      BY <1>1, <2>8, <3>1
    <3>3. 1 \in 1 .. n - 1 /\ n >= 2
      BY <1>1, <2>2
    <3>4. Owed(1, n, choice_age) >= (n - 1) * Silent
      BY <1>1, <1>7, <3>3, LingerBound DEF Owed, HopDue, Silent
    <3>5. Owed(1, n, choice_age) \in Int /\ (n - 1) * Silent \in Int
      BY <1>1, <3>3, LingerBound DEF Owed
    <3>6. (n - 1) * Silent >= Linger
      BY <2>2, LingerBound
    <3>7. idle_age[socks[1]] \in Nat
      BY <1>1, <1>2, <3>3
    <3>8. QED
      BY <1>3, <3>1, <3>2, <3>3, <3>4, <3>5, <3>6, <3>7, LingerBound
  <2>11. QED
    BY <1>5, <1>7, <2>6, <2>9, <2>10 DEF AgesOK
<1>8. CASE choice_age' = choice_age /\ OnlyNewest(n)
  <2>1. socks' = << newest >> /\ socks' \in Seq(Sockets) /\ Len(socks') = 1
    BY <1>1, <1>2, <1>8 DEF OnlyNewest
  <2>2. SocketsOK'
    BY <2>1 DEF SocketsOK
  <2>3. Range(socks') = {newest}
    BY <2>1 DEF Range
  <2>4. ASSUME NEW s \in Range(socks) \ Range(socks')
        PROVE  idle_age[s] >= Linger
    <3>1. PICK i \in 1 .. n : s = socks[i]
      BY <1>2
    <3>2. i \in 1 .. n - 1
      BY <1>1, <1>2, <2>3, <3>1
    <3>3. Owed(i, n, choice_age) >= choice_age /\ Owed(i, n, choice_age) \in Int
      BY <1>1, <3>2, LingerBound DEF Owed
    <3>4. choice_age >= Linger
      BY <1>1, <1>8, LingerBound DEF OnlyNewest, Old
    <3>5. idle_age[s] \in Nat
      BY <1>1, <1>2, <3>1
    <3>6. QED
      BY <1>1, <1>3, <3>1, <3>2, <3>3, <3>4, <3>5, LingerBound
  <2>5. QED
    BY <1>1, <1>5, <1>8, <2>1, <2>2, <2>4 DEF AgesOK
<1>9. CASE choice_age' = choice_age /\ socks' = socks
  <2>1. SocketsOK'
    BY <1>9 DEF SocketsOK
  <2>2. \A i \in 1 .. n : idle_age'[socks[i]] = idle_age[socks[i]]
    BY <1>2, <1>4, <1>9
  <2>3. \A i \in 1 .. n - 1 : i \in 1 .. n
    BY <1>1
  <2>4. QED
    BY <1>1, <1>3, <1>5, <1>9, <2>1, <2>2, <2>3 DEF AgesOK
<1>10. QED
  BY <1>6, <1>7, <1>8, <1>9, RoundOutcomes

-----------------------------------------------------------------------------
(* The inductive invariant. *)

LEMMA InitRoaming == RoamingInit => RoamingInv
<1> SUFFICES ASSUME RoamingInit PROVE RoamingInv
  OBVIOUS
<1>2. socks = << 1 >> /\ 1 \in Sockets /\ Len(socks) = 1
  BY DEF RoamingInit, Sockets
<1>3. SocketsOK
  BY <1>2 DEF SocketsOK
<1>4. AgesOK
  BY <1>2 DEF AgesOK, RoamingInit
<1>5. DrainOK
  BY <1>2 DEF DrainOK, RoamingInit
<1>6. QED
  BY <1>3, <1>4, <1>5 DEF RoamingInv

\* Time passes for the old sockets as it does for the newest.
LEMMA ClockAges == SocketsOK /\ AgesOK /\ RoamingClock => AgesOK'
<1> SUFFICES ASSUME SocketsOK, AgesOK, RoamingClock PROVE AgesOK'
  OBVIOUS
<1> DEFINE n == Len(socks)
<1>2. /\ n \in Nat /\ n >= 1 /\ socks' = socks
      /\ choice_age \in Nat /\ idle_age \in [Sockets -> Nat]
  BY DEF SocketsOK, AgesOK, RoamingClock
<1>3. choice_age' \in Nat /\ choice_age' <= choice_age + 1
  BY <1>2 DEF RoamingClock, Aged
<1>4. idle_age' \in [Sockets -> Nat]
  BY <1>2 DEF RoamingClock, Aged
<1>5. ASSUME NEW i \in 1 .. n - 1
      PROVE  idle_age'[socks[i]] >= Linger \/ idle_age'[socks[i]] >= Owed(i, n, choice_age')
  <2>1. i \in 1 .. n /\ n \in 1 .. n /\ i # n
    BY <1>2
  <2>2. socks[i] \in Sockets /\ socks[i] \in Range(socks) /\ socks[i] # newest
    BY <2>1, OpenSockets DEF SocketsOK
  <2>3. idle_age'[socks[i]] = Aged(idle_age[socks[i]], Linger)
    BY <2>2 DEF RoamingClock
  <2>4. /\ idle_age[socks[i]] \in Nat
        /\ \/ idle_age[socks[i]] >= Linger
           \/ idle_age[socks[i]] >= Owed(i, n, choice_age)
    BY <1>2, <2>2 DEF AgesOK
  <2>5. /\ Owed(i, n, choice_age) \in Int /\ Owed(i, n, choice_age') \in Int
        /\ Owed(i, n, choice_age') <= Owed(i, n, choice_age) + 1
    BY <1>2, <1>3, LingerBound DEF Owed
  <2>6. QED
    BY <2>3, <2>4, <2>5, LingerBound DEF Aged
<1>6. QED
  BY <1>2, <1>3, <1>4, <1>5 DEF AgesOK

\* Past the cap, a datagram handled is an old socket left behind.
LEMMA DrainStep ==
  SocketsOK /\ DrainOK /\ (ReceiveNewest \/ DrainOne \/ DrainNext \/ Drained) => DrainOK'
<1> SUFFICES ASSUME SocketsOK, DrainOK,
                      ReceiveNewest \/ DrainOne \/ DrainNext \/ Drained
               PROVE  DrainOK'
  OBVIOUS
<1>2. Len(socks) \in Nat /\ Len(socks) >= 1 /\ Len(socks) <= MAX_PORTS_OPEN
  BY DEF SocketsOK
<1>3. CASE ReceiveNewest
  BY <1>2, <1>3 DEF ReceiveNewest, DrainOK
<1>4. CASE DrainOne
  <2>1. /\ loop' = "drain" /\ drained' = drained + 1 /\ socks' = socks
        /\ at' = IF drained + 1 >= OLD_SOCKET_DRAIN_CAP THEN at - 1 ELSE at
        /\ at > 0
    BY <1>4 DEF DrainOne
  <2>2. at \in Nat /\ drained \in Nat /\ at <= Len(socks) - 1
    BY DEF DrainOK
  <2>3. drained' >= OLD_SOCKET_DRAIN_CAP =>
          drained' + at' <= OLD_SOCKET_DRAIN_CAP + MAX_PORTS_OPEN - 2
    BY <1>2, <2>1, <2>2 DEF DrainOK
  <2>4. QED
    BY <1>2, <2>1, <2>2, <2>3 DEF DrainOK
<1>5. CASE DrainNext
  BY <1>2, <1>5 DEF DrainNext, DrainOK
<1>6. CASE Drained
  BY <1>2, <1>6 DEF Drained, DrainOK
<1>7. QED
  BY <1>3, <1>4, <1>5, <1>6

LEMMA NextRoaming == RoamingInv /\ [RoamingNext]_roamingVars => RoamingInv'
<1> SUFFICES ASSUME RoamingInv, [RoamingNext]_roamingVars PROVE RoamingInv'
  OBVIOUS
<1>2. SocketsOK /\ AgesOK /\ DrainOK
  BY DEF RoamingInv
<1>3. ASSUME NEW delivered \in BOOLEAN, NEW bound \in BOOLEAN, Round(delivered, bound)
      PROVE  RoamingInv'
  <2>1. SocketsOK' /\ AgesOK'
    BY <1>2, <1>3, RoundKeeps
  <2>2. DrainOK'
    BY <1>2, <1>3, <2>1 DEF Round, DrainOK, SocketsOK
  <2>3. QED
    BY <2>1, <2>2 DEF RoamingInv
<1>4. ASSUME ReceiveNewest \/ DrainOne \/ DrainNext \/ Drained
      PROVE  RoamingInv'
  <2>1. UNCHANGED << socks, choice_age, idle_age >>
    BY <1>4 DEF ReceiveNewest, DrainOne, DrainNext, Drained
  <2>2. SocketsOK' /\ AgesOK'
    BY <1>2, <2>1 DEF SocketsOK, AgesOK
  <2>3. QED
    BY <1>2, <1>4, <2>2, DrainStep DEF RoamingInv
<1>5. CASE RoamingClock
  <2>1. UNCHANGED << socks, loop, at, drained >>
    BY <1>5 DEF RoamingClock
  <2>2. SocketsOK' /\ DrainOK'
    BY <1>2, <2>1 DEF SocketsOK, DrainOK
  <2>3. QED
    BY <1>2, <1>5, <2>2, ClockAges DEF RoamingInv
<1>6. ASSUME ServerReply \/ (\E s \in Sockets : PathDies(s)) \/ UNCHANGED roamingVars
      PROVE  RoamingInv'
  <2>1. UNCHANGED << socks, choice_age, idle_age, loop, at, drained >>
    BY <1>6 DEF ServerReply, PathDies, roamingVars, loopVars
  <2>2. QED
    BY <1>2, <2>1 DEF RoamingInv, SocketsOK, AgesOK, DrainOK
<1>7. QED
  BY <1>3, <1>4, <1>5, <1>6 DEF RoamingNext, LoopStep

\* RoamingInv holds of every reachable state.
THEOREM RoamingInvariant == RoamingSpec => []RoamingInv
<1>1. QED
  BY InitRoaming, NextRoaming, PTL DEF RoamingSpec

\* One wake of the loop handles a bounded number of datagrams from old sockets,
\* however fast they arrive (receive, OLD_SOCKET_DRAIN_CAP).
THEOREM WakeIsBounded == RoamingSpec => []DrainBounded
<1>1. RoamingInv => DrainBounded
  <2>1. SUFFICES ASSUME SocketsOK, DrainOK PROVE DrainBounded
    BY DEF RoamingInv
  <2>2. QED
    BY <2>1 DEF DrainOK, DrainBounded
<1>2. QED
  BY <1>1, RoamingInvariant, PTL

\* No step closes a socket that was the newest less than Linger ago: prune_sockets
\* closes by age only what the age of the newest already covers, and by number
\* only what enough later hops, each after a silence, have overtaken.
THEOREM SocketsLinger == RoamingSpec => LingersForReplies
<1>1. RoamingInv /\ [RoamingNext]_roamingVars =>
        [\A s \in Range(socks) \ Range(socks') : idle_age[s] >= Linger]_roamingVars
  <2>1. SUFFICES ASSUME RoamingInv, RoamingNext
                 PROVE  \A s \in Range(socks) \ Range(socks') : idle_age[s] >= Linger
    OBVIOUS
  <2>2. CASE \E delivered, bound \in BOOLEAN : Round(delivered, bound)
    BY <2>1, <2>2, RoundKeeps DEF RoamingInv
  <2>3. CASE ~ \E delivered, bound \in BOOLEAN : Round(delivered, bound)
    <3>1. socks' = socks
      BY <2>1, <2>3 DEF RoamingNext, LoopStep, ReceiveNewest, DrainOne, DrainNext, Drained,
                        ServerReply, PathDies, RoamingClock
    <3>2. QED
      BY <3>1
  <2>4. QED
    BY <2>2, <2>3
<1>2. QED
  BY <1>1, RoamingInvariant, PTL DEF RoamingSpec, LingersForReplies
=============================================================================
