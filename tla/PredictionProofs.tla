-------------------------- MODULE PredictionProofs --------------------------
(***************************************************************************)
(* Proofs about local echo: for every screen size, burst length and paste  *)
(* threshold, and however typing, sending, the server's answers, resizes   *)
(* and switching the overlay are interleaved.                              *)
(***************************************************************************)
EXTENDS Prediction, SequenceTheorems, FiniteSetTheorems, WellFoundedInduction, TLAPS

USE PredictionAssumption

Place == Nat \X Nat
Cell == [at : Place, frame : Nat, key : Nat, origin : Place \cup {None}]

\* A cell before it is given its place.
Unplaced == [at : {None}, frame : Nat, key : Nat, origin : Place \cup {None}]

\* What the loop and the embedder's threads share.
TypesOK ==
  /\ typed \in Nat /\ enabled \in BOOLEAN /\ loop \in {"idle", "fed"}
  /\ cursor \in Place \cup {None}
  /\ display \in [shown : Nat, cursor : Place, size : Sizes]

\* Every number sent stands for a prefix of what was typed, later for longer.
SentOK ==
  /\ sent_state_last \in Nat /\ content \in [0 .. sent_state_last -> Nat]
  /\ \A m, n \in 0 .. sent_state_last : m <= n => content[m] <= content[n]
  /\ \A n \in 0 .. sent_state_last : content[n] <= typed
  /\ echo_ack \in 0 .. sent_state_last
  /\ content[echo_ack] <= display.shown

\* A guess is tagged with the first number sent that covers its key, or with the
\* number that will.  pushed is how much has been typed.
Tagged(cs, pushed) ==
  /\ cs \in Seq(Cell)
  /\ \A i \in 1 .. Len(cs) :
       /\ cs[i].frame \in 1 .. sent_state_last + 1
       /\ \A n \in 0 .. cs[i].frame - 1 : content[n] < cs[i].key
       /\ cs[i].frame <= sent_state_last => cs[i].key <= content[cs[i].frame]
       /\ cs[i].key <= pushed
       /\ loop = "idle" => cs[i].frame > echo_ack
  /\ \A i, j \in 1 .. Len(cs) : i <= j => cs[i].frame <= cs[j].frame

\* PredictionInv: the inductive invariant.
PredictionInv == TypesOK /\ SentOK /\ Tagged(cells, typed)

-----------------------------------------------------------------------------
(* Numbers and sequences. *)

LEMMA FirstOf ==
  ASSUME NEW S \in SUBSET Nat, S # {}
  PROVE  \E m \in S : \A n \in S : m <= n
<1>1. PICK m \in S : \A n \in S : ~ (<< n, m >> \in OpToRel(<, Nat))
  BY WFMin, NatLessThanWellFounded
<1>2. ASSUME NEW n \in S PROVE m <= n
  <2>1. SUFFICES ASSUME n < m PROVE FALSE
    BY SMT
  <2>2. << n, m >> \in OpToRel(<, Nat)
    BY <2>1 DEF OpToRel
  <2>3. QED
    BY <1>1, <2>2
<1>3. QED
  BY <1>2

LEMMA CellsAreIndexed ==
  ASSUME NEW cs \in Seq(Cell)
  PROVE  Len(cs) \in Nat /\ DOMAIN cs = 1 .. Len(cs) /\ \A i \in 1 .. Len(cs) : cs[i] \in Cell
BY LenProperties, ElementOfSeq

\* Frames never decrease, so the guesses that an ack confirms come first.
LEMMA ConfirmedIsPrefix ==
  ASSUME PredictionInv, NEW ack \in Nat
  PROVE  /\ confirmed_prefix_len(ack) \in 0 .. Len(cells)
         /\ \A i \in 1 .. Len(cells) : i <= confirmed_prefix_len(ack) <=> cells[i].frame <= ack
<1> DEFINE n == Len(cells)
           S == {i \in 1 .. n : cells[i].frame <= ack}
           late == {i \in 1 .. n : ~ (cells[i].frame <= ack)}
<1>1. /\ n \in Nat /\ DOMAIN cells = 1 .. n
      /\ \A i \in 1 .. n : cells[i].frame \in Nat
      /\ \A i, j \in 1 .. n : i <= j => cells[i].frame <= cells[j].frame
  <2>1. cells \in Seq(Cell)
    BY DEF PredictionInv, Tagged
  <2>2. n \in Nat /\ DOMAIN cells = 1 .. n /\ \A i \in 1 .. n : cells[i] \in Cell
    BY <2>1, CellsAreIndexed
  <2>3. QED
    BY <2>2 DEF PredictionInv, Tagged, Cell
<1>2. \E c \in 0 .. n : S = 1 .. c
  <2>1. CASE late = {}
    <3>1. S = 1 .. n
      BY <2>1
    <3>2. QED
      BY <1>1, <3>1
  <2>2. CASE late # {}
    <3>1. late \in SUBSET Nat
      OBVIOUS
    <3>2. PICK g \in late : \A j \in late : g <= j
      <4> HIDE DEF late
      <4>1. QED
        BY <2>2, <3>1, FirstOf
    <3>3. g \in 1 .. n /\ ~ (cells[g].frame <= ack)
      BY <3>2
    <3>4. \A i \in 1 .. n : i < g => cells[i].frame <= ack
      BY <3>2, <3>3
    <3>5. \A i \in 1 .. n : g <= i => ~ (cells[i].frame <= ack)
      <4>1. TAKE i \in 1 .. n
      <4>2. HAVE g <= i
      <4>3. cells[g].frame <= cells[i].frame
        BY <1>1, <3>3, <4>2
      <4>4. cells[g].frame \in Nat /\ cells[i].frame \in Nat
        BY <1>1, <3>3
      <4>5. QED
        BY <3>3, <4>3, <4>4
    <3>6. S = 1 .. g - 1
      BY <1>1, <3>3, <3>4, <3>5
    <3>7. g - 1 \in 0 .. n
      BY <1>1, <3>3
    <3>8. QED
      BY <3>6, <3>7
  <2>3. QED
    BY <2>1, <2>2
<1>3. PICK c \in 0 .. n : S = 1 .. c
  BY <1>2
<1>4. Cardinality(1 .. c) = c
  <2>1. Cardinality(1 .. c) = IF 1 > c THEN 0 ELSE c - 1 + 1
    BY FS_Interval
  <2>2. QED
    BY <1>1, <1>3, <2>1
<1>5. confirmed_prefix_len(ack) = c
  BY <1>1, <1>3, <1>4 DEF confirmed_prefix_len
<1>6. \A i \in 1 .. n : i <= c <=> i \in S
  BY <1>1, <1>3
<1>7. QED
  BY <1>3, <1>5, <1>6

-----------------------------------------------------------------------------
(* Typing. *)

Overlay == [cells : Seq(Cell), cursor : Place, over : BOOLEAN]

\* What a byte can do to the guesses: nothing, take back the last, add one.
LEMMA ByteOutcomes ==
  ASSUME TypesOK, NEW p \in Overlay, NEW byte \in Bytes, NEW cell \in Unplaced
  PROVE  LET r == FeedByte(p, byte, cell)
         IN  /\ r \in Overlay
             /\ \/ r.cells = p.cells
                \/ p.cells # << >> /\ r.cells = Front(p.cells)
                \/ r.cells = Append(p.cells, [cell EXCEPT !.at = p.cursor])
<1> DEFINE cs == p.cells
           r == FeedByte(p, byte, cell)
           row == p.cursor[2]
           rows == display.size[2]
<1>1. /\ cs \in Seq(Cell) /\ p.cursor \in Place /\ p.over \in BOOLEAN
      /\ p.cursor[1] \in Nat /\ row \in Nat
  BY DEF Overlay, Place
<1>2. rows \in Nat /\ rows >= 2
  <2>1. display.size \in Sizes
    BY DEF TypesOK
  <2>2. display.size \in (Nat \ {0, 1}) \X (Nat \ {0, 1})
    BY <2>1
  <2>3. QED
    BY <2>2
<1>3. Min({row + 1, rows - 1}) \in Nat
  <2> HIDE DEF row, rows
  <2>1. \E x \in {row + 1, rows - 1} : \A y \in {row + 1, rows - 1} : x <= y
    BY <1>1, <1>2
  <2>2. Min({row + 1, rows - 1}) \in {row + 1, rows - 1}
    BY <2>1 DEF Min
  <2>3. QED
    BY <1>1, <1>2, <2>2
<1>4. CASE p.over
  BY <1>4 DEF FeedByte
<1>5. CASE ~ p.over /\ byte = "return"
  <2>1. r = [p EXCEPT !.cursor = << 0, Min({row + 1, rows - 1}) >>]
    BY <1>5 DEF FeedByte
  <2>2. << 0, Min({row + 1, rows - 1}) >> \in Place
    BY <1>3 DEF Place
  <2> HIDE DEF r
  <2>3. r \in Overlay /\ r.cells = p.cells
    BY <2>1, <2>2 DEF Overlay
  <2>4. QED
    BY <2>3 DEF r
<1>6. CASE ~ p.over /\ byte = "erase"
  <2>1. CASE cs = << >>
    BY <1>6, <2>1 DEF FeedByte
  <2>2. CASE cs # << >>
    <3>1. r = [p EXCEPT !.cursor = Last(p.cells).at, !.cells = Front(@)]
      BY <1>6, <2>2 DEF FeedByte
    <3>2. Len(cs) \in Nat /\ Len(cs) >= 1 /\ \A i \in 1 .. Len(cs) : cs[i] \in Cell
      BY <1>1, <2>2, CellsAreIndexed, EmptySeq
    <3>3. Last(cs).at \in Place
      BY <3>2 DEF Last, Cell
    <3>4. Front(cs) \in Seq(Cell)
      BY <3>2, SubSeqProperties DEF Front
    <3> HIDE DEF r
    <3>5. r \in Overlay /\ r.cells = Front(p.cells)
      BY <3>1, <3>3, <3>4 DEF Overlay
    <3>6. QED
      BY <2>2, <3>5 DEF r
  <2>3. QED
    BY <2>1, <2>2
<1>7. CASE ~ p.over /\ byte = "print"
  <2>1. CASE p.cursor[1] < display.size[1] - 1
    <3> DEFINE new == [cell EXCEPT !.at = p.cursor]
    <3>1. r = [p EXCEPT !.cursor = << p.cursor[1] + 1, row >>, !.cells = Append(@, new)]
      BY <1>7, <2>1 DEF FeedByte
    <3>2. new \in Cell /\ << p.cursor[1] + 1, row >> \in Place
      <4>1. new \in Cell
        BY <1>1 DEF Cell, Unplaced
      <4>2. << p.cursor[1] + 1, row >> \in Place
        BY <1>1 DEF Place
      <4>3. QED
        BY <4>1, <4>2
    <3> HIDE DEF new
    <3>3. Append(p.cells, new) \in Seq(Cell)
      BY <1>1, <3>2, AppendProperties
    <3> HIDE DEF r
    <3>4. r \in Overlay /\ r.cells = Append(p.cells, new)
      BY <3>1, <3>2, <3>3 DEF Overlay
    <3>5. QED
      BY <3>4 DEF r, new
  <2>2. CASE ~ (p.cursor[1] < display.size[1] - 1)
    BY <1>7, <2>2 DEF FeedByte
  <2>3. QED
    BY <2>1, <2>2
<1>8. CASE ~ p.over /\ byte = "other"
  BY <1>8 DEF FeedByte, Overlay
<1>9. QED
  BY <1>4, <1>5, <1>6, <1>7, <1>8 DEF Bytes

\* A guess that is taken back leaves the others tagged as they were; one that is
\* added is tagged with the number that the next send will take.
LEMMA ByteKeepsTags ==
  ASSUME PredictionInv, loop = "idle", NEW k \in Nat,
         NEW p \in Overlay, Tagged(p.cells, typed + k),
         NEW byte \in Bytes, NEW cell \in Unplaced,
         cell.frame = Frame, cell.key = typed + (k + 1)
  PROVE  /\ FeedByte(p, byte, cell) \in Overlay
         /\ Tagged(FeedByte(p, byte, cell).cells, typed + (k + 1))
<1> DEFINE r == FeedByte(p, byte, cell)
           cs == p.cells
           rs == r.cells
           L == sent_state_last
<1>1. /\ r \in Overlay
      /\ \/ rs = cs
         \/ cs # << >> /\ rs = Front(cs)
         \/ rs = Append(cs, [cell EXCEPT !.at = p.cursor])
  BY ByteOutcomes DEF PredictionInv
<1> HIDE DEF r
<1>2. /\ cs \in Seq(Cell) /\ Len(cs) \in Nat
      /\ \A i \in 1 .. Len(cs) : cs[i] \in Cell
      /\ \A i \in 1 .. Len(cs) : cs[i].key \in Nat
      /\ typed \in Nat /\ L \in Nat /\ echo_ack \in 0 .. L
      /\ \A n \in 0 .. L : content[n] \in Nat /\ content[n] <= typed
  <2>1. cs \in Seq(Cell)
    BY DEF Tagged
  <2>2. Len(cs) \in Nat /\ \A i \in 1 .. Len(cs) : cs[i] \in Cell
    BY <2>1, CellsAreIndexed
  <2>3. QED
    BY <2>1, <2>2 DEF PredictionInv, TypesOK, SentOK, Cell
<1>3. \A i \in 1 .. Len(cs) : cs[i].key <= typed + (k + 1)
  <2>1. \A i \in 1 .. Len(cs) : cs[i].key <= typed + k
    BY DEF Tagged
  <2> HIDE DEF cs
  <2>2. QED
    BY <1>2, <2>1
<1>4. CASE rs = cs
  <2>1. Tagged(cs, typed + (k + 1))
    BY <1>3 DEF Tagged
  <2>2. QED
    BY <1>1, <1>4, <2>1 DEF r
<1>5. CASE cs # << >> /\ rs = Front(cs)
  <2>1. Len(cs) >= 1
    BY <1>2, <1>5, EmptySeq
  <2>2. /\ rs \in Seq(Cell) /\ Len(rs) = Len(cs) - 1
        /\ \A i \in 1 .. Len(cs) - 1 : rs[i] = cs[i]
    <3>1. \A i \in 1 .. Len(cs) - 1 : cs[i] \in Cell
      BY <1>2
    <3>2. /\ Front(cs) \in Seq(Cell)
          /\ Len(Front(cs)) = IF 1 <= Len(cs) - 1 THEN (Len(cs) - 1) - 1 + 1 ELSE 0
          /\ \A i \in 1 .. (Len(cs) - 1) - 1 + 1 : Front(cs)[i] = cs[1 + i - 1]
      BY <1>2, <3>1, SubSeqProperties DEF Front
    <3>3. rs = Front(cs)
      BY <1>5
    <3> HIDE DEF rs, cs
    <3>4. Len(rs) = Len(cs) - 1
      BY <1>2, <2>1, <3>2, <3>3
    <3>5. (Len(cs) - 1) - 1 + 1 = Len(cs) - 1 /\ \A i \in 1 .. Len(cs) - 1 : 1 + i - 1 = i
      BY <1>2
    <3>6. QED
      BY <3>2, <3>3, <3>4, <3>5
  <2> HIDE DEF rs
  <2>3. \A i \in 1 .. Len(rs) : i \in 1 .. Len(cs) /\ rs[i] = cs[i]
    BY <1>2, <2>2
  <2>4. \A i \in 1 .. Len(rs) : rs[i].key <= typed + (k + 1)
    BY <1>3, <2>3
  <2>5. Tagged(rs, typed + (k + 1))
    BY <2>2, <2>3, <2>4 DEF Tagged
  <2>6. QED
    BY <1>1, <2>5 DEF r, rs
<1>6. CASE rs = Append(cs, [cell EXCEPT !.at = p.cursor])
  <2> DEFINE new == [cell EXCEPT !.at = p.cursor]
  <2>1. new \in Cell /\ new.frame = L + 1 /\ new.key = typed + (k + 1)
    BY DEF Cell, Unplaced, Overlay, Frame
  <2>2. rs = Append(cs, new)
    BY <1>6
  <2> HIDE DEF new, rs
  <2>3. /\ rs \in Seq(Cell) /\ Len(rs) = Len(cs) + 1
        /\ \A i \in 1 .. Len(cs) : rs[i] = cs[i]
        /\ rs[Len(cs) + 1] = new
    BY <1>2, <2>1, <2>2, AppendProperties
  <2>4. ASSUME NEW i \in 1 .. Len(rs)
        PROVE  /\ rs[i].frame \in 1 .. L + 1
               /\ \A n \in 0 .. rs[i].frame - 1 : content[n] < rs[i].key
               /\ rs[i].frame <= L => rs[i].key <= content[rs[i].frame]
               /\ rs[i].key <= typed + (k + 1)
               /\ rs[i].frame > echo_ack
    <3>1. CASE i \in 1 .. Len(cs)
      <4>1. rs[i].key <= typed + (k + 1)
        BY <1>3, <2>3, <3>1
      <4>2. QED
        BY <2>3, <3>1, <4>1 DEF Tagged
    <3>2. CASE i = Len(cs) + 1
      <4>1. rs[i].frame = L + 1 /\ rs[i].key = typed + (k + 1)
        BY <2>1, <2>3, <3>2
      <4>2. QED
        BY <1>2, <4>1
    <3>3. QED
      BY <1>2, <2>3, <3>1, <3>2
  <2>5. ASSUME NEW i \in 1 .. Len(rs), NEW j \in 1 .. Len(rs), i <= j
        PROVE  rs[i].frame <= rs[j].frame
    <3>1. CASE j \in 1 .. Len(cs)
      <4>1. i \in 1 .. Len(cs)
        BY <2>5, <3>1
      <4>2. QED
        BY <2>3, <2>5, <3>1, <4>1 DEF Tagged
    <3>2. CASE j = Len(cs) + 1
      <4>1. rs[j].frame = L + 1 /\ rs[i].frame \in 1 .. L + 1
        BY <2>1, <2>3, <2>4, <3>2
      <4>2. QED
        BY <1>2, <4>1
    <3>3. QED
      BY <1>2, <2>3, <3>1, <3>2
  <2>6. Tagged(rs, typed + (k + 1))
    BY <2>3, <2>4, <2>5 DEF Tagged
  <2>7. QED
    BY <1>1, <2>6 DEF r, rs
<1>7. QED
  BY <1>1, <1>4, <1>5, <1>6

LEMMA BurstIsSeq ==
  ASSUME NEW burst \in Bursts
  PROVE  Len(burst) \in Nat /\ \A i \in 1 .. Len(burst) : burst[i] \in Bytes
<1>1. PICK n \in 1 .. MaxBurst : burst \in [1 .. n -> Bytes]
  BY DEF Bursts
<1>2. burst \in Seq(Bytes) /\ Len(burst) = n
  BY <1>1, SeqDef
<1>3. QED
  BY <1>1, <1>2

\* Byte after byte, feed keeps the guesses tagged.
LEMMA FeedKeepsTags ==
  ASSUME PredictionInv, loop = "idle", NEW burst \in Bursts,
         NEW p \in Overlay, Tagged(p.cells, typed)
  PROVE  /\ feed(p, Frame, burst) \in Overlay
         /\ Tagged(feed(p, Frame, burst).cells, typed + Len(burst))
<1> DEFINE N == Len(burst)
           fresh(i) == i = 1 /\ cells = << >> /\ display.shown = typed
           cell(i) == [at |-> None, frame |-> Frame, key |-> typed + i,
                       origin |-> IF fresh(i) THEN display.cursor ELSE None]
           Step(f, i) == IF i = 0 THEN p ELSE FeedByte(f[i - 1], burst[i], cell(i))
           Computes(f, k) == f = [i \in 0 .. k |-> Step(f, i)]
           after == CHOOSE f : f = [i \in 0 .. N |-> Step(f, i)]
<1>1. /\ N \in Nat /\ \A i \in 1 .. N : burst[i] \in Bytes
      /\ typed \in Nat /\ Frame \in Nat /\ display.cursor \in Place
  BY BurstIsSeq DEF PredictionInv, TypesOK, SentOK, Frame
<1>2. \A i \in 1 .. N : /\ cell(i) \in Unplaced /\ cell(i).frame = Frame
                        /\ cell(i).key = typed + i
  BY <1>1 DEF Unplaced
<1>3. feed(p, Frame, burst) = after[N]
  BY DEF feed
<1> HIDE DEF cell
<1>4. \E f : Computes(f, N)
  <2> DEFINE Bad == {k \in 0 .. N : ~ \E f : Computes(f, k)}
  <2>1. SUFFICES ASSUME Bad # {} PROVE FALSE
    BY <1>1
  <2>2. Bad \in SUBSET Nat
    OBVIOUS
  <2>3. PICK k \in Bad : \A j \in Bad : k <= j
    <3> HIDE DEF Bad
    <3>1. QED
      BY <2>1, <2>2, FirstOf
  <2>4. k # 0
    <3>1. Computes([i \in 0 .. 0 |-> p], 0)
      OBVIOUS
    <3> HIDE DEF Computes
    <3>2. QED
      BY <2>3, <3>1
  <2>5. k \in Nat /\ k - 1 \in 0 .. N /\ k - 1 \notin Bad /\ k \in 1 .. N
    <3>1. k \in 0 .. N
      BY <2>3
    <3> HIDE DEF Bad
    <3>2. QED
      BY <1>1, <2>3, <2>4, <3>1
  <2>6. PICK f : Computes(f, k - 1)
    <3> HIDE DEF Computes
    <3>1. QED
      BY <2>5
  <2> DEFINE g == [i \in 0 .. k |-> IF i = k THEN FeedByte(f[k - 1], burst[k], cell(k)) ELSE f[i]]
  <2>7. \A i \in 0 .. k : g[i] = Step(g, i)
    <3>1. TAKE i \in 0 .. k
    <3>2. CASE i = k
      BY <2>5, <3>2
    <3>3. CASE i # k /\ i # 0
      <4>1. i \in 0 .. k - 1 /\ i - 1 \in 0 .. k /\ i - 1 # k
        BY <2>5, <3>3
      <4>2. f[i] = Step(f, i)
        BY <2>6, <4>1
      <4>3. QED
        BY <3>3, <4>1, <4>2
    <3>4. CASE i # k /\ i = 0
      <4>1. f[0] = p
        BY <2>5, <2>6
      <4>2. QED
        BY <3>4, <4>1
    <3>5. QED
      BY <3>2, <3>3, <3>4
  <2>8. Computes(g, k)
    <3> DEFINE h == [i \in 0 .. k |-> Step(g, i)]
    <3>1. g = h
      <4>1. g = [i \in 0 .. k |-> g[i]]
        OBVIOUS
      <4> HIDE DEF g, Step
      <4>2. QED
        BY <2>7, <4>1
    <3>2. QED
      BY <3>1
  <2> HIDE DEF g, Computes
  <2>9. QED
    BY <2>3, <2>8
<1>5. Computes(after, N)
  <2>1. PICK f : Computes(f, N)
    BY <1>4
  <2>2. QED
    BY <2>1
<1>6. \A i \in 0 .. N : after[i] = Step(after, i)
  <2> HIDE DEF after, Step
  <2>1. QED
    BY <1>5
<1> HIDE DEF after
<1>7. after[N] \in Overlay /\ Tagged(after[N].cells, typed + N)
  <2> DEFINE Fine(k) == after[k] \in Overlay /\ Tagged(after[k].cells, typed + k)
             Bad == {k \in 0 .. N : ~ Fine(k)}
  <2>1. SUFFICES ASSUME Bad # {} PROVE FALSE
    BY <1>1
  <2>2. Bad \in SUBSET Nat
    OBVIOUS
  <2>3. PICK k \in Bad : \A j \in Bad : k <= j
    <3> HIDE DEF Bad
    <3>1. QED
      BY <2>1, <2>2, FirstOf
  <2>4. k # 0
    <3>1. after[0] = p /\ typed + 0 = typed
      BY <1>1, <1>6
    <3>2. Fine(0)
      BY <3>1
    <3> HIDE DEF Fine
    <3>3. QED
      BY <2>3, <3>2
  <2>5. k - 1 \in Nat /\ k - 1 \in 0 .. N /\ k - 1 \notin Bad /\ k \in 1 .. N /\ k \in 0 .. N
        /\ (k - 1) + 1 = k
    BY <1>1, <2>3, <2>4
  <2>6. Fine(k - 1)
    BY <2>5
  <2>7. after[k] = FeedByte(after[k - 1], burst[k], cell(k))
    BY <1>6, <2>4, <2>5
  <2>8. /\ burst[k] \in Bytes /\ cell(k) \in Unplaced /\ cell(k).frame = Frame
        /\ cell(k).key = typed + ((k - 1) + 1)
    BY <1>1, <1>2, <2>5
  <2>9. /\ FeedByte(after[k - 1], burst[k], cell(k)) \in Overlay
        /\ Tagged(FeedByte(after[k - 1], burst[k], cell(k)).cells, typed + ((k - 1) + 1))
    BY <2>5, <2>6, <2>8, ByteKeepsTags
  <2>10. Fine(k)
    BY <2>5, <2>7, <2>9
  <2> HIDE DEF Fine
  <2>11. QED
    BY <2>3, <2>10
<1>8. QED
  BY <1>3, <1>7

-----------------------------------------------------------------------------
(* The inductive invariant. *)

LEMMA SizeOfInterval == ASSUME NEW n \in Nat PROVE Cardinality(0 .. n) - 1 = n
<1>1. Cardinality(0 .. n) = IF 0 > n THEN 0 ELSE n - 0 + 1
  BY FS_Interval
<1>2. QED
  BY <1>1

LEMMA PositionsArePlaces == \A size \in Sizes : Positions(size) \subseteq Place
<1>1. TAKE size \in Sizes
<1>2. size \in (Nat \ {0, 1}) \X (Nat \ {0, 1})
  OBVIOUS
<1>3. size[1] - 1 \in Nat /\ size[2] - 1 \in Nat
  BY <1>2
<1>4. QED
  BY <1>3 DEF Positions, Place

LEMMA InitPrediction == Init => PredictionInv
<1> SUFFICES ASSUME Init PROVE PredictionInv
  OBVIOUS
<1>1. content = [n \in 0 .. 0 |-> 0]
  BY DEF Init
<1>2. sent_state_last = 0
  BY <1>1, SizeOfInterval DEF sent_state_last
<1>3. TypesOK
  BY DEF Init, TypesOK, Place
<1>4. SentOK
  BY <1>1, <1>2 DEF Init, SentOK
<1>5. cells \in Seq(Cell) /\ Len(cells) = 0
  BY DEF Init
<1>6. Tagged(cells, typed)
  BY <1>5 DEF Tagged
<1>7. QED
  BY <1>3, <1>4, <1>6 DEF PredictionInv

LEMMA InputKeeps ==
  ASSUME PredictionInv, NEW burst \in Bursts, Input(burst)
  PROVE  PredictionInv'
<1>1. /\ loop = "idle" /\ typed' = typed + Len(burst)
      /\ UNCHANGED << content, enabled, display, echo_ack, loop >>
      /\ Len(burst) \in Nat /\ typed \in Nat
      /\ sent_state_last' = sent_state_last
  BY BurstIsSeq DEF Input, PredictionInv, TypesOK, sent_state_last
<1>2. SentOK'
  <2>1. \A n \in 0 .. sent_state_last : content[n] \in Nat /\ content[n] <= typed + Len(burst)
    BY <1>1 DEF PredictionInv, SentOK
  <2>2. QED
    BY <1>1, <2>1 DEF PredictionInv, SentOK
<1>3. CASE UNCHANGED << cells, cursor >>
  <2>1. cells \in Seq(Cell) /\ Len(cells) \in Nat /\ \A i \in 1 .. Len(cells) : cells[i].key \in Nat
    <3>1. cells \in Seq(Cell)
      BY DEF PredictionInv, Tagged
    <3>2. Len(cells) \in Nat /\ \A i \in 1 .. Len(cells) : cells[i] \in Cell
      BY <3>1, CellsAreIndexed
    <3>3. QED
      BY <3>1, <3>2 DEF Cell
  <2>2. \A i \in 1 .. Len(cells) : cells[i].key <= typed
    BY DEF PredictionInv, Tagged
  <2>3. \A i \in 1 .. Len(cells) : cells[i].key <= typed + Len(burst)
    BY <1>1, <2>1, <2>2
  <2>4. Tagged(cells, typed)'
    BY <1>1, <1>3, <2>3 DEF PredictionInv, Tagged
  <2>5. TypesOK'
    BY <1>1, <1>3 DEF PredictionInv, TypesOK
  <2>6. QED
    BY <1>2, <2>4, <2>5 DEF PredictionInv
<1>4. CASE ~ UNCHANGED << cells, cursor >>
  <2> DEFINE start == IF cursor = None THEN display.cursor ELSE cursor
             before == [cells |-> cells, cursor |-> start, over |-> FALSE]
             p == feed(before, Frame, burst)
  <2>1. cells' = p.cells /\ cursor' = p.cursor
    BY <1>4 DEF Input, predict_input
  <2>2. before \in Overlay /\ before.cells = cells
    BY DEF Overlay, PredictionInv, TypesOK, Tagged
  <2>3. Tagged(before.cells, typed)
    BY <2>2 DEF PredictionInv
  <2> HIDE DEF before
  <2>4. p \in Overlay /\ Tagged(p.cells, typed + Len(burst))
    BY <1>1, <2>2, <2>3, FeedKeepsTags
  <2> HIDE DEF p
  <2>5. cursor' \in Place
    BY <2>1, <2>4 DEF Overlay
  <2>6. TypesOK'
    BY <1>1, <2>5 DEF PredictionInv, TypesOK
  <2>7. Tagged(cells, typed)'
    BY <1>1, <2>1, <2>4 DEF Tagged
  <2>8. QED
    BY <1>2, <2>6, <2>7 DEF PredictionInv
<1>5. QED
  BY <1>3, <1>4

\* A send gives the guesses made since the last one the number they expect.
LEMMA SendKeeps == PredictionInv /\ Send => PredictionInv'
<1> SUFFICES ASSUME PredictionInv, Send PROVE PredictionInv'
  OBVIOUS
<1> DEFINE L == sent_state_last
<1>1. /\ UNCHANGED << typed, predictionVars, display, echo_ack, loop >>
      /\ content' = [n \in 0 .. L + 1 |-> IF n \in DOMAIN content THEN content[n] ELSE typed]
  BY DEF Send
<1>2. /\ L \in Nat /\ content \in [0 .. L -> Nat] /\ typed \in Nat
      /\ \A m, n \in 0 .. L : m <= n => content[m] <= content[n]
      /\ \A n \in 0 .. L : content[n] <= typed
      /\ echo_ack \in 0 .. L
  BY DEF PredictionInv, SentOK, TypesOK
<1> HIDE DEF L
<1>3. /\ content' \in [0 .. L + 1 -> Nat]
      /\ \A n \in 0 .. L : content'[n] = content[n]
      /\ content'[L + 1] = typed
  BY <1>1, <1>2
<1>4. sent_state_last' = L + 1
  <2>1. DOMAIN content' = 0 .. L + 1
    BY <1>3
  <2>2. QED
    BY <1>2, <2>1, SizeOfInterval DEF sent_state_last
<1>5. /\ \A m, n \in 0 .. L + 1 : m <= n => content'[m] <= content'[n]
      /\ \A n \in 0 .. L + 1 : content'[n] <= typed
  <2>1. \A n \in 0 .. L + 1 : n = L + 1 \/ n \in 0 .. L
    BY <1>2
  <2>2. \A n \in 0 .. L + 1 : content'[n] \in Nat /\ content'[n] <= typed
    BY <1>2, <1>3, <2>1
  <2>3. ASSUME NEW m \in 0 .. L + 1, NEW n \in 0 .. L + 1, m <= n
        PROVE  content'[m] <= content'[n]
    <3>1. CASE n = L + 1
      BY <1>3, <2>2, <3>1
    <3>2. CASE n \in 0 .. L
      <4>1. m \in 0 .. L
        BY <1>2, <2>3, <3>2
      <4>2. QED
        BY <1>2, <1>3, <2>3, <3>2, <4>1
    <3>3. QED
      BY <2>1, <3>1, <3>2
  <2>4. QED
    BY <2>2, <2>3
<1>6. SentOK'
  <2>1. content'[echo_ack] <= display.shown /\ echo_ack \in 0 .. L + 1
    BY <1>2, <1>3 DEF PredictionInv, SentOK
  <2>2. QED
    BY <1>1, <1>2, <1>3, <1>4, <1>5, <2>1 DEF SentOK
<1>7. TypesOK'
  BY <1>1 DEF PredictionInv, TypesOK, predictionVars
<1>8. Tagged(cells, typed)'
  <2>1. cells \in Seq(Cell) /\ cells' = cells /\ typed' = typed /\ loop' = loop /\ echo_ack' = echo_ack
    BY <1>1 DEF PredictionInv, Tagged, predictionVars
  <2>2. ASSUME NEW i \in 1 .. Len(cells)
        PROVE  /\ cells[i].frame \in 1 .. (L + 1) + 1
               /\ \A n \in 0 .. cells[i].frame - 1 : content'[n] < cells[i].key
               /\ cells[i].frame <= L + 1 => cells[i].key <= content'[cells[i].frame]
    <3>1. /\ cells[i].frame \in 1 .. L + 1
          /\ \A n \in 0 .. cells[i].frame - 1 : content[n] < cells[i].key
          /\ cells[i].frame <= L => cells[i].key <= content[cells[i].frame]
          /\ cells[i].key <= typed
      BY DEF PredictionInv, Tagged, L
    <3>2. \A n \in 0 .. cells[i].frame - 1 : n \in 0 .. L
      BY <1>2, <3>1
    <3>3. cells[i].frame <= L + 1 => cells[i].key <= content'[cells[i].frame]
      <4>1. CASE cells[i].frame <= L
        BY <1>2, <1>3, <3>1, <4>1
      <4>2. CASE cells[i].frame = L + 1
        BY <1>3, <3>1, <4>2
      <4>3. QED
        BY <1>2, <3>1, <4>1, <4>2
    <3>4. QED
      BY <1>2, <1>3, <3>1, <3>2, <3>3
  <2>3. /\ \A i \in 1 .. Len(cells) : /\ cells[i].key <= typed
                                      /\ loop = "idle" => cells[i].frame > echo_ack
        /\ \A i, j \in 1 .. Len(cells) : i <= j => cells[i].frame <= cells[j].frame
    BY DEF PredictionInv, Tagged
  <2>4. QED
    BY <1>4, <2>1, <2>2, <2>3 DEF Tagged
<1>9. QED
  BY <1>6, <1>7, <1>8 DEF PredictionInv

LEMMA HostStateKeeps ==
  ASSUME PredictionInv, NEW ack \in 0 .. MaxNum, NEW shown \in 0 .. MaxTyped,
         NEW size \in Sizes, NEW position \in Positions(size),
         Feed(ack, shown, size, position)
  PROVE  PredictionInv'
<1>1. /\ ack \in echo_ack .. sent_state_last /\ loop' = "fed" /\ echo_ack' = ack
      /\ shown \in content[ack] .. content[sent_state_last]
      /\ display' = [shown |-> shown, cursor |-> position, size |-> size]
      /\ UNCHANGED << typed, content, predictionVars >>
      /\ sent_state_last' = sent_state_last
  BY DEF Feed, sent_state_last
<1>2. position \in Place /\ shown \in Nat
  BY PositionsArePlaces
<1>3. TypesOK'
  BY <1>1, <1>2 DEF PredictionInv, TypesOK, predictionVars
<1>4. SentOK'
  <2>1. /\ ack \in 0 .. sent_state_last /\ sent_state_last \in 0 .. sent_state_last
        /\ content \in [0 .. sent_state_last -> Nat] /\ sent_state_last \in Nat
    BY <1>1 DEF PredictionInv, SentOK
  <2>2. content[ack] <= shown
    BY <1>1, <2>1
  <2>3. QED
    BY <1>1, <2>1, <2>2 DEF PredictionInv, SentOK
<1>5. Tagged(cells, typed)'
  BY <1>1 DEF PredictionInv, Tagged, predictionVars
<1>6. QED
  BY <1>3, <1>4, <1>5 DEF PredictionInv

\* What retire_predictions drops, the display shows.
LEMMA RetireKeeps ==
  ASSUME PredictionInv, retire_predictions
  PROVE  /\ PredictionInv'
         /\ \A i \in DOMAIN cells :
              cells[i] \in Range(cells') \/ cells[i].key <= display'.shown
<1> DEFINE n == Len(cells)
           c == confirmed_prefix_len(echo_ack)
<1>1. /\ cells' = SubSeq(cells, c + 1, n) /\ loop' = "idle"
      /\ UNCHANGED << typed, content, enabled, cursor, display, echo_ack >>
      /\ sent_state_last' = sent_state_last
  BY DEF retire_predictions, Retired, sent_state_last
<1>2. /\ cells \in Seq(Cell) /\ n \in Nat /\ DOMAIN cells = 1 .. n
      /\ \A i \in 1 .. n : cells[i] \in Cell
      /\ \A i \in 1 .. n : cells[i].frame \in Nat /\ cells[i].key \in Nat
      /\ echo_ack \in Nat
  <2>1. cells \in Seq(Cell) /\ echo_ack \in Nat
    BY DEF PredictionInv, Tagged, SentOK
  <2>2. n \in Nat /\ DOMAIN cells = 1 .. n /\ \A i \in 1 .. n : cells[i] \in Cell
    BY <2>1, CellsAreIndexed
  <2>3. QED
    BY <2>1, <2>2 DEF Cell
<1>3. /\ c \in 0 .. n
      /\ \A i \in 1 .. n : i <= c <=> cells[i].frame <= echo_ack
  BY <1>2, ConfirmedIsPrefix
<1> HIDE DEF c
<1>4. /\ cells' \in Seq(Cell) /\ Len(cells') = n - c
      /\ \A i \in 1 .. n - c : cells'[i] = cells[c + i]
  <2>1. \A i \in c + 1 .. n : cells[i] \in Cell
    BY <1>2, <1>3
  <2> DEFINE r == SubSeq(cells, c + 1, n)
  <2>2. /\ r \in Seq(Cell) /\ Len(r) = IF c + 1 <= n THEN n - (c + 1) + 1 ELSE 0
        /\ \A i \in 1 .. n - (c + 1) + 1 : r[i] = cells[(c + 1) + i - 1]
    <3> HIDE DEF n
    <3>1. QED
      BY <1>2, <1>3, <2>1, SubSeqProperties
  <2>3. cells' = r
    BY <1>1
  <2> HIDE DEF r, n
  <2>4. Len(cells') = n - c
    BY <1>2, <1>3, <2>2, <2>3
  <2>5. n - (c + 1) + 1 = n - c /\ \A i \in 1 .. n - c : (c + 1) + i - 1 = c + i
    BY <1>2, <1>3
  <2>6. QED
    BY <2>2, <2>3, <2>4, <2>5
<1>5. \A i \in 1 .. n - c : c + i \in 1 .. n /\ ~ (c + i <= c)
  BY <1>2, <1>3
<1>6. Tagged(cells, typed)'
  <2>1. ASSUME NEW i \in 1 .. n - c
        PROVE  /\ cells'[i].frame \in 1 .. sent_state_last + 1
               /\ \A m \in 0 .. cells'[i].frame - 1 : content[m] < cells'[i].key
               /\ cells'[i].frame <= sent_state_last =>
                    cells'[i].key <= content[cells'[i].frame]
               /\ cells'[i].key <= typed
               /\ cells'[i].frame > echo_ack
    <3>1. c + i \in 1 .. n /\ cells'[i] = cells[c + i] /\ ~ (cells[c + i].frame <= echo_ack)
      BY <1>3, <1>4, <1>5
    <3>2. cells[c + i].frame > echo_ack
      BY <1>2, <3>1
    <3>3. QED
      BY <3>1, <3>2 DEF PredictionInv, Tagged
  <2>2. ASSUME NEW i \in 1 .. n - c, NEW j \in 1 .. n - c, i <= j
        PROVE  cells'[i].frame <= cells'[j].frame
    <3>1. c + i \in 1 .. n /\ c + j \in 1 .. n /\ c + i <= c + j
      BY <1>2, <1>3, <1>5, <2>2
    <3>2. QED
      BY <1>4, <3>1 DEF PredictionInv, Tagged
  <2>3. QED
    BY <1>1, <1>4, <2>1, <2>2 DEF Tagged
<1>7. TypesOK' /\ SentOK'
  BY <1>1 DEF PredictionInv, TypesOK, SentOK
<1>8. ASSUME NEW i \in 1 .. n
      PROVE  cells[i] \in Range(cells') \/ cells[i].key <= display.shown
  <2>1. CASE i <= c
    <3>1. cells[i].frame <= echo_ack
      BY <1>3, <2>1
    <3>2. /\ cells[i].frame \in 1 .. sent_state_last + 1
          /\ cells[i].frame <= sent_state_last => cells[i].key <= content[cells[i].frame]
          /\ echo_ack \in 0 .. sent_state_last /\ sent_state_last \in Nat
      BY DEF PredictionInv, Tagged, SentOK
    <3>3. cells[i].frame \in 0 .. sent_state_last
      BY <3>1, <3>2
    <3>4. content[cells[i].frame] <= content[echo_ack] /\ content[echo_ack] <= display.shown
      BY <3>1, <3>2, <3>3 DEF PredictionInv, SentOK
    <3>5. /\ content[cells[i].frame] \in Nat /\ content[echo_ack] \in Nat
          /\ display.shown \in Nat /\ cells[i].key \in Nat
      BY <1>2, <3>2, <3>3 DEF PredictionInv, SentOK, TypesOK
    <3>6. cells[i].key <= content[cells[i].frame]
      BY <3>2, <3>3
    <3>7. QED
      BY <3>4, <3>5, <3>6
  <2>2. CASE ~ (i <= c)
    <3>1. i - c \in 1 .. n - c /\ c + (i - c) = i
      BY <1>2, <1>3, <2>2
    <3>2. cells'[i - c] = cells[i]
      BY <1>4, <3>1
    <3>3. i - c \in DOMAIN cells'
      BY <1>4, <3>1, CellsAreIndexed
    <3>4. QED
      BY <3>2, <3>3 DEF Range
  <2>3. QED
    BY <2>1, <2>2
<1>9. QED
  BY <1>1, <1>2, <1>6, <1>7, <1>8 DEF PredictionInv

LEMMA NextPrediction == PredictionInv /\ [Next]_vars => PredictionInv'
<1> SUFFICES ASSUME PredictionInv, [Next]_vars PROVE PredictionInv'
  OBVIOUS
<1>1. ASSUME NEW burst \in Bursts, Input(burst) PROVE PredictionInv'
  BY <1>1, InputKeeps
<1>2. CASE Send
  BY <1>2, SendKeeps
<1>3. ASSUME NEW ack \in 0 .. MaxNum, NEW shown \in 0 .. MaxTyped, NEW size \in Sizes,
             NEW position \in Positions(size), Feed(ack, shown, size, position)
      PROVE  PredictionInv'
  BY <1>3, HostStateKeeps
<1>4. CASE retire_predictions
  BY <1>4, RetireKeeps
<1>5. ASSUME NEW size \in Sizes, NEW position \in Positions(size), resize(size, position)
      PROVE  PredictionInv'
  <2>1. /\ UNCHANGED << typed, content, predictionVars, echo_ack, loop >>
        /\ sent_state_last' = sent_state_last
    BY <1>5 DEF resize, sent_state_last
  <2>2. position \in Place
    BY PositionsArePlaces
  <2>3. display' \in [shown : Nat, cursor : Place, size : Sizes] /\ display'.shown = display.shown
    BY <1>5, <2>2 DEF resize, PredictionInv, TypesOK
  <2>4. QED
    BY <2>1, <2>3 DEF PredictionInv, TypesOK, SentOK, Tagged, predictionVars
<1>6. ASSUME NEW on \in BOOLEAN, set_prediction(on) PROVE PredictionInv'
  <2>1. /\ UNCHANGED << typed, content, display, echo_ack, loop >> /\ enabled' = on
        /\ sent_state_last' = sent_state_last
    BY <1>6 DEF set_prediction, sent_state_last
  <2>2. SentOK'
    BY <2>1 DEF PredictionInv, SentOK
  <2>3. CASE UNCHANGED << cells, cursor >>
    BY <2>1, <2>2, <2>3 DEF PredictionInv, TypesOK, Tagged
  <2>4. CASE clear
    <3>1. cells' = << >> /\ cells' \in Seq(Cell) /\ Len(cells') = 0 /\ cursor' = None
      BY <2>4 DEF clear
    <3>2. Tagged(cells, typed)'
      BY <3>1 DEF Tagged
    <3>3. QED
      BY <2>1, <2>2, <3>1, <3>2 DEF PredictionInv, TypesOK
  <2>5. QED
    BY <1>6, <2>3, <2>4 DEF set_prediction
<1>7. CASE UNCHANGED vars
  BY <1>7 DEF vars, predictionVars, PredictionInv, TypesOK, SentOK, Tagged, sent_state_last
<1>8. QED
  BY <1>1, <1>2, <1>3, <1>4, <1>5, <1>6, <1>7 DEF Next

-----------------------------------------------------------------------------
\* PredictionInv holds of every reachable state.
THEOREM PredictionInvariant == Spec => []PredictionInv
<1>1. QED
  BY InitPrediction, NextPrediction, PTL DEF Spec

\* Once handle_datagram has returned, no guess is left for what the server's echo
\* ack covers: the frame that predict_input tags it with is the first to carry it.
THEOREM EchoRetiresGuesses == Spec => []NoGuessOutlivesEcho
<1>1. PredictionInv => NoGuessOutlivesEcho
  <2> SUFFICES ASSUME PredictionInv, loop = "idle", NEW i \in DOMAIN cells
               PROVE  cells[i].key > content[echo_ack]
    BY DEF NoGuessOutlivesEcho
  <2>1. cells \in Seq(Cell)
    BY DEF PredictionInv, Tagged
  <2>2. i \in 1 .. Len(cells) /\ cells[i] \in Cell
    BY <2>1, CellsAreIndexed
  <2>3. /\ cells[i].frame > echo_ack /\ cells[i].frame \in Nat /\ cells[i].key \in Nat
        /\ \A n \in 0 .. cells[i].frame - 1 : content[n] < cells[i].key
    BY <2>2 DEF PredictionInv, Tagged, Cell
  <2>4. echo_ack \in Nat /\ content[echo_ack] \in Nat
    BY DEF PredictionInv, SentOK
  <2>5. echo_ack \in 0 .. cells[i].frame - 1
    BY <2>3, <2>4
  <2>6. QED
    BY <2>3, <2>4, <2>5
<1>2. QED
  BY <1>1, PredictionInvariant, PTL

\* The loop drops a guess only when the display already shows the character, so a
\* reader of both never finds an empty slot.
THEOREM NoSlotIsEmpty == Spec => NoEmptySlot
<1> DEFINE Kept == loop' # loop =>
                     \A i \in DOMAIN cells :
                       cells[i] \in Range(cells') \/ cells[i].key <= display'.shown
<1>1. PredictionInv /\ [Next]_vars => [Kept]_vars
  <2> SUFFICES ASSUME PredictionInv, Next, loop' # loop
               PROVE  \A i \in DOMAIN cells :
                        cells[i] \in Range(cells') \/ cells[i].key <= display'.shown
    OBVIOUS
  <2>1. CASE retire_predictions
    BY <2>1, RetireKeeps
  <2>2. CASE ~ retire_predictions
    <3>1. cells' = cells
      BY <2>2 DEF Next, Input, Send, Feed, resize, set_prediction, predictionVars
    <3>2. QED
      BY <3>1 DEF Range
  <2>3. QED
    BY <2>1, <2>2
<1>2. QED
  BY <1>1, PredictionInvariant, PTL DEF Spec, NoEmptySlot
=============================================================================
