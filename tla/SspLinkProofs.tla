--------------------------- MODULE SspLinkProofs ----------------------------
(***************************************************************************)
(* Proofs that SspLink keeps its inductive invariant LinkInv, for every    *)
(* set of events, every queue bound, every timing and every clock and      *)
(* input bound, and what follows from it.                                  *)
(***************************************************************************)
EXTENDS SspLink, SspReceiverProofs

USE TimingAssumption, QueueAssumption, QuenchAssumption, LinkAssumption

-----------------------------------------------------------------------------
(* The sender's helpers. *)

\* The walk always yields a position of the queue.
LEMMA AssumedInQueue ==
  ASSUME TypeOK, NEW t, NEW rto
  PROVE  update_assumed_receiver_state(t, rto) \in 1 .. Len(sent_states)
<1> DEFINE n == Len(sent_states)
           fresh(j) == t - sent_states[j].timestamp < rto + ACK_DELAY_MS
           stale == {j \in 2 .. n : ~ fresh(j)}
<1>1. n \in Nat /\ n >= 1
  BY NonEmptySeq DEF TypeOK, SenderTypeOK
<1> HIDE DEF fresh, n
<1>2. \E i \in 1 .. n : (\A j \in 2 .. i : fresh(j)) /\ (i < n => ~ fresh(i + 1))
  <2>1. CASE stale = {}
    <3>1. \A j \in 2 .. n : fresh(j)
      BY <2>1
    <3>2. QED
      BY <3>1, <1>1
  <2>2. CASE stale # {}
    <3>1. stale \in SUBSET (1 .. n)
      BY <1>1
    <3>2. PICK k \in stale : \A j \in 1 .. k - 1 : j \notin stale
      <4> HIDE DEF stale
      <4>1. QED
        BY <3>1, <2>2, <1>1, FirstPosition
    <3>3. k \in 2 .. n /\ ~ fresh(k)
      BY <3>2
    <3>4. \A j \in 2 .. k - 1 : fresh(j)
      BY <3>2, <3>3, <1>1
    <3>5. k - 1 \in 1 .. n /\ (k - 1) + 1 = k
      BY <3>3, <1>1
    <3>6. QED
      BY <3>3, <3>4, <3>5
  <2>3. QED
    BY <2>1, <2>2
<1>3. (CHOOSE i \in 1 .. n : (\A j \in 2 .. i : fresh(j)) /\ (i < n => ~ fresh(i + 1)))
        \in 1 .. n
  BY <1>2
<1>4. QED
  BY <1>3 DEF update_assumed_receiver_state, n, fresh

\* rationalize_states keeps every number and timestamp, and moves the start
\* of every window to the end of the known receiver state.
LEMMA RationalizeKeepsAlignment ==
  ASSUME TypeOK, NumberingInv, QueueInv
  PROVE  /\ RationalizedQueue \in Seq(SentState)
         /\ Len(RationalizedQueue) = Len(sent_states)
         /\ \A i \in 1 .. Len(sent_states) :
              /\ RationalizedQueue[i].num = sent_states[i].num
              /\ RationalizedQueue[i].timestamp = sent_states[i].timestamp
         /\ \E o \in Nat : o <= Len(typed)
              /\ Aligned(Rationalized(current_state), RationalizedQueue, o)
<1> DEFINE n == Len(sent_states)
           q == RationalizedQueue
<1>1. /\ n \in Nat /\ n >= 1
      /\ \A i \in 1 .. n : sent_states[i] \in SentState
      /\ sent_states[1] \in SentState
  BY NonEmptySeq DEF TypeOK, SenderTypeOK
<1>2. Len(typed) \in Nat
  BY LenProperties DEF TypeOK, State
<1>3. PICK o \in Nat :
        /\ o <= Len(typed)
        /\ IsWindow(Rationalized(current_state), Events, typed, o, Len(typed))
        /\ \A i \in 1 .. n :
             /\ sent_states[i].num \in DOMAIN content
             /\ o <= content[sent_states[i].num]
             /\ content[sent_states[i].num] \in Nat
             /\ IsWindow(Rationalized(sent_states[i].state), Events, typed, o,
                         content[sent_states[i].num])
  <2>1. /\ Offset \in Nat
        /\ Offset <= Len(typed)
        /\ IsWindow(current_state, Events, typed, Offset, Len(typed))
        /\ \A i \in 1 .. n :
             /\ sent_states[i].num \in DOMAIN content
             /\ Offset <= content[sent_states[i].num]
             /\ content[sent_states[i].num] \in Nat
             /\ content[sent_states[i].num] <= Len(typed)
             /\ IsWindow(sent_states[i].state, Events, typed, Offset,
                         content[sent_states[i].num])
    <3>1. Len(current_state) \in Nat
      BY LenProperties DEF TypeOK, SenderTypeOK, State
    <3>2. Offset <= Len(typed)
      BY <3>1, <1>2 DEF Offset
    <3>3. QED
      BY <3>2 DEF QueueInv, Aligned, NumberingInv, TypeOK
  <2>2. CASE n < 2
    <3>1. \A s : Rationalized(s) = s
      BY <2>2 DEF Rationalized
    <3>2. QED
      BY <2>1, <3>1
  <2>3. CASE ~ (n < 2)
    <3> DEFINE k == content[sent_states[1].num]
    <3>1. \A s : Rationalized(s) = subtract(s, sent_states[1].state)
      BY <2>3 DEF Rationalized, front
    <3>2. /\ k \in Nat /\ Offset <= k /\ k <= Len(typed)
          /\ IsWindow(sent_states[1].state, Events, typed, Offset, k)
      BY <2>1, <1>1
    <3>3. \A i \in 1 .. n : k <= content[sent_states[i].num]
      BY <2>1, <1>1 DEF QueueInv, Sorted, NumberingInv
    <3>4. IsWindow(Rationalized(current_state), Events, typed, k, Len(typed))
      <4> HIDE DEF k
      <4>1. QED
        BY <2>1, <3>1, <3>2, <1>2, SubtractFromWindow
    <3>5. ASSUME NEW i \in 1 .. n
          PROVE  IsWindow(Rationalized(sent_states[i].state), Events, typed, k,
                          content[sent_states[i].num])
      <4>1. /\ content[sent_states[i].num] \in Nat
            /\ k <= content[sent_states[i].num]
            /\ IsWindow(sent_states[i].state, Events, typed, Offset,
                        content[sent_states[i].num])
        BY <2>1, <3>3
      <4> HIDE DEF k
      <4>2. QED
        BY <4>1, <2>1, <3>1, <3>2, SubtractFromWindow
    <3>6. QED
      BY <2>1, <3>2, <3>3, <3>4, <3>5
  <2>4. QED
    BY <2>2, <2>3
<1>4. ASSUME NEW i \in 1 .. n
      PROVE  /\ q[i] = [sent_states[i] EXCEPT !.state = Rationalized(sent_states[i].state)]
             /\ q[i] \in SentState
             /\ q[i].num = sent_states[i].num
             /\ q[i].timestamp = sent_states[i].timestamp
             /\ q[i].state = Rationalized(sent_states[i].state)
  <2>1. q[i] = [sent_states[i] EXCEPT !.state = Rationalized(sent_states[i].state)]
    BY DEF RationalizedQueue
  <2>2. Rationalized(sent_states[i].state) \in State
    BY <1>3 DEF IsWindow, State
  <2>3. sent_states[i] \in [timestamp : Nat, num : Nat, state : State]
    BY <1>1 DEF SentState
  <2> HIDE DEF q
  <2>4. QED
    BY <2>1, <2>2, <2>3 DEF SentState
<1>5. q \in Seq(SentState) /\ Len(q) = n
  <2>1. q \in [1 .. n -> SentState]
    <3>1. q = [i \in 1 .. n |->
                 [sent_states[i] EXCEPT !.state = Rationalized(sent_states[i].state)]]
      BY DEF RationalizedQueue
    <3> HIDE DEF q
    <3>2. QED
      BY <1>4, <3>1
  <2> HIDE DEF q
  <2>2. QED
    BY <2>1, <1>1, FunctionIsSeq
<1>6. Aligned(Rationalized(current_state), q, o)
  <2> HIDE DEF q
  <2>1. QED
    BY <1>3, <1>4, <1>5 DEF Aligned
<1>7. QED
  BY <1>3, <1>4, <1>5, <1>6

\* add_sent_state keeps the head, appends the entry, keeps the order, and
\* every other state it keeps was in the queue.
LEMMA AddSentState ==
  ASSUME NEW q \in Seq(SentState), Len(q) >= 1, NEW entry \in SentState,
         Sorted(q), \A i \in 1 .. Len(q) : q[i].num <= entry.num
  PROVE  /\ add_sent_state(q, entry) \in Seq(SentState)
         /\ Len(add_sent_state(q, entry)) >= 2
         /\ Len(add_sent_state(q, entry)) \in {Len(q), Len(q) + 1}
         /\ add_sent_state(q, entry)[1] = q[1]
         /\ Last(add_sent_state(q, entry)) = entry
         /\ Sorted(add_sent_state(q, entry))
         /\ \A i \in 1 .. Len(add_sent_state(q, entry)) :
              \/ add_sent_state(q, entry)[i] = entry
              \/ \E j \in 1 .. Len(q) : add_sent_state(q, entry)[i] = q[j]
         /\ AssumedAfterCull(q, Len(q)) \in 1 .. Len(add_sent_state(q, entry))
         /\ \A a \in 1 .. Len(q) :
              AssumedAfterCull(q, a) \in 1 .. Len(add_sent_state(q, entry))
<1> DEFINE n == Len(q)
           p == Append(q, entry)
           r == add_sent_state(q, entry)
           k == CullIndex(p)
<1>1. /\ n \in Nat /\ \A i \in 1 .. n : q[i] \in SentState /\ q[i].num \in Nat
      /\ entry.num \in Nat
  <2>1. n \in Nat /\ \A i \in 1 .. n : q[i] \in SentState
    BY LenProperties, ElementOfSeq
  <2>2. QED
    BY <2>1 DEF SentState
<1>2. /\ p \in Seq(SentState) /\ Len(p) = n + 1
      /\ \A i \in 1 .. n : p[i] = q[i]
      /\ p[n + 1] = entry
  BY AppendProperties
<1>3. Sorted(p)
  <2> HIDE DEF p
  <2>1. \A i, j \in 1 .. n : i <= j => q[i].num <= q[j].num
    BY DEF Sorted
  <2>2. QED
    BY <1>1, <1>2, <2>1 DEF Sorted
<1> HIDE DEF p
<1>4. CASE ~ (n + 1 > SENT_QUEUE_CAP)
  <2>1. r = p
    BY <1>2, <1>4 DEF add_sent_state, p
  <2>2. \A a \in 1 .. n : AssumedAfterCull(q, a) = a
    BY <1>1, <1>4 DEF AssumedAfterCull
  <2>3. Last(p) = entry /\ p[1] = q[1]
    BY <1>1, <1>2 DEF Last
  <2>4. \A i \in 1 .. n + 1 : p[i] = entry \/ \E j \in 1 .. n : p[i] = q[j]
    BY <1>1, <1>2
  <2> HIDE DEF r
  <2>5. /\ r \in Seq(SentState) /\ Len(r) = n + 1 /\ Sorted(r)
        /\ r[1] = q[1] /\ Last(r) = entry
        /\ \A i \in 1 .. n + 1 : r[i] = entry \/ \E j \in 1 .. n : r[i] = q[j]
    BY <1>2, <1>3, <2>1, <2>3, <2>4
  <2>6. QED
    BY <1>1, <2>2, <2>5 DEF r
<1>5. CASE n + 1 > SENT_QUEUE_CAP
  <2>1. r = RemoveAt(p, k)
    BY <1>2, <1>5 DEF add_sent_state, p
  <2>2. k = n + 1 - CULL_FROM_END + 1 /\ k \in 2 .. n - 1
    BY <1>1, <1>2, <1>5 DEF CullIndex
  <2>3. /\ r \in Seq(SentState) /\ Len(r) = n
        /\ \A i \in 1 .. n : r[i] = IF i < k THEN p[i] ELSE p[i + 1]
    <3>1. k \in 1 .. Len(p)
      BY <2>2, <1>2, <1>1
    <3> HIDE DEF k, r
    <3>2. /\ RemoveAt(p, k) \in Seq(SentState)
          /\ Len(RemoveAt(p, k)) = Len(p) - 1
          /\ \A i \in 1 .. Len(p) - 1 :
               RemoveAt(p, k)[i] = IF i < k THEN p[i] ELSE p[i + 1]
      BY <3>1, <1>2, RemoveAtProperties
    <3>3. Len(p) - 1 = n
      BY <1>1, <1>2
    <3>4. QED
      BY <2>1, <3>2, <3>3
  <2>4. \A a \in 1 .. n : AssumedAfterCull(q, a) \in 1 .. n
    BY <1>1, <1>5, <2>2 DEF AssumedAfterCull
  <2> HIDE DEF r, k
  <2>5. Sorted(r)
    <3>1. \A i, j \in 1 .. n + 1 : i <= j => p[i].num <= p[j].num
      BY <1>2, <1>3 DEF Sorted
    <3>2. ASSUME NEW i \in 1 .. n, NEW j \in 1 .. n, i <= j
          PROVE  r[i].num <= r[j].num
      <4>1. PICK x \in 1 .. n + 1, y \in 1 .. n + 1 :
              x <= y /\ r[i] = p[x] /\ r[j] = p[y]
        <5>1. ASSUME NEW l \in 1 .. n
              PROVE  \E z \in 1 .. n + 1 :
                       r[l] = p[z] /\ (l < k => z = l) /\ (~ (l < k) => z = l + 1)
          <6>1. CASE l < k
            BY <6>1, <2>3, <1>1
          <6>2. CASE ~ (l < k)
            <7>1. l + 1 \in 1 .. n + 1
              BY <1>1
            <7>2. QED
              BY <6>2, <7>1, <2>3
          <6>3. QED
            BY <6>1, <6>2
        <5>2. PICK x \in 1 .. n + 1 :
                r[i] = p[x] /\ (i < k => x = i) /\ (~ (i < k) => x = i + 1)
          BY <5>1
        <5>3. PICK y \in 1 .. n + 1 :
                r[j] = p[y] /\ (j < k => y = j) /\ (~ (j < k) => y = j + 1)
          BY <5>1
        <5>4. x <= y
          BY <5>2, <5>3, <3>2, <2>2
        <5>5. QED
          BY <5>2, <5>3, <5>4
      <4>2. QED
        BY <4>1, <3>1
    <3>3. QED
      BY <3>2, <2>3 DEF Sorted
  <2>6. r[1] = q[1] /\ Last(r) = entry
    BY <1>1, <1>2, <2>2, <2>3 DEF Last
  <2>7. \A i \in 1 .. n : r[i] = entry \/ \E j \in 1 .. n : r[i] = q[j]
    <3>1. ASSUME NEW i \in 1 .. n
          PROVE  r[i] = entry \/ \E j \in 1 .. n : r[i] = q[j]
      <4>1. CASE i < k
        BY <4>1, <2>3, <1>2
      <4>2. CASE ~ (i < k) /\ i + 1 <= n
        <5>1. r[i] = p[i + 1] /\ i + 1 \in 1 .. n
          BY <4>2, <2>3, <1>1
        <5>2. QED
          BY <5>1, <1>2
      <4>3. CASE ~ (i < k) /\ ~ (i + 1 <= n)
        <5>1. r[i] = p[n + 1]
          <6>1. i = n
            BY <4>3, <1>1
          <6>2. QED
            BY <6>1, <4>3, <2>3
        <5>2. QED
          BY <5>1, <1>2
      <4>4. QED
        BY <4>1, <4>2, <4>3
    <3>2. QED
      BY <3>1
  <2>8. n >= 2
    BY <2>2, <1>1
  <2>9. QED
    BY <1>1, <2>3, <2>4, <2>5, <2>6, <2>7, <2>8 DEF r
<1>6. QED
  BY <1>4, <1>5

\* The effect of a tick on queue, wire and numbering that all three of its
\* outcomes share: n is the number of the newest state afterwards, o the new
\* offset, and whatever is sent is the diff from a state of the queue to
\* everything entered.
TickEffect(o, n) ==
  /\ n = Last(sent_states').num
  /\ back.num <= n /\ n <= SHUTDOWN_NUM
  /\ n = SHUTDOWN_NUM => shutdown_in_progress
  /\ n \in DOMAIN content \/ n > back.num
  /\ o <= Len(typed)
  /\ IsWindow(current_state', Events, typed, o, Len(typed))
  /\ sent_states' \in Seq(SentState) /\ sent_states' # << >>
  /\ sent_states'[1].num = front.num
  /\ Sorted(sent_states')
  /\ \A i \in 1 .. Len(sent_states') :
       \/ /\ sent_states'[i].num \in DOMAIN content
          /\ o <= content[sent_states'[i].num]
          /\ IsWindow(sent_states'[i].state, Events, typed, o,
                      content[sent_states'[i].num])
       \/ /\ sent_states'[i].num = n /\ n \notin DOMAIN content
          /\ IsWindow(sent_states'[i].state, Events, typed, o, Len(typed))
  /\ \A m \in wire' : m \in wire \/
       /\ m \in Instruction
       /\ m.old_num \in DOMAIN content /\ front.num <= m.old_num
       /\ m.old_num <= back.num
       /\ m.new_num = n /\ m.throwaway_num = front.num
       /\ n \in DOMAIN content => content[n] = Len(typed)
       /\ IsWindow(m.diff, Events, typed, content[m.old_num], Len(typed))

\* What tick works with after update_assumed_receiver_state,
\* rationalize_states and the prospective resend.
LEMMA TickInputs ==
  ASSUME TypeOK, NumberingInv, QueueInv, NEW t, NEW rto
  PROVE  LET cur == Rationalized(current_state)
             q   == RationalizedQueue
             w   == update_assumed_receiver_state(t, rto)
             a   == ResendBase(cur, q, w)
         IN  /\ q \in Seq(SentState) /\ q # << >> /\ Len(q) \in Nat /\ Len(q) >= 1
             /\ Len(q) = Len(sent_states)
             /\ Sorted(q)
             /\ q[1].num = front.num
             /\ Last(q) = q[Len(q)] /\ Last(q) \in SentState /\ Last(q).num = back.num
             /\ w \in 1 .. Len(q) /\ a \in 1 .. Len(q)
             /\ \A i \in 1 .. Len(q) : /\ q[i] \in SentState
                                       /\ q[i].num \in DOMAIN content
                                       /\ front.num <= q[i].num
                                       /\ q[i].num <= back.num
                                       /\ content[q[i].num] \in Nat
                                       /\ content[q[i].num] <= Len(typed)
             /\ \E o \in Nat : o <= Len(typed) /\ Aligned(cur, q, o)
<1> DEFINE cur == Rationalized(current_state)
           q   == RationalizedQueue
           w   == update_assumed_receiver_state(t, rto)
           a   == ResendBase(cur, q, w)
<1>1. /\ sent_states \in Seq(SentState) /\ Len(sent_states) \in Nat
      /\ Len(sent_states) >= 1 /\ back = sent_states[Len(sent_states)]
      /\ front = sent_states[1]
  BY NonEmptySeq DEF TypeOK, SenderTypeOK, back, front
<1>2. /\ q \in Seq(SentState) /\ Len(q) = Len(sent_states)
      /\ \A i \in 1 .. Len(sent_states) : q[i].num = sent_states[i].num
      /\ \E o \in Nat : o <= Len(typed) /\ Aligned(cur, q, o)
  BY RationalizeKeepsAlignment
<1>3. w \in 1 .. Len(q)
  BY AssumedInQueue, <1>2
<1> HIDE DEF cur, q, w
<1>4. a \in 1 .. Len(q)
  BY <1>1, <1>2, <1>3 DEF ResendBase
<1>5. q # << >>
  BY <1>1, <1>2, EmptySeq
<1>6. Sorted(q)
  BY <1>1, <1>2 DEF QueueInv, Sorted
<1>7. /\ Last(q) = q[Len(q)] /\ Last(q) \in SentState
      /\ \A i \in 1 .. Len(q) : q[i] \in SentState
  BY <1>2, <1>5, NonEmptySeq
<1>8. q[1].num = front.num /\ Last(q).num = back.num
  BY <1>1, <1>2, <1>7
<1>9. \A i \in 1 .. Len(q) : /\ q[i].num \in DOMAIN content
                             /\ content[q[i].num] \in Nat
                             /\ content[q[i].num] <= Len(typed)
                             /\ q[1].num <= q[i].num
                             /\ q[i].num <= q[Len(q)].num
  <2>1. \A i \in 1 .. Len(q) : q[i].num \in DOMAIN content
    BY <1>2 DEF Aligned
  <2>2. \A i \in 1 .. Len(q) : /\ content[q[i].num] \in Nat
                               /\ content[q[i].num] <= Len(typed)
    BY <2>1 DEF TypeOK, NumberingInv
  <2>3. \A i \in 1 .. Len(q) : q[1].num <= q[i].num /\ q[i].num <= q[Len(q)].num
    BY <1>1, <1>2, <1>6 DEF Sorted
  <2>4. QED
    BY <2>1, <2>2, <2>3
<1> HIDE DEF a
<1>10. QED
  BY <1>1, <1>2, <1>3, <1>4, <1>5, <1>6, <1>7, <1>8, <1>9 DEF cur, q, w, a

\* The diff tick sends continues the base it names.
LEMMA DiffIsWindow ==
  ASSUME TypeOK, NEW cur, NEW q, NEW o \in Nat, o <= Len(typed),
         Aligned(cur, q, o), NEW a \in 1 .. Len(q),
         content[q[a].num] \in Nat, content[q[a].num] <= Len(typed)
  PROVE  IsWindow(diff_from(cur, q[a].state), Events, typed,
                  content[q[a].num], Len(typed))
<1>1. Len(typed) \in Nat
  BY LenProperties DEF TypeOK, State
<1>2. /\ IsWindow(cur, Events, typed, o, Len(typed))
      /\ o <= content[q[a].num]
      /\ IsWindow(q[a].state, Events, typed, o, content[q[a].num])
  BY DEF Aligned
<1>3. QED
  BY <1>1, <1>2, DiffOfWindows

LEMMA SilentEffect ==
  ASSUME LinkInv, NEW t \in Nat, NEW rto \in Nat, NEW si \in Nat,
         TickSilent(t, rto, si)
  PROVE  /\ \E o, n \in Nat : TickEffect(o, n)
         /\ assumed_receiver' \in 1 .. Len(sent_states')
<1> DEFINE cur == Rationalized(current_state)
           q   == RationalizedQueue
           w   == update_assumed_receiver_state(t, rto)
           a   == ResendBase(cur, q, w)
<1>1. /\ q \in Seq(SentState) /\ q # << >>
      /\ Sorted(q)
      /\ q[1].num = front.num
      /\ Last(q) = q[Len(q)] /\ Last(q) \in SentState /\ Last(q).num = back.num
      /\ w \in 1 .. Len(q) /\ a \in 1 .. Len(q)
      /\ \A i \in 1 .. Len(q) : q[i].num \in DOMAIN content
      /\ Len(q) \in 1 .. Len(q)
  BY TickInputs DEF LinkInv
<1>2. PICK o \in Nat : o <= Len(typed) /\ Aligned(cur, q, o)
  BY TickInputs DEF LinkInv
<1>3. /\ current_state' = cur /\ sent_states' = q /\ wire' = wire
      /\ assumed_receiver' \in {a, w}
  BY DEF TickSilent
<1>4. back.num \in DOMAIN content /\ back.num \in Nat /\ back.num <= SHUTDOWN_NUM
      /\ (back.num = SHUTDOWN_NUM => shutdown_in_progress)
  BY <1>1 DEF LinkInv, NumberingInv, TypeOK
<1> HIDE DEF cur, q, a, w
<1>5. TickEffect(o, back.num)
  BY <1>1, <1>2, <1>3, <1>4 DEF TickEffect, Aligned
<1>6. QED
  BY <1>1, <1>3, <1>4, <1>5

LEMMA EmptyAckEffect ==
  ASSUME LinkInv, NEW t \in Nat, NEW rto \in Nat, NEW si \in Nat,
         TickEmptyAck(t, rto, si)
  PROVE  /\ \E o, n \in Nat : TickEffect(o, n)
         /\ assumed_receiver' \in 1 .. Len(sent_states')
<1> DEFINE cur == Rationalized(current_state)
           q   == RationalizedQueue
           w   == update_assumed_receiver_state(t, rto)
           a   == ResendBase(cur, q, w)
           n   == IF shutdown_in_progress THEN SHUTDOWN_NUM ELSE Last(q).num + 1
           entry == [timestamp |-> t, num |-> n, state |-> cur]
           r   == add_sent_state(q, entry)
           m   == [old_num |-> q[a].num, new_num |-> n, ack_num |-> ack_num,
                   throwaway_num |-> r[1].num, diff |-> << >>]
<1>1. /\ q \in Seq(SentState) /\ q # << >> /\ Len(q) \in Nat /\ Len(q) >= 1
      /\ Sorted(q)
      /\ q[1].num = front.num
      /\ Last(q) = q[Len(q)] /\ Last(q) \in SentState /\ Last(q).num = back.num
      /\ a \in 1 .. Len(q)
      /\ \A i \in 1 .. Len(q) : /\ q[i] \in SentState
                                /\ q[i].num \in DOMAIN content
                                /\ front.num <= q[i].num
                                /\ q[i].num <= back.num
                                /\ content[q[i].num] \in Nat
                                /\ content[q[i].num] <= Len(typed)
      /\ Len(q) \in 1 .. Len(q)
  BY TickInputs DEF LinkInv
<1>2. PICK o \in Nat : o <= Len(typed) /\ Aligned(cur, q, o)
  BY TickInputs DEF LinkInv
<1>3. /\ NumbersLeft
      /\ diff_from(cur, q[a].state) = << >>
      /\ current_state' = cur /\ sent_states' = r
      /\ assumed_receiver' = AssumedAfterCull(q, a)
      /\ wire' = wire \cup {m}
  BY DEF TickEmptyAck, send_in_fragments
<1>4. /\ back.num \in DOMAIN content /\ back.num \in Nat /\ back.num <= SHUTDOWN_NUM
      /\ \A k \in DOMAIN content : k <= back.num
      /\ ack_num \in Nat /\ Len(typed) \in Nat
  BY <1>1, LenProperties DEF LinkInv, NumberingInv, TypeOK, SenderTypeOK, State
<1> HIDE DEF cur, q, w
<1> HIDE DEF a
<1>5. /\ n \in Nat /\ back.num <= n /\ n <= SHUTDOWN_NUM
      /\ (n = SHUTDOWN_NUM => shutdown_in_progress)
      /\ (n \in DOMAIN content => n = back.num /\ content[n] = Len(typed))
      /\ (n \in DOMAIN content \/ n > back.num)
  <2>1. CASE shutdown_in_progress
    <3>1. n = SHUTDOWN_NUM /\ SHUTDOWN_NUM \in Nat
      BY <2>1, QueueAssumption
    <3> HIDE DEF n
    <3>2. n \in DOMAIN content => content[n] = Len(typed)
      BY <3>1 DEF LinkInv, NumberingInv
    <3>3. n \in DOMAIN content => n <= back.num
      BY <1>4
    <3>4. n = back.num \/ n > back.num
      BY <3>1, <1>4
    <3>5. QED
      BY <2>1, <3>1, <3>2, <3>3, <3>4, <1>4
  <2>2. CASE ~ shutdown_in_progress
    <3>1. n = back.num + 1
      BY <2>2, <1>1
    <3>2. back.num + 1 < SHUTDOWN_NUM
      BY <2>2, <1>3 DEF NumbersLeft
    <3> HIDE DEF n
    <3>3. QED
      BY <3>1, <3>2, <1>4, QueueAssumption
  <2>3. QED
    BY <2>1, <2>2
<1> HIDE DEF n
<1>6. IsWindow(cur, Events, typed, o, Len(typed)) /\ cur \in State
  BY <1>2 DEF Aligned, IsWindow, State
<1>7. entry \in SentState /\ entry.num = n /\ entry.state = cur
  BY <1>5, <1>6 DEF SentState
<1>8. \A i \in 1 .. Len(q) : q[i].num <= entry.num
  <2>1. \A i \in 1 .. Len(q) : q[i].num \in Nat /\ q[i].num <= back.num
    BY <1>1 DEF SentState
  <2> HIDE DEF entry
  <2>2. QED
    BY <2>1, <1>4, <1>5, <1>7
<1> HIDE DEF entry
<1>9. /\ r \in Seq(SentState) /\ Len(r) >= 2
      /\ r[1] = q[1] /\ Last(r) = entry /\ Sorted(r)
      /\ \A i \in 1 .. Len(r) : r[i] = entry \/ \E j \in 1 .. Len(q) : r[i] = q[j]
      /\ AssumedAfterCull(q, a) \in 1 .. Len(r)
  BY <1>1, <1>7, <1>8, AddSentState
<1> HIDE DEF r
<1>10. r # << >>
  BY <1>9, EmptySeq
<1>11. IsWindow(<< >>, Events, typed, content[q[a].num], Len(typed))
  BY <1>1, <1>2, <1>3, DiffIsWindow DEF LinkInv
<1>12. /\ m \in Instruction /\ m.old_num = q[a].num /\ m.new_num = n
       /\ m.throwaway_num = front.num /\ m.diff = << >>
  <2>1. q[a].num \in Nat /\ r[1].num = front.num /\ r[1].num \in Nat
    <3>1. q[1] \in SentState /\ q[a] \in SentState
      BY <1>1
    <3>2. q[1].num \in Nat /\ q[a].num \in Nat
      BY <3>1 DEF SentState
    <3>3. QED
      BY <3>2, <1>1, <1>9
  <2>2. << >> \in State
    BY EmptySeq DEF State
  <2>3. QED
    BY <2>1, <2>2, <1>4, <1>5 DEF Instruction
<1> HIDE DEF m
<1>13. ASSUME NEW i \in 1 .. Len(r)
       PROVE  \/ /\ r[i].num \in DOMAIN content
                 /\ o <= content[r[i].num]
                 /\ IsWindow(r[i].state, Events, typed, o, content[r[i].num])
              \/ /\ r[i].num = n /\ n \notin DOMAIN content
                 /\ IsWindow(r[i].state, Events, typed, o, Len(typed))
  <2>1. CASE r[i] = entry
    BY <2>1, <1>2, <1>5, <1>6, <1>7
  <2>2. CASE \E j \in 1 .. Len(q) : r[i] = q[j]
    BY <2>2, <1>2 DEF Aligned
  <2>3. QED
    BY <2>1, <2>2, <1>9
<1>14. TickEffect(o, n)
  BY <1>1, <1>2, <1>3, <1>5, <1>6, <1>7, <1>9, <1>10, <1>11, <1>12, <1>13 DEF TickEffect
<1>15. n \in Nat
  BY <1>5
<1>16. AssumedAfterCull(q, a) \in 1 .. Len(r)
  BY <1>9
<1>17. QED
  BY <1>3, <1>14, <1>15, <1>16

LEMMA SendEffect ==
  ASSUME LinkInv, NEW t \in Nat, NEW rto \in Nat, NEW si \in Nat,
         TickSend(t, rto, si)
  PROVE  /\ \E o, n \in Nat : TickEffect(o, n)
         /\ assumed_receiver' \in 1 .. Len(sent_states')
<1> DEFINE cur == Rationalized(current_state)
           q   == RationalizedQueue
           w   == update_assumed_receiver_state(t, rto)
           a   == ResendBase(cur, q, w)
           d   == diff_from(cur, q[a].state)
           n   == IF shutdown_in_progress THEN SHUTDOWN_NUM
                  ELSE IF cur = Last(q).state THEN Last(q).num
                                              ELSE Last(q).num + 1
           entry == [timestamp |-> t, num |-> n, state |-> cur]
           r   == IF n = Last(q).num THEN [q EXCEPT ![Len(q)].timestamp = t]
                                     ELSE add_sent_state(q, entry)
           m   == [old_num |-> q[a].num, new_num |-> n, ack_num |-> ack_num,
                   throwaway_num |-> r[1].num, diff |-> d]
<1>1. /\ q \in Seq(SentState) /\ q # << >> /\ Len(q) \in Nat /\ Len(q) >= 1
      /\ Sorted(q)
      /\ q[1].num = front.num
      /\ Last(q) = q[Len(q)] /\ Last(q) \in SentState /\ Last(q).num = back.num
      /\ a \in 1 .. Len(q)
      /\ \A i \in 1 .. Len(q) : /\ q[i] \in SentState
                                /\ q[i].num \in DOMAIN content
                                /\ front.num <= q[i].num
                                /\ q[i].num <= back.num
                                /\ content[q[i].num] \in Nat
                                /\ content[q[i].num] <= Len(typed)
      /\ Len(q) \in 1 .. Len(q)
  BY TickInputs DEF LinkInv
<1>2. PICK o \in Nat : o <= Len(typed) /\ Aligned(cur, q, o)
  BY TickInputs DEF LinkInv
<1>3. /\ NumbersLeft
      /\ current_state' = cur /\ sent_states' = r
      /\ assumed_receiver' = Len(r)
      /\ wire' = wire \cup {m}
  BY DEF TickSend, send_in_fragments
<1>4. /\ back.num \in DOMAIN content /\ back.num \in Nat /\ back.num <= SHUTDOWN_NUM
      /\ \A k \in DOMAIN content : k <= back.num
      /\ (SHUTDOWN_NUM \in DOMAIN content =>
            shutdown_in_progress /\ content[SHUTDOWN_NUM] = Len(typed))
      /\ ack_num \in Nat /\ Len(typed) \in Nat
  BY <1>1, LenProperties DEF LinkInv, NumberingInv, TypeOK, SenderTypeOK, State
<1>d. IsWindow(d, Events, typed, content[q[a].num], Len(typed))
  BY <1>1, <1>2, DiffIsWindow DEF LinkInv
<1> HIDE DEF cur, q, w
<1> HIDE DEF a, d
<1>6. IsWindow(cur, Events, typed, o, Len(typed)) /\ cur \in State
  BY <1>2 DEF Aligned, IsWindow, State
<1>b. cur = Last(q).state => content[back.num] = Len(typed)
  <2>1. /\ Len(cur) = Len(typed) - o
        /\ Len(Last(q).state) = content[back.num] - o
        /\ content[back.num] \in Nat
    BY <1>1, <1>2, <1>6 DEF Aligned, IsWindow
  <2>2. QED
    BY <2>1, <1>4
<1>5. /\ n \in Nat /\ back.num <= n /\ n <= SHUTDOWN_NUM
      /\ (n = SHUTDOWN_NUM => shutdown_in_progress)
      /\ (n \in DOMAIN content => n = back.num /\ content[n] = Len(typed))
      /\ (n \in DOMAIN content \/ n > back.num)
  <2>1. CASE shutdown_in_progress
    BY <2>1, <1>4
  <2>2. CASE ~ shutdown_in_progress /\ cur = Last(q).state
    BY <2>2, <1>1, <1>4, <1>b
  <2>3. CASE ~ shutdown_in_progress /\ cur # Last(q).state
    <3>1. n = back.num + 1
      BY <2>3, <1>1
    <3>2. back.num + 1 < SHUTDOWN_NUM
      BY <2>3, <1>3 DEF NumbersLeft
    <3> HIDE DEF n
    <3>3. QED
      BY <3>1, <3>2, <1>4
  <2>4. QED
    BY <2>1, <2>2, <2>3
<1> HIDE DEF n
<1>7. entry \in SentState /\ entry.num = n /\ entry.state = cur
  BY <1>5, <1>6 DEF SentState
<1>8. \A i \in 1 .. Len(q) : q[i].num <= entry.num
  <2>1. \A i \in 1 .. Len(q) : q[i].num \in Nat /\ q[i].num <= back.num
    BY <1>1 DEF SentState
  <2> HIDE DEF entry
  <2>2. QED
    BY <2>1, <1>4, <1>5, <1>7
<1> HIDE DEF entry
<1>9. /\ r \in Seq(SentState) /\ Len(r) >= 1 /\ Len(r) \in Nat
      /\ r[1].num = q[1].num /\ Last(r).num = n /\ Sorted(r)
      /\ \A i \in 1 .. Len(r) :
           r[i] = entry \/ \E j \in 1 .. Len(q) : /\ r[i].num = q[j].num
                                                  /\ r[i].state = q[j].state
  <2>1. CASE n # Last(q).num
    <3>1. r = add_sent_state(q, entry)
      BY <2>1
    <3> HIDE DEF r
    <3>2. /\ r \in Seq(SentState) /\ Len(r) >= 2
          /\ r[1] = q[1] /\ Last(r) = entry /\ Sorted(r)
          /\ \A i \in 1 .. Len(r) : r[i] = entry \/ \E j \in 1 .. Len(q) : r[i] = q[j]
      <4> DEFINE x == add_sent_state(q, entry)
      <4>1. /\ x \in Seq(SentState) /\ Len(x) >= 2
            /\ x[1] = q[1] /\ Last(x) = entry /\ Sorted(x)
            /\ \A i \in 1 .. Len(x) : x[i] = entry \/ \E j \in 1 .. Len(q) : x[i] = q[j]
        BY <1>1, <1>7, <1>8, AddSentState
      <4>2. QED
        BY <4>1, <3>1
    <3>3. Len(r) \in Nat
      BY <3>2, LenProperties
    <3>4. Last(r).num = n /\ r[1].num = q[1].num /\ Len(r) >= 1
      BY <3>2, <3>3, <1>7
    <3>5. \A i \in 1 .. Len(r) :
            r[i] = entry \/ \E j \in 1 .. Len(q) : /\ r[i].num = q[j].num
                                                   /\ r[i].state = q[j].state
      BY <3>2
    <3>6. QED
      BY <3>2, <3>3, <3>4, <3>5
  <2>2. CASE n = Last(q).num
    <3> DEFINE last == [q[Len(q)] EXCEPT !.timestamp = t]
    <3>1. r = [q EXCEPT ![Len(q)] = last]
      BY <2>2
    <3>2. /\ last \in SentState /\ last.num = q[Len(q)].num
          /\ last.state = q[Len(q)].state
      BY <1>1 DEF SentState
    <3> HIDE DEF last, r
    <3>3. /\ r \in Seq(SentState) /\ Len(r) = Len(q)
          /\ \A j \in 1 .. Len(q) : r[j] = IF j = Len(q) THEN last ELSE q[j]
      BY <3>1, <3>2, <1>1, ExceptSeq
    <3>4. \A j \in 1 .. Len(q) : r[j].num = q[j].num /\ r[j].state = q[j].state
      BY <3>2, <3>3
    <3>5. Sorted(r)
      BY <3>3, <3>4, <1>1 DEF Sorted
    <3>6. Last(r).num = n /\ r[1].num = q[1].num
      BY <3>3, <3>4, <1>1, <2>2 DEF Last
    <3>7. QED
      BY <3>3, <3>4, <3>5, <3>6, <1>1
  <2>3. QED
    BY <2>1, <2>2
<1> HIDE DEF r
<1>10. r # << >>
  BY <1>9, EmptySeq
<1>12. /\ m \in Instruction /\ m.old_num = q[a].num /\ m.new_num = n
       /\ m.throwaway_num = front.num /\ m.diff = d
  <2>1. q[a].num \in Nat /\ r[1].num = front.num /\ r[1].num \in Nat
    <3>1. q[1] \in SentState /\ q[a] \in SentState
      BY <1>1
    <3>2. q[1].num \in Nat /\ q[a].num \in Nat
      BY <3>1 DEF SentState
    <3>3. QED
      BY <3>2, <1>1, <1>9
  <2>2. d \in State
    BY <1>d DEF State, IsWindow
  <2>3. QED
    BY <2>1, <2>2, <1>4, <1>5 DEF Instruction
<1> HIDE DEF m
<1>13. ASSUME NEW i \in 1 .. Len(r)
       PROVE  \/ /\ r[i].num \in DOMAIN content
                 /\ o <= content[r[i].num]
                 /\ IsWindow(r[i].state, Events, typed, o, content[r[i].num])
              \/ /\ r[i].num = n /\ n \notin DOMAIN content
                 /\ IsWindow(r[i].state, Events, typed, o, Len(typed))
  <2>1. CASE r[i] = entry
    BY <2>1, <1>2, <1>5, <1>6, <1>7
  <2>2. CASE \E j \in 1 .. Len(q) : r[i].num = q[j].num /\ r[i].state = q[j].state
    BY <2>2, <1>2 DEF Aligned
  <2>3. QED
    BY <2>1, <2>2, <1>9
<1>14. TickEffect(o, n)
  BY <1>1, <1>2, <1>3, <1>5, <1>6, <1>7, <1>9, <1>10, <1>d, <1>12, <1>13 DEF TickEffect
<1>15. n \in Nat
  BY <1>5
<1>16. Len(r) \in 1 .. Len(r)
  BY <1>9
<1>17. QED
  BY <1>3, <1>14, <1>15, <1>16

\* The scalar fields of the sender keep their types in a tick.
LEMMA TickScalars ==
  ASSUME LinkInv, NEW t \in Nat, NEW rto \in Nat, NEW si \in Nat, tick(t, rto, si)
  PROVE  /\ ack_num' = ack_num
         /\ next_ack_time' \in Nat
         /\ mindelay_clock' \in Nat \cup {None}
         /\ pending_data_ack' \in BOOLEAN
         /\ shutdown_in_progress' = shutdown_in_progress
         /\ shutdown_tries' \in Nat
         /\ shutdown_start' = shutdown_start
         /\ last_heard' = last_heard
<1> DEFINE cur == Rationalized(current_state)
           q   == RationalizedQueue
<1>1. /\ next_ack_time \in Nat /\ mindelay_clock \in Nat \cup {None}
      /\ pending_data_ack \in BOOLEAN /\ shutdown_tries \in Nat
  BY DEF LinkInv, TypeOK, SenderTypeOK
<1>2. Last(q).timestamp \in Nat
  <2>1. Last(q) \in SentState
    BY TickInputs DEF LinkInv
  <2>2. QED
    BY <2>1 DEF SentState
<1>3. NextAckTime(q, t, si) \in Nat
  BY <1>1, <1>2 DEF NextAckTime
<1>4. MindelayClock(cur, q, t) \in Nat \cup {None}
  BY <1>1 DEF MindelayClock
<1>5. CASE TickSilent(t, rto, si)
  BY <1>1, <1>3, <1>4, <1>5 DEF TickSilent
<1>6. CASE TickEmptyAck(t, rto, si)
  <2>1. /\ next_ack_time' = t + ACK_INTERVAL_MS
        /\ mindelay_clock' = None
        /\ pending_data_ack' = FALSE
        /\ shutdown_tries' = shutdown_tries \/ shutdown_tries' = shutdown_tries + 1
        /\ UNCHANGED << ack_num, shutdown_in_progress, shutdown_start, last_heard >>
    BY <1>6, Zenon DEF TickEmptyAck, send_in_fragments
  <2>2. next_ack_time' \in Nat /\ shutdown_tries' \in Nat
    BY <2>1, <1>1
  <2>3. pending_data_ack' \in BOOLEAN /\ mindelay_clock' \in Nat \cup {None}
    BY <2>1, Zenon
  <2>4. QED
    BY <2>1, <2>2, <2>3
<1>7. CASE TickSend(t, rto, si)
  <2>1. /\ next_ack_time' = t + ACK_INTERVAL_MS
        /\ mindelay_clock' = None
        /\ pending_data_ack' = FALSE
        /\ shutdown_tries' = shutdown_tries \/ shutdown_tries' = shutdown_tries + 1
        /\ UNCHANGED << ack_num, shutdown_in_progress, shutdown_start, last_heard >>
    BY <1>7, Zenon DEF TickSend, send_in_fragments
  <2>2. next_ack_time' \in Nat /\ shutdown_tries' \in Nat
    BY <2>1, <1>1
  <2>3. pending_data_ack' \in BOOLEAN /\ mindelay_clock' \in Nat \cup {None}
    BY <2>1, Zenon
  <2>4. QED
    BY <2>1, <2>2, <2>3
<1>8. QED
  BY <1>5, <1>6, <1>7 DEF tick

LEMMA TickHasEffect ==
  ASSUME LinkInv, NEW t \in Nat, NEW rto \in Nat, NEW si \in Nat, tick(t, rto, si)
  PROVE  /\ \E o, n \in Nat : TickEffect(o, n)
         /\ assumed_receiver' \in 1 .. Len(sent_states')
BY SilentEffect, EmptyAckEffect, SendEffect DEF tick

LEMMA TickKeepsInv ==
  ASSUME LinkInv, NEW rto \in Rtos, NEW si \in SendIntervals, Tick(rto, si)
  PROVE  LinkInv'
<1>1. rto \in Nat /\ si \in Nat /\ now \in Nat
  BY DEF LinkInv, TypeOK
<1>2. tick(now, rto, si)
  BY DEF Tick
<1>3. PICK o \in Nat, n \in Nat : TickEffect(o, n)
  BY <1>1, <1>2, TickHasEffect
<1>4. /\ UNCHANGED << received, quench_until, now, peer_ack_num, acks, typed >>
      /\ ended' = LoopEnds'
      /\ DOMAIN content' = DOMAIN content \cup {n}
      /\ \A k \in DOMAIN content : content'[k] = content[k]
      /\ n \notin DOMAIN content => content'[n] = Len(typed)
  <2>1. back'.num = n
    BY <1>3 DEF TickEffect, back
  <2>2. content' = [k \in DOMAIN content \cup {n} |->
                      IF k \in DOMAIN content THEN content[k] ELSE Len(typed)]
    BY <2>1 DEF Tick
  <2>3. QED
    BY <2>2 DEF Tick, receiverVars
<1>5. Len(typed) \in Nat
  BY LenProperties DEF LinkInv, TypeOK, State
<1>6. TypeOK'
  <2>1. SenderTypeOK'
    <3>1. current_state' \in State
      BY <1>3 DEF TickEffect, IsWindow, State
    <3>2. wire' \subseteq Instruction
      BY <1>3 DEF TickEffect, LinkInv, TypeOK, SenderTypeOK
    <3>3. assumed_receiver' \in 1 .. Len(sent_states')
      BY <1>1, <1>2, TickHasEffect
    <3>4. sent_states' \in Seq(SentState) /\ sent_states' # << >>
      BY <1>3 DEF TickEffect
    <3>5. QED
      BY <1>1, <1>2, <3>1, <3>2, <3>3, <3>4, TickScalars
         DEF SenderTypeOK, LinkInv, TypeOK
  <2>2. ended' \in BOOLEAN
    BY <1>4 DEF LoopEnds
  <2>3. \A k \in DOMAIN content' : k \in Nat /\ content'[k] \in Nat
    BY <1>4, <1>5 DEF LinkInv, TypeOK
  <2>4. QED
    BY <1>4, <2>1, <2>2, <2>3 DEF LinkInv, TypeOK
<1>7. /\ back.num \in Nat
      /\ \A k \in DOMAIN content : k \in Nat /\ k <= back.num /\ content[k] \in Nat
                                   /\ content[k] <= Len(typed) /\ k <= SHUTDOWN_NUM
  <2>1. back \in SentState
    BY NonEmptySeq DEF LinkInv, TypeOK, SenderTypeOK, back
  <2>2. QED
    BY <2>1 DEF LinkInv, TypeOK, NumberingInv, SentState
<1>8. NumberingInv'
  <2>1. back'.num = n
    BY <1>3 DEF TickEffect, back
  <2>2. 0 \in DOMAIN content' /\ content'[0] = 0
    BY <1>4 DEF LinkInv, NumberingInv
  <2>3. \A k \in DOMAIN content' :
          content'[k] <= Len(typed) /\ k <= n /\ k <= SHUTDOWN_NUM
    BY <1>3, <1>4, <1>5, <1>7 DEF TickEffect
  <2>4. \A j, k \in DOMAIN content' : j <= k => content'[j] <= content'[k]
    <3>1. \A j, k \in DOMAIN content : j <= k => content[j] <= content[k]
      BY DEF LinkInv, NumberingInv
    <3>2. n \in DOMAIN content \/ n > back.num
      BY <1>3 DEF TickEffect
    <3>3. QED
      BY <3>1, <3>2, <1>4, <1>5, <1>7
  <2>5. SHUTDOWN_NUM \in DOMAIN content' =>
          shutdown_in_progress /\ content'[SHUTDOWN_NUM] = Len(typed)
    <3>1. SHUTDOWN_NUM \in DOMAIN content =>
            shutdown_in_progress /\ content[SHUTDOWN_NUM] = Len(typed)
      BY DEF LinkInv, NumberingInv
    <3>2. n = SHUTDOWN_NUM => shutdown_in_progress
      BY <1>3 DEF TickEffect
    <3>3. QED
      BY <3>1, <3>2, <1>4
  <2>6. shutdown_in_progress' = shutdown_in_progress /\ typed' = typed
    BY <1>1, <1>2, <1>4, TickScalars
  <2>7. QED
    BY <2>1, <2>2, <2>3, <2>4, <2>5, <2>6 DEF NumberingInv
<1>9. QueueInv'
  <2>1. Offset' = o
    <3>1. Len(current_state') = Len(typed) - o /\ o <= Len(typed)
      BY <1>3 DEF TickEffect, IsWindow
    <3>2. QED
      BY <3>1, <1>4, <1>5 DEF Offset
  <2>2. ASSUME NEW i \in 1 .. Len(sent_states')
        PROVE  /\ sent_states'[i].num \in DOMAIN content'
               /\ o <= content'[sent_states'[i].num]
               /\ IsWindow(sent_states'[i].state, Events, typed, o,
                           content'[sent_states'[i].num])
    BY <1>3, <1>4 DEF TickEffect
  <2>3. IsWindow(current_state', Events, typed, o, Len(typed)) /\ Sorted(sent_states')
    BY <1>3 DEF TickEffect
  <2>4. QED
    BY <2>1, <2>2, <2>3, <1>4 DEF QueueInv, Aligned, Sorted
<1>10. WireInv'
  <2>1. front'.num = front.num
    BY <1>3 DEF TickEffect, front
  <2>2. SUFFICES ASSUME NEW m \in wire' PROVE InstructionOK(m)'
    BY DEF WireInv
  <2>3. CASE m \in wire
    <3>1. InstructionOK(m)
      BY <2>3 DEF LinkInv, WireInv
    <3>2. QED
      BY <3>1, <2>1, <1>4 DEF InstructionOK
  <2>4. CASE m \notin wire
    <3>1. /\ m.old_num \in DOMAIN content /\ front.num <= m.old_num
          /\ m.old_num <= back.num
          /\ m.new_num = n /\ m.throwaway_num = front.num
          /\ n \in DOMAIN content => content[n] = Len(typed)
          /\ IsWindow(m.diff, Events, typed, content[m.old_num], Len(typed))
          /\ back.num <= n
      BY <2>4, <1>3 DEF TickEffect
    <3>2. content'[n] = Len(typed) /\ n \in DOMAIN content'
      BY <3>1, <1>4
    <3>3. m.old_num <= n
      BY <3>1, <1>7
    <3>4. front.num <= front.num
      <4>1. front.num \in Nat
        <5>1. front \in SentState
          BY NonEmptySeq DEF LinkInv, TypeOK, SenderTypeOK, front
        <5>2. QED
          BY <5>1 DEF SentState
      <4>2. QED
        BY <4>1
    <3>5. QED
      BY <3>1, <3>2, <3>3, <3>4, <2>1, <1>4 DEF InstructionOK
  <2>5. QED
    BY <2>3, <2>4
<1>11. HeldInv'
  BY <1>4 DEF LinkInv, HeldInv
<1>12. AckInv'
  <2>1. front'.num = front.num
    BY <1>3 DEF TickEffect, front
  <2>2. QED
    BY <2>1, <1>4 DEF LinkInv, AckInv, Holds, latest, Last
<1>13. QED
  BY <1>6, <1>8, <1>9, <1>10, <1>11, <1>12 DEF LinkInv

-----------------------------------------------------------------------------
(* The link. *)

\* Elementary consequences of the invariant, used throughout.
LEMMA Basics ==
  ASSUME LinkInv
  PROVE  /\ Len(typed) \in Nat
         /\ sent_states \in Seq(SentState) /\ Len(sent_states) \in Nat
         /\ Len(sent_states) >= 1
         /\ \A i \in 1 .. Len(sent_states) : sent_states[i].num \in Nat
         /\ front.num \in Nat /\ back.num \in Nat
         /\ front = sent_states[1] /\ back = sent_states[Len(sent_states)]
         /\ received \in Seq(HeldState) /\ received # << >>
         /\ Len(received) \in Nat /\ Len(received) >= 1
         /\ \A i \in 1 .. Len(received) : received[i].num \in Nat
         /\ latest = received[Len(received)] /\ latest.num \in Nat
         /\ StrictlySorted(received)
         /\ \A n \in DOMAIN content :
              n \in Nat /\ content[n] \in Nat /\ content[n] <= Len(typed)
<1>1. Len(typed) \in Nat
  BY LenProperties DEF LinkInv, TypeOK, State
<1>2. /\ sent_states \in Seq(SentState) /\ Len(sent_states) \in Nat
      /\ Len(sent_states) >= 1 /\ front = sent_states[1]
      /\ back = sent_states[Len(sent_states)]
      /\ \A i \in 1 .. Len(sent_states) : sent_states[i] \in SentState
  BY NonEmptySeq DEF LinkInv, TypeOK, SenderTypeOK, front, back
<1>3. \A i \in 1 .. Len(sent_states) : sent_states[i].num \in Nat
  BY <1>2 DEF SentState
<1>4. /\ received \in Seq(HeldState) /\ received # << >>
      /\ Len(received) \in Nat /\ Len(received) >= 1
      /\ latest = received[Len(received)]
      /\ \A i \in 1 .. Len(received) : received[i] \in HeldState
  BY NonEmptySeq DEF LinkInv, TypeOK, latest
<1>5. \A i \in 1 .. Len(received) : received[i].num \in Nat
  BY <1>4 DEF HeldState
<1>6. StrictlySorted(received)
  BY DEF LinkInv, HeldInv, StrictlySorted
<1>7. \A n \in DOMAIN content :
        n \in Nat /\ content[n] \in Nat /\ content[n] <= Len(typed)
  BY DEF LinkInv, TypeOK, NumberingInv
<1>8. QED
  BY <1>1, <1>2, <1>3, <1>4, <1>5, <1>6, <1>7

LEMMA InitHasInv == Init => LinkInv
<1> SUFFICES ASSUME Init PROVE LinkInv
  OBVIOUS
<1> DEFINE s0 == [timestamp |-> 0, num |-> 0, state |-> << >>]
           h0 == [num |-> 0, state |-> << >>]
<1>1. /\ current_state = << >> /\ sent_states = << s0 >> /\ typed = << >>
      /\ received = << h0 >> /\ content = [n \in {0} |-> 0] /\ acks = {}
      /\ wire = {} /\ peer_ack_num = 0
  BY DEF Init, SenderInit, ReceiverInit
<1>2. << >> \in State
  BY DEF State
<1>3. s0 \in SentState /\ h0 \in HeldState
  BY <1>2 DEF SentState, HeldState
<1>4. /\ sent_states \in Seq(SentState) /\ Len(sent_states) = 1 /\ sent_states[1] = s0
      /\ received \in Seq(HeldState) /\ Len(received) = 1 /\ received[1] = h0
      /\ sent_states # << >> /\ received # << >>
  <2> HIDE DEF s0, h0
  <2>1. QED
    BY <1>1, <1>3
<1>5. TypeOK
  <2>1. SenderTypeOK
    <3>1. /\ assumed_receiver = 1 /\ ack_num = 0 /\ next_ack_time = ACK_INTERVAL_MS
          /\ mindelay_clock = None /\ pending_data_ack = FALSE
          /\ shutdown_in_progress = FALSE /\ shutdown_tries = 0
          /\ shutdown_start = None /\ last_heard = 0
      BY DEF Init, SenderInit
    <3>2. wire \subseteq Instruction /\ current_state \in State
      BY <1>1, <1>2
    <3>3. assumed_receiver \in 1 .. Len(sent_states)
      BY <3>1, <1>4
    <3> HIDE DEF s0, h0
    <3>4. QED
      BY <3>1, <3>2, <3>3, <1>4 DEF SenderTypeOK
  <2>2. /\ quench_until = 0 /\ now = 0 /\ ended = FALSE /\ peer_ack_num = 0
    BY DEF Init, ReceiverInit
  <2>3. acks \subseteq Nat /\ typed \in State
    BY <1>1, <1>2
  <2>4. DOMAIN content \subseteq Nat /\ \A n \in DOMAIN content : content[n] \in Nat
    BY <1>1
  <2> HIDE DEF s0, h0
  <2>5. QED
    BY <1>4, <2>1, <2>2, <2>3, <2>4 DEF TypeOK
<1>6. IsWindow(<< >>, Events, << >>, 0, 0)
  BY DEF IsWindow
<1>7. front = s0 /\ back = s0 /\ latest = h0
  BY <1>4 DEF front, back, latest, Last
<1>8. Offset = 0 /\ Len(typed) = 0
  BY <1>1 DEF Offset
<1>9. NumberingInv
  BY <1>1, <1>7, <1>8 DEF NumberingInv
<1>10. QueueInv
  BY <1>1, <1>4, <1>6, <1>8 DEF QueueInv, Aligned, Sorted
<1>11. WireInv
  BY <1>1 DEF WireInv
<1>12. HeldInv
  BY <1>1, <1>4, <1>6 DEF HeldInv
<1>13. AckInv
  BY <1>1, <1>4, <1>7 DEF AckInv, Holds
<1>14. QED
  BY <1>5, <1>9, <1>10, <1>11, <1>12, <1>13 DEF LinkInv

LEMMA TypeKeepsInv ==
  ASSUME LinkInv, NEW e \in Events, Type(e)
  PROVE  LinkInv'
<1>1. /\ ~ shutdown_in_progress
      /\ current_state' = current_state \o << e >>
      /\ typed' = Append(typed, e)
      /\ UNCHANGED << sent_states, assumed_receiver, ack_num, next_ack_time,
                      mindelay_clock, pending_data_ack, shutdown_in_progress,
                      shutdown_tries, shutdown_start, last_heard, wire, received,
                      quench_until, now, ended, peer_ack_num, acks, content >>
  BY DEF Type, push, receiverVars
<1>2. /\ Len(typed) \in Nat /\ typed \in Seq(Events)
      /\ current_state \in Seq(Events) /\ Len(current_state) \in Nat
      /\ typed' \in Seq(Events) /\ Len(typed') = Len(typed) + 1
  BY <1>1, LenProperties, AppendProperties DEF LinkInv, TypeOK, SenderTypeOK, State
<1>3. \A n \in DOMAIN content : content[n] \in Nat /\ content[n] <= Len(typed)
  BY Basics
<1>4. ASSUME NEW s, NEW lo \in Nat, NEW hi \in Nat, lo <= hi, hi <= Len(typed),
             IsWindow(s, Events, typed, lo, hi)
      PROVE  IsWindow(s, Events, typed', lo, hi)
  BY <1>1, <1>2, <1>4, AppendKeepsWindow
<1>5. /\ Offset \in Nat /\ Offset <= Len(typed)
      /\ IsWindow(current_state, Events, typed, Offset, Len(typed))
  BY <1>2 DEF LinkInv, QueueInv, Aligned, Offset
<1>6. IsWindow(current_state', Events, typed', Offset, Len(typed'))
  BY <1>1, <1>2, <1>5, AppendExtendsWindow
<1>7. Len(current_state') = Len(typed') - Offset
  BY <1>6 DEF IsWindow
<1>8. Offset' = Offset
  <2>1. Offset' = Len(typed') - Len(current_state')
    BY DEF Offset
  <2>2. QED
    BY <2>1, <1>2, <1>5, <1>7
<1>9. TypeOK'
  BY <1>1, <1>2, <1>6 DEF LinkInv, TypeOK, SenderTypeOK, IsWindow, State
<1>10. NumberingInv'
  <2>1. back' = back /\ SHUTDOWN_NUM \notin DOMAIN content
    BY <1>1 DEF LinkInv, NumberingInv, back, Last
  <2>2. \A n \in DOMAIN content : content[n] <= Len(typed')
    BY <1>2, <1>3
  <2>3. QED
    BY <1>1, <2>1, <2>2 DEF LinkInv, NumberingInv
<1>11. QueueInv'
  <2>1. ASSUME NEW i \in 1 .. Len(sent_states)
        PROVE  IsWindow(sent_states[i].state, Events, typed', Offset,
                        content[sent_states[i].num])
    <3>1. /\ sent_states[i].num \in DOMAIN content
          /\ Offset <= content[sent_states[i].num]
          /\ IsWindow(sent_states[i].state, Events, typed, Offset,
                      content[sent_states[i].num])
      BY DEF LinkInv, QueueInv, Aligned
    <3>2. QED
      BY <3>1, <1>3, <1>4, <1>5
  <2>2. QED
    BY <2>1, <1>1, <1>5, <1>6, <1>8 DEF LinkInv, QueueInv, Aligned, Sorted
<1>12. WireInv'
  <2>1. SUFFICES ASSUME NEW m \in wire PROVE InstructionOK(m)'
    BY <1>1 DEF WireInv
  <2>2. InstructionOK(m)
    BY DEF LinkInv, WireInv
  <2>3. content[m.old_num] <= content[m.new_num]
    BY <2>2 DEF InstructionOK, LinkInv, NumberingInv
  <2>4. IsWindow(m.diff, Events, typed', content[m.old_num], content[m.new_num])
    BY <2>2, <2>3, <1>3, <1>4 DEF InstructionOK
  <2>5. QED
    BY <2>2, <2>4, <1>1 DEF InstructionOK, front
<1>13. HeldInv'
  <2>1. ASSUME NEW i \in 1 .. Len(received)
        PROVE  IsWindow(received[i].state, Events, typed', 0, content[received[i].num])
    <3>1. /\ received[i].num \in DOMAIN content
          /\ IsWindow(received[i].state, Events, typed, 0, content[received[i].num])
      BY DEF LinkInv, HeldInv
    <3>2. QED
      BY <3>1, <1>3, <1>4
  <2>2. QED
    BY <2>1, <1>1 DEF LinkInv, HeldInv
<1>14. AckInv'
  BY <1>1 DEF LinkInv, AckInv, front, latest, Last, Holds
<1>15. QED
  BY <1>9, <1>10, <1>11, <1>12, <1>13, <1>14 DEF LinkInv

\* Clock, StartShutdown, WaitTime and PeerSend leave queues and streams alone.
LEMMA QuietStepKeepsInv ==
  ASSUME LinkInv, TypeOK',
         UNCHANGED << current_state, sent_states, wire, received, typed, content,
                      peer_ack_num >>,
         shutdown_in_progress => shutdown_in_progress',
         acks' \subseteq acks \cup {peer_ack_num}
  PROVE  LinkInv'
<1>1. NumberingInv'
  BY DEF LinkInv, NumberingInv, back, Last
<1>2. QueueInv'
  BY DEF LinkInv, QueueInv, Aligned, Sorted, Offset
<1>3. WireInv'
  BY DEF LinkInv, WireInv, InstructionOK, front
<1>4. HeldInv'
  BY DEF LinkInv, HeldInv
<1>5. AckInv'
  <2>1. front' = front /\ latest' = latest
    BY DEF front, latest, Last
  <2>2. Holds(received, peer_ack_num)
    BY Basics DEF LinkInv, AckInv, Holds
  <2>3. QED
    BY <2>1, <2>2 DEF LinkInv, AckInv, Holds
<1>6. QED
  BY <1>1, <1>2, <1>3, <1>4, <1>5 DEF LinkInv

LEMMA ClockKeepsInv ==
  ASSUME LinkInv, Clock
  PROVE  LinkInv'
<1>1. TypeOK'
  BY DEF LinkInv, Clock, TypeOK, SenderTypeOK, senderVars, receiverVars
<1>2. QED
  BY <1>1, QuietStepKeepsInv DEF Clock, senderVars, receiverVars

LEMMA StartShutdownKeepsInv ==
  ASSUME LinkInv, StartShutdown
  PROVE  LinkInv'
<1>1. TypeOK'
  BY DEF LinkInv, StartShutdown, start_shutdown, TypeOK, SenderTypeOK, receiverVars,
         linkVars
<1>2. QED
  BY <1>1, QuietStepKeepsInv DEF StartShutdown, start_shutdown, receiverVars, linkVars

LEMMA WaitTimeKeepsInv ==
  ASSUME LinkInv, NEW si \in SendIntervals, WaitTime(si)
  PROVE  LinkInv'
<1>1. si \in Nat /\ now \in Nat /\ Last(sent_states).timestamp \in Nat
  <2>1. Last(sent_states) \in SentState
    BY NonEmptySeq DEF LinkInv, TypeOK, SenderTypeOK
  <2>2. QED
    BY <2>1 DEF SentState, LinkInv, TypeOK
<1>2. NextAckTime(sent_states, now, si) \in Nat
  BY <1>1 DEF NextAckTime, LinkInv, TypeOK, SenderTypeOK
<1>3. MindelayClock(current_state, sent_states, now) \in Nat \cup {None}
  BY <1>1 DEF MindelayClock, LinkInv, TypeOK, SenderTypeOK
<1>4. TypeOK'
  BY <1>2, <1>3 DEF LinkInv, WaitTime, wait_time, TypeOK, SenderTypeOK, receiverVars,
                    linkVars
<1>5. QED
  BY <1>4, QuietStepKeepsInv DEF WaitTime, wait_time, receiverVars, linkVars

LEMMA PeerSendKeepsInv ==
  ASSUME LinkInv, PeerSend
  PROVE  LinkInv'
<1>1. TypeOK'
  BY DEF LinkInv, PeerSend, TypeOK, SenderTypeOK, senderVars, receiverVars
<1>2. QED
  BY <1>1, QuietStepKeepsInv DEF PeerSend, senderVars, receiverVars

\* process_acknowledgment_through keeps the queue's suffix from an entry
\* whose number an ack in flight names, so one the peer still holds.
LEMMA ClientReceiveKeepsInv ==
  ASSUME LinkInv, NEW ack \in acks, ClientReceive(ack)
  PROVE  LinkInv'
<1> DEFINE n == Len(sent_states)
           C(i) == /\ sent_states[i].num >= ack
                   /\ \A j \in 1 .. i - 1 : sent_states[j].num < ack
           P == {i \in 1 .. n : sent_states[i].num = ack}
<1>1. UNCHANGED << current_state, next_ack_time, mindelay_clock,
                   shutdown_in_progress, shutdown_tries, shutdown_start, wire,
                   received, quench_until, now, ended, peer_ack_num, acks, typed,
                   content >>
  BY DEF ClientReceive, receiverVars
<1>2. /\ ack_num' \in Nat /\ last_heard' \in Nat
      /\ pending_data_ack' \in BOOLEAN
  <2>1. CASE UNCHANGED << ack_num, last_heard, pending_data_ack >>
    BY <2>1 DEF LinkInv, TypeOK, SenderTypeOK
  <2>2. CASE \E num \in HostNums, had_diff \in BOOLEAN :
               /\ num > ack_num
               /\ NewestStateAppended(num, had_diff, now)
    <3>1. PICK num \in HostNums, had_diff \in BOOLEAN :
               NewestStateAppended(num, had_diff, now)
      BY <2>2
    <3>2. ack_num' \in Nat /\ last_heard' \in Nat
      BY <3>1 DEF NewestStateAppended, LinkInv, TypeOK
    <3>3. pending_data_ack' \in BOOLEAN
      BY <3>1, Zenon DEF NewestStateAppended
    <3>4. QED
      BY <3>2, <3>3
  <2>3. QED
    BY <2>1, <2>2 DEF ClientReceive
<1>3. /\ ack \in Nat /\ n \in Nat /\ n >= 1 /\ sent_states \in Seq(SentState)
      /\ \A i \in 1 .. n : sent_states[i].num \in Nat
      /\ \A i, j \in 1 .. n : i <= j => sent_states[i].num <= sent_states[j].num
      /\ assumed_receiver \in 1 .. n
  BY Basics DEF LinkInv, TypeOK, SenderTypeOK, QueueInv, Sorted
<1>4. CASE ~ \E i \in 1 .. n : sent_states[i].num = ack
  <2>1. UNCHANGED << sent_states, assumed_receiver >>
    BY <1>4 DEF ClientReceive, process_acknowledgment_through
  <2>2. TypeOK'
    BY <2>1, <1>1, <1>2 DEF LinkInv, TypeOK, SenderTypeOK
  <2>3. QED
    BY <2>1, <2>2, <1>1, QuietStepKeepsInv
<1>5. CASE \E i \in 1 .. n : sent_states[i].num = ack
  <2> DEFINE f == CHOOSE i \in 1 .. n : C(i)
             kept == SubSeq(sent_states, f, n)
  <2>1. f \in 1 .. n /\ C(f) /\ sent_states[f].num = ack
    <3>1. PICK g \in P : \A j \in 1 .. g - 1 : j \notin P
      <4>1. P # {} /\ P \in SUBSET (1 .. n)
        BY <1>5
      <4> HIDE DEF P
      <4>2. QED
        BY <4>1, <1>3, FirstPosition
    <3>2. g \in 1 .. n /\ C(g) /\ sent_states[g].num = ack
      BY <3>1, <1>3
    <3> HIDE DEF C
    <3>3. f \in 1 .. n /\ C(f)
      BY <3>2
    <3> HIDE DEF f
    <3>4. f <= g
      BY <1>3, <3>2, <3>3 DEF C
    <3>5. sent_states[f].num = ack
      BY <1>3, <3>2, <3>3, <3>4 DEF C
    <3>6. QED
      BY <3>3, <3>5
  <2>2. /\ sent_states' = kept
        /\ assumed_receiver' = IF assumed_receiver > Len(kept) THEN Len(kept)
                                                               ELSE assumed_receiver
    BY <1>5 DEF ClientReceive, process_acknowledgment_through
  <2> HIDE DEF f, P
  <2>3. /\ kept \in Seq(SentState) /\ Len(kept) = n - f + 1 /\ kept # << >>
        /\ \A i \in 1 .. n - f + 1 : kept[i] = sent_states[f + i - 1]
    BY <2>1, <1>3, SuffixProperties
  <2> HIDE DEF kept
  <2>4. /\ Len(kept) \in Nat /\ Len(kept) >= 1
        /\ \A i \in 1 .. Len(kept) : /\ f + i - 1 \in 1 .. n
                                     /\ kept[i] = sent_states[f + i - 1]
    <3>1. n - f + 1 \in Nat /\ n - f + 1 >= 1 /\ Len(kept) = n - f + 1
      BY <2>1, <2>3, <1>3
    <3>2. \A i \in 1 .. n - f + 1 : f + i - 1 \in 1 .. n
      BY <2>1, <1>3
    <3>3. QED
      BY <3>1, <3>2, <2>3
  <2>5. kept[1].num = ack /\ kept[Len(kept)] = sent_states[n]
    <3>1. 1 \in 1 .. Len(kept) /\ f + 1 - 1 = f
      BY <2>1, <2>4
    <3>2. kept[1] = sent_states[f]
      BY <3>1, <2>4
    <3>3. Len(kept) \in 1 .. Len(kept) /\ f + Len(kept) - 1 = n
      BY <2>1, <2>3, <2>4, <1>3
    <3>4. kept[Len(kept)] = sent_states[n]
      BY <3>3, <2>4
    <3>5. QED
      BY <3>2, <3>4, <2>1
  <2>6. /\ front'.num = ack /\ back' = back /\ front.num <= ack
        /\ front.num \in Nat
    <3>1. front = sent_states[1] /\ back = sent_states[n] /\ front.num \in Nat
      BY Basics
    <3>2. front' = kept[1] /\ back' = kept[Len(kept)]
      BY <2>2 DEF front, back, Last
    <3>3. front.num <= ack
      BY <3>1, <2>1, <1>3
    <3>4. QED
      BY <3>1, <3>2, <3>3, <2>5
  <2>7. TypeOK'
    <3>1. assumed_receiver' \in 1 .. Len(sent_states')
      BY <2>2, <2>4, <1>3
    <3>2. SenderTypeOK'
      BY <3>1, <2>2, <2>3, <1>1, <1>2 DEF LinkInv, TypeOK, SenderTypeOK
    <3>3. QED
      BY <3>2, <1>1, <1>2 DEF LinkInv, TypeOK
  <2>8. NumberingInv'
    BY <2>6, <1>1 DEF LinkInv, NumberingInv
  <2>9. QueueInv'
    <3>1. Sorted(kept)
      <4>1. SUFFICES ASSUME NEW i \in 1 .. Len(kept), NEW j \in 1 .. Len(kept), i <= j
                     PROVE  kept[i].num <= kept[j].num
        BY DEF Sorted
      <4>2. f + i - 1 <= f + j - 1
        BY <4>1, <2>1
      <4>3. QED
        BY <4>2, <2>4, <1>3
    <3>2. \A i \in 1 .. Len(kept) :
            /\ kept[i].num \in DOMAIN content
            /\ Offset <= content[kept[i].num]
            /\ IsWindow(kept[i].state, Events, typed, Offset, content[kept[i].num])
      BY <2>4 DEF LinkInv, QueueInv, Aligned
    <3>3. Offset' = Offset
      BY <1>1 DEF Offset
    <3>4. QED
      BY <3>1, <3>2, <3>3, <2>2, <1>1 DEF LinkInv, QueueInv, Aligned, Sorted
  <2>10. WireInv'
    <3>1. SUFFICES ASSUME NEW m \in wire PROVE InstructionOK(m)'
      BY <1>1 DEF WireInv
    <3>2. InstructionOK(m) /\ m.throwaway_num \in Nat
      BY DEF LinkInv, WireInv, TypeOK, SenderTypeOK, Instruction
    <3>3. m.throwaway_num <= front'.num
      BY <3>2, <2>6, <1>3 DEF InstructionOK
    <3>4. QED
      BY <3>2, <3>3, <1>1 DEF InstructionOK
  <2>11. HeldInv'
    BY <1>1 DEF LinkInv, HeldInv
  <2>12. AckInv'
    <3>1. Holds(received, ack)
      BY <2>6, <1>3 DEF LinkInv, AckInv
    <3>2. \A b \in acks : b >= ack => Holds(received, b)
      <4>1. \A b \in acks : b \in Nat
        BY DEF LinkInv, TypeOK
      <4>2. QED
        BY <4>1, <2>6, <1>3 DEF LinkInv, AckInv
    <3>3. latest' = latest
      BY <1>1 DEF latest, Last
    <3>4. QED
      BY <3>1, <3>2, <3>3, <2>6, <1>1 DEF LinkInv, AckInv, Holds
  <2>13. QED
    BY <2>7, <2>8, <2>9, <2>10, <2>11, <2>12 DEF LinkInv
<1>6. QED
  BY <1>4, <1>5

\* What delivering an instruction of the wire does to the peer's queue.
PeerEffect(inst) ==
  /\ received' \in Seq(HeldState) /\ received' # << >>
  /\ StrictlySorted(received')
  /\ \A i \in 1 .. Len(received') :
       \/ \E j \in 1 .. Len(received) : received'[i] = received[j]
       \/ /\ received'[i].num = inst.new_num
          /\ IsWindow(received'[i].state, Events, typed, 0, content[inst.new_num])
  /\ \A j \in 1 .. Len(received) :
       received[j].num >= inst.throwaway_num => Holds(received', received[j].num)
  /\ \/ latest' = latest /\ peer_ack_num' = peer_ack_num
     \/ /\ latest'.num = inst.new_num /\ latest.num < inst.new_num
        /\ peer_ack_num' = inst.new_num

\* The state an instruction of the wire denotes is the prefix of the stream
\* that its number stands for.
LEMMA NewStateIsPrefix ==
  ASSUME LinkInv, NEW inst \in wire, NEW k \in Seq(HeldState),
         \A i \in 1 .. Len(k) : \E j \in 1 .. Len(received) : k[i] = received[j],
         Holds(k, inst.old_num)
  PROVE  /\ NewState(k, inst) \in HeldState
         /\ NewState(k, inst).num = inst.new_num
         /\ IsWindow(NewState(k, inst).state, Events, typed, 0, content[inst.new_num])
<1> DEFINE r == Reference(k, inst.old_num)
<1>1. r \in 1 .. Len(k) /\ k[r].num = inst.old_num
  BY DEF Holds, Reference
<1> HIDE DEF r
<1>2. PICK j \in 1 .. Len(received) : k[r] = received[j]
  BY <1>1
<1>3. /\ inst.old_num \in DOMAIN content /\ inst.new_num \in DOMAIN content
      /\ inst.old_num <= inst.new_num
      /\ IsWindow(inst.diff, Events, typed, content[inst.old_num], content[inst.new_num])
      /\ inst.new_num \in Nat
  BY Basics DEF LinkInv, WireInv, InstructionOK
<1>4. /\ content[inst.old_num] \in Nat /\ content[inst.new_num] \in Nat
      /\ content[inst.old_num] <= content[inst.new_num]
  BY <1>3, Basics DEF LinkInv, NumberingInv
<1>5. IsWindow(k[r].state, Events, typed, 0, content[inst.old_num])
  BY <1>1, <1>2 DEF LinkInv, HeldInv
<1>6. IsWindow(apply_string(k[r].state, inst.diff), Events, typed, 0, content[inst.new_num])
  BY <1>3, <1>4, <1>5, ApplyToWindow
<1>7. apply_string(k[r].state, inst.diff) \in State
  BY <1>6 DEF IsWindow, State
<1>8. NewState(k, inst) = [num |-> inst.new_num,
                           state |-> apply_string(k[r].state, inst.diff)]
  BY DEF NewState, r
<1>9. QED
  BY <1>3, <1>6, <1>7, <1>8 DEF HeldState

\* Held states are numbered by naturals.
LEMMA HeldNumbers == \A h \in HeldState : h.num \in Nat
BY DEF HeldState

LEMMA PeerReceiveEffect ==
  ASSUME LinkInv, NEW inst \in wire, PeerReceive(inst)
  PROVE  PeerEffect(inst)
<1> DEFINE k == ThrowAwayUntil(received, inst.throwaway_num)
           s == NewState(k, inst)
<1>1. /\ received \in Seq(HeldState) /\ received # << >> /\ StrictlySorted(received)
      /\ \A i \in 1 .. Len(received) : received[i].num \in Nat
      /\ latest = Last(received)
      /\ inst.throwaway_num \in Nat
  BY Basics DEF LinkInv, TypeOK, SenderTypeOK, Instruction, latest
<1>2. CASE UNCHANGED received /\ UNCHANGED peer_ack_num
  BY <1>1, <1>2 DEF PeerEffect, Holds, StrictlySorted, latest, Last
<1>3. ASSUME LeavesSome(received, inst.throwaway_num)
      PROVE  /\ k \in Seq(HeldState) /\ k # << >> /\ StrictlySorted(k)
             /\ Last(k) = latest
             /\ \A i \in 1 .. Len(k) : \E j \in 1 .. Len(received) : k[i] = received[j]
             /\ \A j \in 1 .. Len(received) :
                  received[j].num >= inst.throwaway_num => Holds(k, received[j].num)
  BY <1>1, <1>3, HeldNumbers, ThrowAway
<1>4. CASE Admissible(inst) /\ received' = k /\ UNCHANGED peer_ack_num
  <2>1. LeavesSome(received, inst.throwaway_num)
    BY <1>4 DEF Admissible
  <2> HIDE DEF k
  <2>2. QED
    BY <1>3, <1>4, <2>1 DEF PeerEffect, latest
<1>5. CASE Latest(inst, now) /\ peer_ack_num' = inst.new_num
  <2>1. /\ LeavesSome(received, inst.throwaway_num) /\ Holds(k, inst.old_num)
        /\ Last(k).num < inst.new_num /\ received' = Append(k, s)
    BY <1>5 DEF Latest, Applied, Admissible
  <2>2. /\ s \in HeldState /\ s.num = inst.new_num
        /\ IsWindow(s.state, Events, typed, 0, content[inst.new_num])
    BY <1>3, <2>1, NewStateIsPrefix
  <2> HIDE DEF k, s
  <2>3. /\ Append(k, s) \in Seq(HeldState) /\ Append(k, s) # << >>
        /\ StrictlySorted(Append(k, s))
        /\ Last(Append(k, s)) = s
        /\ \A i \in 1 .. Len(Append(k, s)) :
             Append(k, s)[i] = s \/ \E j \in 1 .. Len(k) : Append(k, s)[i] = k[j]
        /\ \A n : Holds(k, n) => Holds(Append(k, s), n)
    BY <1>3, <2>1, <2>2, HeldNumbers, AppendHeld
  <2>4. /\ received' \in Seq(HeldState) /\ received' # << >>
        /\ StrictlySorted(received')
        /\ Last(received') = s
        /\ \A i \in 1 .. Len(received') :
             received'[i] = s \/ \E j \in 1 .. Len(k) : received'[i] = k[j]
        /\ \A n : Holds(k, n) => Holds(received', n)
    BY <2>1, <2>3
  <2>5. \A i \in 1 .. Len(received') :
          received'[i] = s \/ \E j \in 1 .. Len(received) : received'[i] = received[j]
    BY <2>4, <1>3, <2>1
  <2>6. QED
    BY <1>3, <1>5, <2>1, <2>2, <2>4, <2>5 DEF PeerEffect, latest
<1>6. CASE OutOfOrder(inst, now) /\ UNCHANGED peer_ack_num
  <2>1. /\ LeavesSome(received, inst.throwaway_num) /\ Holds(k, inst.old_num)
        /\ Last(k).num >= inst.new_num
        /\ received' = InsertAt(k, Slot(k, inst.new_num), s)
        /\ ~ Holds(received, inst.new_num)
    BY <1>6 DEF OutOfOrder, Applied, Admissible
  <2>2. /\ s \in HeldState /\ s.num = inst.new_num
        /\ IsWindow(s.state, Events, typed, 0, content[inst.new_num])
    BY <1>3, <2>1, NewStateIsPrefix
  <2>3. ~ Holds(k, inst.new_num)
    <3> HIDE DEF k, s
    <3>1. QED
      BY <1>3, <2>1 DEF Holds
  <2> HIDE DEF k, s
  <2> DEFINE r == InsertAt(k, Slot(k, s.num), s)
  <2>4. /\ r \in Seq(HeldState) /\ r # << >> /\ StrictlySorted(r)
        /\ Last(r) = Last(k)
        /\ \A i \in 1 .. Len(r) : r[i] = s \/ \E j \in 1 .. Len(k) : r[i] = k[j]
        /\ \A n : Holds(k, n) => Holds(r, n)
    BY <1>3, <2>1, <2>2, <2>3, HeldNumbers, InsertHeld
  <2>5. received' = r
    BY <2>1, <2>2
  <2> HIDE DEF r
  <2>6. \A i \in 1 .. Len(received') :
          received'[i] = s \/ \E j \in 1 .. Len(received) : received'[i] = received[j]
    BY <2>4, <2>5, <1>3, <2>1
  <2>7. QED
    BY <1>3, <1>6, <2>1, <2>2, <2>4, <2>5, <2>6 DEF PeerEffect, latest
<1>7. QED
  <2>1. CASE Latest(inst, now) /\ peer_ack_num' = inst.new_num
    BY <2>1, <1>5
  <2>2. CASE Ignored(inst, now) /\ UNCHANGED peer_ack_num
    <3>1. CASE Duplicate(inst)
      BY <3>1, <2>2, <1>2 DEF Duplicate, receiverVars
    <3>2. CASE NoReference(inst)
      BY <3>2, <2>2, <1>2 DEF NoReference, receiverVars
    <3>3. CASE ReferenceThrownAway(inst)
      BY <3>3, <2>2, <1>4 DEF ReferenceThrownAway
    <3>4. CASE Quenched(inst, now)
      BY <3>4, <2>2, <1>4 DEF Quenched
    <3>5. CASE OutOfOrder(inst, now)
      BY <3>5, <2>2, <1>6
    <3>6. QED
      BY <2>2, <3>1, <3>2, <3>3, <3>4, <3>5 DEF Ignored
  <2>3. QED
    BY <2>1, <2>2 DEF PeerReceive

LEMMA PeerReceiveKeepsInv ==
  ASSUME LinkInv, NEW inst \in wire, PeerReceive(inst)
  PROVE  LinkInv'
<1>1. PeerEffect(inst)
  BY PeerReceiveEffect
<1>2. UNCHANGED << current_state, sent_states, assumed_receiver, ack_num, next_ack_time,
                   mindelay_clock, pending_data_ack, shutdown_in_progress,
                   shutdown_tries, shutdown_start, last_heard, wire, now, ended, acks,
                   typed, content >>
  BY DEF PeerReceive, senderVars
<1>3. /\ inst.new_num \in DOMAIN content /\ inst.new_num \in Nat
      /\ inst.throwaway_num \in Nat /\ inst.throwaway_num <= front.num
      /\ front.num \in Nat
  BY Basics DEF LinkInv, WireInv, InstructionOK, TypeOK, SenderTypeOK, Instruction
<1>4. quench_until' \in Nat
  <2>1. quench_until' = quench_until \/ quench_until' = now + QUENCH_WINDOW_MS
    BY DEF PeerReceive, Ignored, Latest, OutOfOrder, Applied, Quenched, Duplicate,
           NoReference, ReferenceThrownAway, receiverVars
  <2>2. QED
    BY <2>1 DEF LinkInv, TypeOK
<1>5. TypeOK'
  <2>1. peer_ack_num' \in Nat
    BY <1>1, <1>3 DEF PeerEffect, LinkInv, TypeOK
  <2>2. SenderTypeOK'
    BY <1>2 DEF LinkInv, TypeOK, SenderTypeOK
  <2>3. QED
    BY <1>1, <1>2, <1>4, <2>1, <2>2 DEF PeerEffect, LinkInv, TypeOK
<1>6. NumberingInv'
  BY <1>2 DEF LinkInv, NumberingInv, back, Last
<1>7. QueueInv'
  BY <1>2 DEF LinkInv, QueueInv, Aligned, Sorted, Offset
<1>8. WireInv'
  BY <1>2 DEF LinkInv, WireInv, InstructionOK, front
<1>9. HeldInv'
  <2>1. ASSUME NEW i \in 1 .. Len(received')
        PROVE  /\ received'[i].num \in DOMAIN content
               /\ IsWindow(received'[i].state, Events, typed, 0,
                           content[received'[i].num])
    <3>1. CASE \E j \in 1 .. Len(received) : received'[i] = received[j]
      BY <3>1 DEF LinkInv, HeldInv
    <3>2. CASE /\ received'[i].num = inst.new_num
               /\ IsWindow(received'[i].state, Events, typed, 0, content[inst.new_num])
      BY <3>2, <1>3
    <3>3. QED
      BY <3>1, <3>2, <1>1 DEF PeerEffect
  <2>2. StrictlySorted(received')
    BY <1>1 DEF PeerEffect
  <2>3. QED
    BY <2>1, <2>2, <1>2 DEF HeldInv, StrictlySorted
<1>10. AckInv'
  <2>1. ASSUME NEW n \in Nat, n >= front.num, Holds(received, n)
        PROVE  Holds(received', n)
    <3>1. PICK j \in 1 .. Len(received) : received[j].num = n
      BY <2>1 DEF Holds
    <3>2. received[j].num >= inst.throwaway_num
      BY <2>1, <3>1, <1>3
    <3>3. QED
      BY <3>1, <3>2, <1>1 DEF PeerEffect
  <2>2. Holds(received', front.num)
    BY <2>1, <1>3 DEF LinkInv, AckInv
  <2>3. \A ack \in acks : ack >= front.num => Holds(received', ack)
    BY <2>1 DEF LinkInv, AckInv, TypeOK
  <2>4. peer_ack_num' = latest'.num
    BY <1>1 DEF PeerEffect, LinkInv, AckInv
  <2>5. front' = front
    BY <1>2 DEF front
  <2>6. QED
    BY <2>2, <2>3, <2>4, <2>5, <1>2 DEF AckInv
<1>11. QED
  BY <1>5, <1>6, <1>7, <1>8, <1>9, <1>10 DEF LinkInv

-----------------------------------------------------------------------------
(* The theorems. *)

LEMMA NextKeepsInv ==
  ASSUME LinkInv, [Next]_vars
  PROVE  LinkInv'
<1>1. CASE Clock
  BY <1>1, ClockKeepsInv
<1>2. CASE \E e \in Events : Type(e)
  BY <1>2, TypeKeepsInv
<1>3. CASE StartShutdown
  BY <1>3, StartShutdownKeepsInv
<1>4. CASE \E rto \in Rtos, si \in SendIntervals : Tick(rto, si)
  BY <1>4, TickKeepsInv
<1>5. CASE \E si \in SendIntervals : WaitTime(si)
  BY <1>5, WaitTimeKeepsInv
<1>6. CASE \E inst \in wire : PeerReceive(inst)
  BY <1>6, PeerReceiveKeepsInv
<1>7. CASE PeerSend
  BY <1>7, PeerSendKeepsInv
<1>8. CASE \E ack \in acks : ClientReceive(ack)
  BY <1>8, ClientReceiveKeepsInv
<1>9. CASE UNCHANGED vars
  <2>1. TypeOK'
    BY <1>9 DEF LinkInv, TypeOK, SenderTypeOK, vars, senderVars, receiverVars, linkVars
  <2>2. QED
    BY <2>1, <1>9, QuietStepKeepsInv DEF vars, senderVars, receiverVars, linkVars
<1>10. QED
  BY <1>1, <1>2, <1>3, <1>4, <1>5, <1>6, <1>7, <1>8, <1>9 DEF Next

\* LinkInv holds in every reachable state: the queues of SspSender and
\* SspReceiver and every instruction in flight describe one common stream.
THEOREM LinkInvariant == Spec => []LinkInv
<1>1. Init => LinkInv
  BY InitHasInv
<1>2. LinkInv /\ [Next]_vars => LinkInv'
  BY NextKeepsInv
<1>3. QED
  BY <1>1, <1>2, PTL DEF Spec

\* Every field keeps its type and neither sent_states nor received is ever
\* empty, so the unwrap() and expect() calls on their ends cannot panic.
THEOREM TypeCorrect == Spec => []TypeOK
<1>1. LinkInv => TypeOK
  BY DEF LinkInv
<1>2. QED
  BY <1>1, LinkInvariant, PTL

\* A stream the peer holds is never anything but the prefix of the user's
\* input that its number stands for.
THEOREM NeverForks == Spec => []StreamsNeverFork
<1>1. LinkInv => StreamsNeverFork
  <2>1. SUFFICES ASSUME LinkInv, NEW i \in 1 .. Len(received)
                 PROVE  /\ received[i].num \in DOMAIN content
                        /\ received[i].state = SubSeq(typed, 1, content[received[i].num])
    BY DEF StreamsNeverFork
  <2> DEFINE c == content[received[i].num]
             p == SubSeq(typed, 1, c)
  <2>2. /\ received[i].num \in DOMAIN content
        /\ IsWindow(received[i].state, Events, typed, 0, c)
    BY <2>1 DEF LinkInv, HeldInv
  <2>3. c \in Nat /\ c <= Len(typed) /\ Len(typed) \in Nat
    BY <2>1, <2>2, Basics
  <2>4. IsWindow(p, Events, typed, 0, c)
    <3> HIDE DEF c
    <3>1. \A j \in 1 .. c : typed[j] \in Events
      BY <2>1, <2>3, ElementOfSeq DEF LinkInv, TypeOK, State
    <3>2. /\ p \in Seq(Events)
          /\ Len(p) = IF 1 <= c THEN c - 1 + 1 ELSE 0
          /\ \A j \in 1 .. c - 1 + 1 : p[j] = typed[1 + j - 1]
      BY <2>3, <3>1, SubSeqProperties
    <3> HIDE DEF p
    <3>3. QED
      BY <2>3, <3>2 DEF IsWindow
  <2> HIDE DEF c, p
  <2>5. received[i].state = p
    BY <2>2, <2>3, <2>4, WindowUnique
  <2>6. QED
    BY <2>2, <2>5 DEF p, c
<1>2. QED
  BY <1>1, LinkInvariant, PTL

\* The base that the sender falls back on for a full resend is always one
\* the peer can apply a diff to.
THEOREM BaseIsHeld == Spec => []KnownReceiverHeld
<1>1. LinkInv => KnownReceiverHeld
  BY DEF LinkInv, AckInv, KnownReceiverHeld
<1>2. QED
  BY <1>1, LinkInvariant, PTL

\* An acknowledged shutdown state is the newest one the peer can hold.
LEMMA AckedShutdownIsAll ==
  ASSUME LinkInv, shutdown_acknowledged
  PROVE  latest.state = typed /\ shutdown_in_progress
<1>1. /\ Len(typed) \in Nat
      /\ Len(received) \in Nat /\ Len(received) >= 1
      /\ \A i \in 1 .. Len(received) : received[i].num \in Nat
      /\ latest = received[Len(received)]
      /\ \A i, j \in 1 .. Len(received) : i < j => received[i].num < received[j].num
  BY Basics DEF StrictlySorted
<1>2. PICK i \in 1 .. Len(received) : received[i].num = SHUTDOWN_NUM
  BY DEF LinkInv, AckInv, Holds, shutdown_acknowledged
<1>3. latest.num >= SHUTDOWN_NUM
  BY <1>1, <1>2
<1>4. /\ latest.num \in DOMAIN content
      /\ IsWindow(latest.state, Events, typed, 0, content[latest.num])
  BY <1>1 DEF LinkInv, HeldInv
<1>5. latest.num <= SHUTDOWN_NUM /\ latest.num \in Nat
  BY <1>1, <1>4 DEF LinkInv, NumberingInv
<1>6. latest.num = SHUTDOWN_NUM
  BY <1>3, <1>5
<1>7. content[latest.num] = Len(typed) /\ shutdown_in_progress
  BY <1>4, <1>6 DEF LinkInv, NumberingInv
<1>8. IsWindow(typed, Events, typed, 0, Len(typed))
  BY <1>1 DEF LinkInv, TypeOK, State, IsWindow
<1>9. QED
  BY <1>1, <1>4, <1>7, <1>8, WindowUnique

\* A shutdown the sender sees acknowledged has delivered every event.
THEOREM ShutdownDelivers == Spec => []ShutdownAckedMeansDelivered
<1>1. LinkInv => ShutdownAckedMeansDelivered
  BY AckedShutdownIsAll DEF ShutdownAckedMeansDelivered
<1>2. QED
  BY <1>1, LinkInvariant, PTL

\* The same of the state after a step.
LEMMA AckedShutdownIsAllNext ==
  (LinkInv /\ shutdown_acknowledged => latest.state = typed /\ shutdown_in_progress)'
<1>1. LinkInv /\ shutdown_acknowledged => latest.state = typed /\ shutdown_in_progress
  BY AckedShutdownIsAll
<1>2. QED
  BY <1>1, PTL

\* How a step may move the head of sent_states: only an ack does, forward.
LEMMA HeadStep ==
  ASSUME LinkInv, [Next]_vars
  PROVE  /\ front'.num >= front.num
         /\ front'.num # front.num => \E ack \in acks : ClientReceive(ack)
<1>1. front.num \in Nat
  BY Basics
<1>2. ASSUME UNCHANGED sent_states PROVE front' = front
  BY <1>2 DEF front
<1>3. CASE \E rto \in Rtos, si \in SendIntervals : Tick(rto, si)
  <2>1. PICK rto \in Rtos, si \in SendIntervals : Tick(rto, si)
    BY <1>3
  <2>2. rto \in Nat /\ si \in Nat /\ now \in Nat /\ tick(now, rto, si)
    BY <2>1 DEF Tick, LinkInv, TypeOK
  <2>3. PICK o \in Nat, n \in Nat : TickEffect(o, n)
    BY <2>2, TickHasEffect
  <2>4. front'.num = front.num
    BY <2>3 DEF TickEffect, front
  <2>5. QED
    BY <2>4, <1>1
<1>4. CASE \E ack \in acks : ClientReceive(ack)
  <2>1. PICK ack \in acks : ClientReceive(ack)
    BY <1>4
  <2>2. LinkInv'
    BY <2>1, ClientReceiveKeepsInv
  <2>3. UNCHANGED << wire, typed >>
    BY <2>1 DEF ClientReceive
  <2>4. CASE UNCHANGED sent_states
    BY <2>4, <1>1, <1>2, <1>4
  <2>5. CASE \E i \in 1 .. Len(sent_states) : sent_states[i].num = ack
    <3> DEFINE n == Len(sent_states)
               C(i) == /\ sent_states[i].num >= ack
                       /\ \A j \in 1 .. i - 1 : sent_states[j].num < ack
               P == {i \in 1 .. n : sent_states[i].num = ack}
               f == CHOOSE i \in 1 .. n : C(i)
    <3>1. /\ n \in Nat /\ n >= 1 /\ sent_states \in Seq(SentState) /\ ack \in Nat
          /\ \A i \in 1 .. n : sent_states[i].num \in Nat
          /\ \A i, j \in 1 .. n : i <= j => sent_states[i].num <= sent_states[j].num
          /\ front = sent_states[1]
      BY Basics DEF LinkInv, TypeOK, QueueInv, Sorted
    <3>2. PICK g \in P : \A j \in 1 .. g - 1 : j \notin P
      <4>1. P # {} /\ P \in SUBSET (1 .. n)
        BY <2>5
      <4> HIDE DEF P
      <4>2. QED
        BY <4>1, <3>1, FirstPosition
    <3>3. f \in 1 .. n /\ C(f)
      <4>1. g \in 1 .. n /\ C(g)
        BY <3>1, <3>2
      <4> HIDE DEF C
      <4>2. QED
        BY <4>1
    <3>4. sent_states' = SubSeq(sent_states, f, n)
      BY <2>1, <2>5 DEF ClientReceive, process_acknowledgment_through
    <3>5. f \in 1 .. n /\ sent_states[f].num = ack
      <4>1. g \in 1 .. n /\ sent_states[g].num = ack
        BY <3>2
      <4> HIDE DEF f
      <4>2. f <= g
        BY <3>1, <3>3, <4>1
      <4>3. QED
        BY <3>1, <3>3, <4>1, <4>2
    <3> HIDE DEF f, C, P
    <3>6. sent_states'[1] = sent_states[f]
      <4>1. \A i \in 1 .. n - f + 1 : sent_states'[i] = sent_states[f + i - 1]
        BY <3>1, <3>4, <3>5, SuffixProperties
      <4>2. 1 \in 1 .. n - f + 1 /\ f + 1 - 1 = f
        BY <3>1, <3>5
      <4>3. QED
        BY <4>1, <4>2
    <3>7. front'.num = ack
      BY <3>5, <3>6 DEF front
    <3>8. sent_states[1].num <= sent_states[f].num
      BY <3>1, <3>5
    <3>9. QED
      BY <3>1, <3>5, <3>7, <3>8, <1>4
  <2>6. QED
    BY <2>1, <2>4, <2>5 DEF ClientReceive, process_acknowledgment_through
<1>5. CASE UNCHANGED sent_states
  BY <1>1, <1>2, <1>5
<1>6. QED
  BY <1>3, <1>4, <1>5 DEF Next, Clock, Type, push, StartShutdown, start_shutdown,
     WaitTime, wait_time, PeerReceive, PeerSend, vars, senderVars

\* A late, duplicated or reordered ack never moves the known receiver state
\* backwards.
THEOREM AckedIsMonotone == Spec => AckedNeverRegresses
<1>1. LinkInv /\ [Next]_vars => [front'.num >= front.num]_vars
  BY HeadStep
<1>2. QED
  BY <1>1, LinkInvariant, PTL DEF Spec, AckedNeverRegresses

\* The fragment id rule is sound: make_fragments looks at the header alone,
\* and the header determines the diff.
THEOREM HeaderRuleIsSound == Spec => []HeaderDeterminesDiff
<1>1. LinkInv => HeaderDeterminesDiff
  <2>1. SUFFICES ASSUME LinkInv, NEW m1 \in wire, NEW m2 \in wire,
                        m1.old_num = m2.old_num, m1.new_num = m2.new_num
                 PROVE  m1.diff = m2.diff
    BY DEF HeaderDeterminesDiff
  <2> DEFINE from == content[m1.old_num]
             upto == content[m1.new_num]
  <2>2. /\ IsWindow(m1.diff, Events, typed, from, upto)
        /\ IsWindow(m2.diff, Events, typed, from, upto)
        /\ from \in Nat /\ upto \in Nat
    BY <2>1 DEF LinkInv, WireInv, InstructionOK, TypeOK
  <2> HIDE DEF from, upto
  <2>3. QED
    BY <2>2, WindowUnique
<1>2. QED
  BY <1>1, LinkInvariant, PTL

\* The newest stream the peer holds only grows, and only by delivery.
LEMMA DeliveryStep ==
  ASSUME LinkInv, NEW inst \in wire, PeerReceive(inst)
  PROVE  \E n \in Len(latest.state) .. Len(typed) :
            latest'.state = SubSeq(typed, 1, n)
<1>1. PeerEffect(inst) /\ LinkInv' /\ UNCHANGED << typed, content >>
  BY PeerReceiveEffect, PeerReceiveKeepsInv DEF PeerReceive
<1>2. /\ latest.num \in DOMAIN content
      /\ IsWindow(latest.state, Events, typed, 0, content[latest.num])
  <2>1. latest = received[Len(received)] /\ Len(received) \in 1 .. Len(received)
    BY Basics
  <2>2. QED
    BY <2>1 DEF LinkInv, HeldInv
<1>3. /\ latest'.num \in DOMAIN content
      /\ IsWindow(latest'.state, Events, typed, 0, content[latest'.num])
  <2>1. Len(received') \in Nat /\ Len(received') >= 1 /\ latest' = received'[Len(received')]
    BY <1>1, NonEmptySeq DEF PeerEffect, latest
  <2>2. QED
    BY <2>1, <1>1 DEF LinkInv, HeldInv
<1>4. /\ content[latest.num] \in Nat /\ content[latest'.num] \in Nat
      /\ content[latest'.num] <= Len(typed) /\ Len(typed) \in Nat
      /\ latest.num \in Nat /\ inst.new_num \in Nat
  BY <1>2, <1>3, Basics DEF LinkInv, TypeOK, SenderTypeOK, Instruction
<1>5. content[latest.num] <= content[latest'.num]
  <2>1. CASE latest' = latest
    BY <2>1, <1>4
  <2>2. CASE latest'.num = inst.new_num /\ latest.num < inst.new_num
    BY <2>2, <1>2, <1>3, <1>4 DEF LinkInv, NumberingInv
  <2>3. QED
    BY <2>1, <2>2, <1>1 DEF PeerEffect
<1> DEFINE c == content[latest'.num]
           p == SubSeq(typed, 1, c)
<1>6. Len(latest.state) = content[latest.num]
  BY <1>2, <1>4 DEF IsWindow
<1>7. c \in Len(latest.state) .. Len(typed)
  BY <1>4, <1>5, <1>6
<1>8. IsWindow(p, Events, typed, 0, c)
  <2>1. c \in Nat /\ c <= Len(typed)
    BY <1>4
  <2> HIDE DEF c
  <2>2. \A j \in 1 .. c : typed[j] \in Events
    BY <2>1, <1>4, ElementOfSeq DEF LinkInv, TypeOK, State
  <2>3. /\ p \in Seq(Events)
        /\ Len(p) = IF 1 <= c THEN c - 1 + 1 ELSE 0
        /\ \A j \in 1 .. c - 1 + 1 : p[j] = typed[1 + j - 1]
    BY <2>1, <2>2, SubSeqProperties
  <2> HIDE DEF p
  <2>4. QED
    BY <2>1, <2>3 DEF IsWindow
<1>9. latest'.state = p
  <2>1. c \in Nat /\ IsWindow(latest'.state, Events, typed, 0, c)
    BY <1>3, <1>4
  <2> HIDE DEF c, p
  <2>2. QED
    BY <2>1, <1>8, WindowUnique
<1>10. QED
  BY <1>7, <1>9

\* The link implements StreamSync: to the layers above, the numbered states,
\* diffs, culls, retransmissions and acks are one growing prefix of what the
\* user entered, confirmed complete only when it is.
THEOREM LinkImplementsStreamSync == Spec => ImplementsStreamSync
<1>1. Init => Sync!Init
  <2>1. SUFFICES ASSUME Init PROVE Sync!Init
    OBVIOUS
  <2> DEFINE s0 == [timestamp |-> 0, num |-> 0, state |-> << >>]
             h0 == [num |-> 0, state |-> << >>]
  <2>2. /\ typed = << >> /\ shutdown_in_progress = FALSE
        /\ sent_states = << s0 >> /\ received = << h0 >>
    BY <2>1 DEF Init, SenderInit, ReceiverInit
  <2>3. front = s0 /\ latest = h0
    <3> HIDE DEF s0, h0
    <3>1. QED
      BY <2>2 DEF front, latest, Last
  <2>4. latest.state = << >> /\ front.num = 0
    BY <2>3
  <2>5. SHUTDOWN_NUM # 0
    BY QueueAssumption
  <2>6. shutdown_acknowledged = FALSE
    BY <2>4, <2>5 DEF shutdown_acknowledged
  <2>7. QED
    BY <2>2, <2>4, <2>6 DEF Sync!Init
<1>2. LinkInv /\ [Next]_vars => [Sync!Next]_(Sync!syncVars)
  <2>1. SUFFICES ASSUME LinkInv, [Next]_vars
                 PROVE  Sync!Next \/ UNCHANGED Sync!syncVars
    BY DEF Sync!Next
  <2>2. CASE \E e \in Events : Type(e)
    <3>1. /\ ~ shutdown_in_progress /\ \E e \in Events : typed' = Append(typed, e)
          /\ UNCHANGED << received, shutdown_in_progress, sent_states >>
      BY <2>2 DEF Type, push, receiverVars
    <3>2. UNCHANGED << latest.state, shutdown_in_progress, shutdown_acknowledged >>
      BY <3>1 DEF latest, Last, shutdown_acknowledged, front
    <3>3. Sync!Enter
      BY <3>1, <3>2 DEF Sync!Enter
    <3>4. QED
      BY <3>3 DEF Sync!Next
  <2>3. CASE StartShutdown
    <3>1. /\ shutdown_in_progress' = TRUE
          /\ UNCHANGED << typed, received, sent_states >>
      BY <2>3 DEF StartShutdown, start_shutdown, receiverVars, linkVars
    <3>2. UNCHANGED << typed, latest.state, shutdown_acknowledged >>
      BY <3>1 DEF latest, Last, shutdown_acknowledged, front
    <3>3. Sync!Seal
      BY <3>1, <3>2 DEF Sync!Seal
    <3>4. QED
      BY <3>3 DEF Sync!Next
  <2>4. CASE \E inst \in wire : PeerReceive(inst)
    <3>1. PICK inst \in wire : PeerReceive(inst)
      BY <2>4
    <3>2. UNCHANGED << typed, shutdown_in_progress, sent_states >>
      BY <3>1 DEF PeerReceive, senderVars
    <3>3. UNCHANGED << typed, shutdown_in_progress, shutdown_acknowledged >>
      BY <3>2 DEF shutdown_acknowledged, front
    <3>4. \E n \in Len(latest.state) .. Len(typed) :
             latest'.state = SubSeq(typed, 1, n)
      BY <2>1, <3>1, DeliveryStep
    <3>5. Sync!Deliver
      BY <3>3, <3>4 DEF Sync!Deliver
    <3>6. QED
      BY <3>5 DEF Sync!Next
  <2>5. CASE \E ack \in acks : ClientReceive(ack)
    <3>1. UNCHANGED << typed, received, shutdown_in_progress >>
      BY <2>5 DEF ClientReceive, receiverVars
    <3>2. UNCHANGED << typed, latest.state, shutdown_in_progress >>
      BY <3>1 DEF latest, Last
    <3>3. LinkInv'
      BY <2>1, NextKeepsInv
    <3>4. CASE shutdown_acknowledged'
      <4>1. latest'.state = typed' /\ shutdown_in_progress'
        BY <3>3, <3>4, AckedShutdownIsAllNext
      <4>2. shutdown_in_progress /\ latest.state = typed
        BY <4>1, <3>2
      <4>3. shutdown_acknowledged' = TRUE
        BY <3>4 DEF shutdown_acknowledged
      <4>4. Sync!Finish
        BY <4>2, <4>3, <3>2 DEF Sync!Finish
      <4>5. QED
        BY <4>4 DEF Sync!Next
    <3>5. CASE ~ shutdown_acknowledged'
      <4>1. ~ shutdown_acknowledged
        <5>1. /\ \A n \in DOMAIN content : n <= SHUTDOWN_NUM
              /\ front'.num \in DOMAIN content' /\ content' = content
          <6>1. front' = sent_states'[1] /\ 1 \in 1 .. Len(sent_states')
            <7>1. sent_states' \in Seq(SentState) /\ sent_states' # << >>
              BY <3>3 DEF LinkInv, TypeOK, SenderTypeOK
            <7>2. QED
              BY <7>1, NonEmptySeq DEF front
          <6>2. front'.num \in DOMAIN content'
            BY <6>1, <3>3 DEF LinkInv, QueueInv, Aligned
          <6>3. content' = content
            BY <2>5 DEF ClientReceive
          <6>4. QED
            BY <6>2, <6>3, <2>1 DEF LinkInv, NumberingInv
        <5>2. front'.num >= front.num /\ front.num \in Nat /\ front'.num \in Nat
          BY <2>1, <5>1, HeadStep, Basics
        <5>3. front'.num # SHUTDOWN_NUM
          BY <3>5 DEF shutdown_acknowledged
        <5>4. QED
          BY <5>1, <5>2, <5>3 DEF shutdown_acknowledged
      <4>2. UNCHANGED shutdown_acknowledged
        BY <4>1, <3>5 DEF shutdown_acknowledged
      <4>3. QED
        BY <4>2, <3>2 DEF Sync!syncVars
    <3>6. QED
      BY <3>4, <3>5
  <2>6. CASE UNCHANGED << typed, received, shutdown_in_progress >>
             /\ ~ \E ack \in acks : ClientReceive(ack)
    <3>1. front'.num = front.num
      BY <2>1, <2>6, HeadStep
    <3>2. UNCHANGED << typed, latest.state, shutdown_in_progress, shutdown_acknowledged >>
      BY <3>1, <2>6 DEF latest, Last, shutdown_acknowledged
    <3>3. QED
      BY <3>2 DEF Sync!syncVars
  <2>7. CASE \E rto \in Rtos, si \in SendIntervals : Tick(rto, si)
    <3>1. UNCHANGED << typed, received >>
      BY <2>7 DEF Tick, receiverVars
    <3>2. UNCHANGED shutdown_in_progress
      BY <2>7 DEF Tick, tick, TickSilent, TickEmptyAck, TickSend
    <3>3. QED
      BY <3>1, <3>2, <2>5, <2>6
  <2>8. CASE Clock \/ PeerSend \/ UNCHANGED vars
              \/ \E si \in SendIntervals : WaitTime(si)
    <3>1. UNCHANGED << typed, received, shutdown_in_progress >>
      BY <2>8 DEF Clock, PeerSend, WaitTime, wait_time, vars, senderVars, receiverVars,
                  linkVars
    <3>2. QED
      BY <3>1, <2>5, <2>6
  <2>9. QED
    BY <2>1, <2>2, <2>3, <2>4, <2>5, <2>7, <2>8 DEF Next
<1>3. QED
  BY <1>1, <1>2, LinkInvariant, PTL DEF Spec, ImplementsStreamSync, Sync!Spec

-----------------------------------------------------------------------------
(* The times in the queue. *)

\* The queue is in the order of its timestamps, none of them later than t.
InOrder(q, t) ==
  /\ \A i \in 1 .. Len(q) : q[i].timestamp <= t
  /\ \A i, j \in 1 .. Len(q) : i <= j => q[i].timestamp <= q[j].timestamp

\* TimesInv: the inductive invariant behind the timers of tick.
TimesInv == InOrder(sent_states, now)

\* In an ordered queue the walk of update_assumed_receiver_state stops at once or
\* not at all.
LEMMA WalkIsAllOrNothing ==
  ASSUME TypeOK, NEW t \in Nat, NEW rto \in Nat, InOrder(sent_states, t)
  PROVE  LET w == update_assumed_receiver_state(t, rto)
             n == Len(sent_states)
         IN  /\ w \in {1, n}
             /\ w # 1 => t - sent_states[n].timestamp < rto + ACK_DELAY_MS
<1> DEFINE n == Len(sent_states)
           fresh(j) == t - sent_states[j].timestamp < rto + ACK_DELAY_MS
           Stops(i) == (\A j \in 2 .. i : fresh(j)) /\ (i < n => ~ fresh(i + 1))
           w == CHOOSE i \in 1 .. n : Stops(i)
<1>1. /\ n \in Nat /\ n >= 1
      /\ \A i \in 1 .. n : sent_states[i].timestamp \in Nat
  <2>1. n \in Nat /\ n >= 1 /\ \A i \in 1 .. n : sent_states[i] \in SentState
    BY NonEmptySeq DEF TypeOK, SenderTypeOK
  <2>2. QED
    BY <2>1 DEF SentState
<1>2. \A i, j \in 1 .. n : i <= j /\ fresh(i) => fresh(j)
  <2>1. \A i, j \in 1 .. n : i <= j => sent_states[i].timestamp <= sent_states[j].timestamp
    BY DEF InOrder
  <2> HIDE DEF n
  <2>2. QED
    BY <1>1, <2>1
<1>3. update_assumed_receiver_state(t, rto) = w
  BY DEF update_assumed_receiver_state
<1> HIDE DEF n
<1>4. \E i \in {1, n} : i \in 1 .. n /\ Stops(i)
  <2>1. CASE n = 1 \/ ~ fresh(2)
    <3> HIDE DEF fresh
    <3>1. Stops(1) /\ 1 \in 1 .. n
      BY <1>1, <2>1
    <3>2. QED
      BY <3>1
  <2>2. CASE n # 1 /\ fresh(2)
    <3>1. \A j \in 2 .. n : fresh(j)
      <4> HIDE DEF fresh
      <4>1. \A j \in 2 .. n : j \in 1 .. n /\ 2 \in 1 .. n /\ 2 <= j
        BY <1>1, <2>2
      <4>2. QED
        BY <1>2, <2>2, <4>1
    <3> HIDE DEF fresh
    <3>2. Stops(n) /\ n \in 1 .. n
      BY <1>1, <3>1
    <3>3. QED
      BY <3>2
  <2>3. QED
    BY <2>1, <2>2
<1>5. w \in 1 .. n /\ Stops(w)
  <2> HIDE DEF Stops
  <2>1. QED
    BY <1>4
<1> HIDE DEF w
<1>6. CASE w = 1
  BY <1>3, <1>6 DEF n
<1>7. CASE w # 1
  <2>1. w \in 2 .. w /\ w \in 1 .. n
    BY <1>1, <1>5, <1>7
  <2>2. fresh(w)
    <3> HIDE DEF fresh
    <3>1. QED
      BY <1>5, <2>1
  <2>3. fresh(n)
    <3> HIDE DEF fresh
    <3>1. n \in 1 .. n /\ w <= n
      BY <1>1, <2>1
    <3>2. QED
      BY <1>2, <2>1, <2>2, <3>1
  <2>4. w = n
    <3>1. SUFFICES ASSUME w < n PROVE FALSE
      BY <1>1, <2>1
    <3> HIDE DEF fresh
    <3>2. w + 1 \in 1 .. n /\ w <= w + 1
      BY <1>1, <2>1, <3>1
    <3>3. fresh(w + 1)
      BY <1>2, <2>1, <2>2, <3>2
    <3>4. QED
      BY <1>5, <3>1, <3>3
  <2>5. QED
    BY <1>3, <2>3, <2>4 DEF n
<1>8. QED
  BY <1>6, <1>7

\* add_sent_state keeps the order, and an assumed state at either end survives a
\* cull: it is not the one erased, and the index still names it.
LEMMA AddKeepsOrder ==
  ASSUME NEW q \in Seq(SentState), Len(q) >= 1, NEW entry \in SentState,
         NEW t \in Nat, InOrder(q, t), entry.timestamp = t
  PROVE  /\ InOrder(add_sent_state(q, entry), t)
         /\ Len(q) >= SENT_QUEUE_CAP => \A a \in {1, Len(q)} :
              /\ a # CullIndex(Append(q, entry))
              /\ add_sent_state(q, entry)[AssumedAfterCull(q, a)] = q[a]
<1> DEFINE n == Len(q)
           p == Append(q, entry)
           r == add_sent_state(q, entry)
           k == CullIndex(p)
<1>1. n \in Nat /\ \A i \in 1 .. n : q[i].timestamp \in Nat
  <2>1. n \in Nat /\ \A i \in 1 .. n : q[i] \in SentState
    BY LenProperties, ElementOfSeq
  <2>2. QED
    BY <2>1 DEF SentState
<1>2. /\ p \in Seq(SentState) /\ Len(p) = n + 1
      /\ \A i \in 1 .. n : p[i] = q[i]
      /\ p[n + 1] = entry
  BY AppendProperties
<1>3. /\ \A i \in 1 .. n : q[i].timestamp <= t
      /\ \A i, j \in 1 .. n : i <= j => q[i].timestamp <= q[j].timestamp
  BY DEF InOrder
<1> HIDE DEF p, n
<1>4. /\ \A i \in 1 .. n + 1 : p[i].timestamp <= t
      /\ \A i, j \in 1 .. n + 1 : i <= j => p[i].timestamp <= p[j].timestamp
  <2> DEFINE at(i) == p[i].timestamp
  <2>1. \A i \in 1 .. n + 1 : i \in 1 .. n \/ i = n + 1
    BY <1>1
  <2>2. at(n + 1) = t /\ \A i \in 1 .. n : at(i) = q[i].timestamp
    BY <1>2
  <2>3. \A i \in 1 .. n + 1 : at(i) <= t
    BY <1>3, <2>1, <2>2
  <2>4. ASSUME NEW i \in 1 .. n + 1, NEW j \in 1 .. n + 1, i <= j
        PROVE  at(i) <= at(j)
    <3>1. CASE j = n + 1
      BY <2>2, <2>3, <3>1
    <3>2. CASE j # n + 1
      <4>1. i \in 1 .. n /\ j \in 1 .. n
        BY <1>1, <2>4, <3>2
      <4>2. QED
        BY <1>3, <2>2, <2>4, <4>1
    <3>3. QED
      BY <3>1, <3>2
  <2>5. QED
    BY <2>3, <2>4
<1>5. CASE ~ (n + 1 > SENT_QUEUE_CAP)
  <2>1. r = p /\ ~ (n >= SENT_QUEUE_CAP)
    BY <1>1, <1>2, <1>5 DEF add_sent_state, p
  <2> HIDE DEF r
  <2>2. InOrder(r, t)
    BY <1>2, <1>4, <2>1 DEF InOrder
  <2>3. QED
    BY <2>1, <2>2 DEF r, n
<1>6. CASE n + 1 > SENT_QUEUE_CAP
  <2>1. r = RemoveAt(p, k)
    BY <1>2, <1>6 DEF add_sent_state, p
  <2>2. k = n + 1 - CULL_FROM_END + 1 /\ k \in 2 .. n - 1
    BY <1>1, <1>2, <1>6 DEF CullIndex
  <2>3. Len(r) = n /\ \A i \in 1 .. n : r[i] = IF i < k THEN p[i] ELSE p[i + 1]
    <3>1. k \in 1 .. Len(p)
      BY <2>2, <1>2, <1>1
    <3> HIDE DEF k, r
    <3>2. /\ Len(RemoveAt(p, k)) = Len(p) - 1
          /\ \A i \in 1 .. Len(p) - 1 :
               RemoveAt(p, k)[i] = IF i < k THEN p[i] ELSE p[i + 1]
      BY <3>1, <1>2, RemoveAtProperties
    <3>3. Len(p) - 1 = n
      BY <1>1, <1>2
    <3>4. QED
      BY <2>1, <3>2, <3>3
  <2>4. AssumedAfterCull(q, 1) = 1 /\ AssumedAfterCull(q, n) = n - 1
    BY <1>1, <1>6, <2>2 DEF AssumedAfterCull, n
  <2> HIDE DEF r, k
  <2> DEFINE from(i) == IF i < k THEN i ELSE i + 1
  <2>5. /\ \A i \in 1 .. n : from(i) \in 1 .. n + 1 /\ r[i] = p[from(i)]
        /\ \A i, j \in 1 .. n : i <= j => from(i) <= from(j)
    <3>1. \A i \in 1 .. n : from(i) \in 1 .. n + 1
      BY <1>1, <2>2
    <3>2. \A i, j \in 1 .. n : i <= j => from(i) <= from(j)
      BY <1>1, <2>2
    <3>3. \A i \in 1 .. n : r[i] = p[from(i)]
      BY <2>3
    <3>4. QED
      BY <3>1, <3>2, <3>3
  <2> HIDE DEF from
  <2>6. InOrder(r, t)
    BY <1>4, <2>3, <2>5 DEF InOrder
  <2>7. r[1] = q[1] /\ r[n - 1] = q[n] /\ k # 1 /\ k # n
    <3>1. 1 \in 1 .. n /\ n - 1 \in 1 .. n /\ 1 < k /\ ~ (n - 1 < k) /\ (n - 1) + 1 = n
          /\ n \in 1 .. n /\ k # n
      BY <1>1, <2>2
    <3>2. QED
      BY <1>2, <2>3, <3>1
  <2>8. QED
    BY <2>4, <2>6, <2>7 DEF r, n, k, p
<1>7. QED
  BY <1>5, <1>6

\* A tick keeps the order, whichever of its outcomes.
LEMMA TickKeepsOrder ==
  ASSUME LinkInv, TimesInv, NEW t \in Nat, t = now, NEW rto \in Nat, NEW si \in Nat,
         tick(t, rto, si)
  PROVE  InOrder(sent_states', t)
<1> DEFINE cur == Rationalized(current_state)
           q   == RationalizedQueue
<1>1. /\ q \in Seq(SentState) /\ q # << >> /\ Len(q) \in Nat /\ Len(q) >= 1
      /\ Len(q) = Len(sent_states) /\ Last(q) = q[Len(q)]
      /\ \A i \in 1 .. Len(q) : q[i] \in SentState
  BY TickInputs DEF LinkInv
<1>2. \A i \in 1 .. Len(q) : q[i].timestamp = sent_states[i].timestamp
  BY <1>1, RationalizeKeepsAlignment DEF LinkInv
<1>3. cur \in State
  <2>1. PICK o \in Nat : Aligned(cur, q, o)
    BY TickInputs DEF LinkInv
  <2> HIDE DEF cur, q
  <2>2. QED
    BY <2>1 DEF Aligned, IsWindow, State
<1>4. Last(q).num \in Nat /\ SHUTDOWN_NUM \in Nat
  BY <1>1, Basics, TickInputs DEF LinkInv
<1>5. CASE TickSilent(t, rto, si)
  <2>1. sent_states' = q
    BY <1>5 DEF TickSilent
  <2> HIDE DEF q, cur
  <2>2. InOrder(q, t)
    BY <1>1, <1>2 DEF TimesInv, InOrder
  <2>3. QED
    BY <2>1, <2>2
<1>6. CASE TickEmptyAck(t, rto, si)
  <2> DEFINE n == IF shutdown_in_progress THEN SHUTDOWN_NUM ELSE Last(q).num + 1
             entry == [timestamp |-> t, num |-> n, state |-> cur]
  <2>1. sent_states' = add_sent_state(q, entry)
    BY <1>6 DEF TickEmptyAck
  <2> HIDE DEF q, cur
  <2>2. n \in Nat
    BY <1>4
  <2> HIDE DEF n
  <2>3. entry \in SentState /\ entry.timestamp = t
    BY <1>3, <2>2 DEF SentState
  <2> HIDE DEF entry
  <2>4. InOrder(q, t)
    BY <1>1, <1>2 DEF TimesInv, InOrder
  <2>5. InOrder(add_sent_state(q, entry), t)
    BY <1>1, <2>3, <2>4, AddKeepsOrder
  <2>6. QED
    BY <2>1, <2>5
<1>7. CASE TickSend(t, rto, si)
  <2> DEFINE n == IF shutdown_in_progress THEN SHUTDOWN_NUM
                  ELSE IF cur = Last(q).state THEN Last(q).num
                                              ELSE Last(q).num + 1
             entry == [timestamp |-> t, num |-> n, state |-> cur]
             last == [q[Len(q)] EXCEPT !.timestamp = t]
  <2>1. \/ sent_states' = add_sent_state(q, entry)
        \/ sent_states' = [q EXCEPT ![Len(q)] = last]
    BY <1>7 DEF TickSend
  <2> HIDE DEF q, cur
  <2>2. n \in Nat
    BY <1>4
  <2> HIDE DEF n
  <2>3. entry \in SentState /\ entry.timestamp = t
    BY <1>3, <2>2 DEF SentState
  <2>4. last \in SentState /\ last.timestamp = t
    <3>1. q[Len(q)] \in SentState
      BY <1>1
    <3>2. QED
      BY <3>1 DEF SentState
  <2> HIDE DEF entry, last
  <2>5. InOrder(q, t)
    BY <1>1, <1>2 DEF TimesInv, InOrder
  <2>6. CASE sent_states' = add_sent_state(q, entry)
    <3>1. InOrder(add_sent_state(q, entry), t)
      BY <1>1, <2>3, <2>5, AddKeepsOrder
    <3>2. QED
      BY <2>6, <3>1
  <2>7. CASE sent_states' = [q EXCEPT ![Len(q)] = last]
    <3>1. /\ Len(sent_states') = Len(q)
          /\ \A j \in 1 .. Len(q) : sent_states'[j] = IF j = Len(q) THEN last ELSE q[j]
      <4>1. Len(q) \in 1 .. Len(q)
        BY <1>1
      <4>2. QED
        BY <1>1, <2>4, <2>7, <4>1, ExceptSeq
    <3>2. \A j \in 1 .. Len(q) :
            sent_states'[j].timestamp = IF j = Len(q) THEN t ELSE q[j].timestamp
      BY <2>4, <3>1
    <3>3. InOrder(sent_states', t)
      <4>1. /\ \A i \in 1 .. Len(q) : q[i].timestamp <= t
            /\ \A i, j \in 1 .. Len(q) : i <= j => q[i].timestamp <= q[j].timestamp
        BY <2>5 DEF InOrder
      <4>2. ASSUME NEW i \in 1 .. Len(q), NEW j \in 1 .. Len(q), i <= j
            PROVE  sent_states'[i].timestamp <= sent_states'[j].timestamp
        <5>1. CASE j = Len(q)
          BY <3>2, <4>1, <5>1
        <5>2. CASE j # Len(q)
          <6>1. i # Len(q)
            BY <1>1, <4>2, <5>2
          <6>2. QED
            BY <3>2, <4>1, <4>2, <5>2, <6>1
        <5>3. QED
          BY <5>1, <5>2
      <4>3. \A i \in 1 .. Len(q) : sent_states'[i].timestamp <= t
        BY <3>2, <4>1
      <4>4. QED
        BY <3>1, <4>2, <4>3 DEF InOrder
    <3>4. QED
      BY <3>3
  <2>8. QED
    BY <2>1, <2>6, <2>7
<1>8. QED
  BY <1>5, <1>6, <1>7 DEF tick

\* An ack keeps a suffix of the queue.
LEMMA AckKeepsOrder ==
  ASSUME LinkInv, TimesInv, NEW ack \in acks, ClientReceive(ack)
  PROVE  InOrder(sent_states', now)
<1> DEFINE n == Len(sent_states)
           C(i) == /\ sent_states[i].num >= ack
                   /\ \A j \in 1 .. i - 1 : sent_states[j].num < ack
           P == {i \in 1 .. n : sent_states[i].num = ack}
           f == CHOOSE i \in 1 .. n : C(i)
<1>1. /\ n \in Nat /\ n >= 1 /\ sent_states \in Seq(SentState) /\ ack \in Nat
      /\ \A i \in 1 .. n : sent_states[i].num \in Nat
      /\ \A i, j \in 1 .. n : i <= j => sent_states[i].num <= sent_states[j].num
  BY Basics DEF LinkInv, TypeOK, SenderTypeOK, QueueInv, Sorted
<1>2. CASE ~ \E i \in 1 .. n : sent_states[i].num = ack
  <2>1. sent_states' = sent_states
    BY <1>2 DEF ClientReceive, process_acknowledgment_through
  <2>2. QED
    BY <2>1 DEF TimesInv
<1>3. CASE \E i \in 1 .. n : sent_states[i].num = ack
  <2>1. PICK g \in P : \A j \in 1 .. g - 1 : j \notin P
    <3>1. P # {} /\ P \in SUBSET (1 .. n)
      BY <1>3
    <3> HIDE DEF P
    <3>2. QED
      BY <1>1, <3>1, FirstPosition
  <2>2. f \in 1 .. n
    <3>1. g \in 1 .. n /\ C(g)
      BY <1>1, <2>1
    <3> HIDE DEF C
    <3>2. QED
      BY <3>1
  <2> DEFINE kept == SubSeq(sent_states, f, n)
  <2>3. sent_states' = kept
    BY <1>3 DEF ClientReceive, process_acknowledgment_through
  <2> HIDE DEF f, P
  <2>4. /\ Len(kept) = n - f + 1
        /\ \A i \in 1 .. n - f + 1 : kept[i] = sent_states[f + i - 1]
    BY <1>1, <2>2, SuffixProperties
  <2> HIDE DEF kept
  <2>5. InOrder(kept, now)
    <3>1. /\ \A i \in 1 .. n : sent_states[i].timestamp <= now
          /\ \A i, j \in 1 .. n : i <= j => sent_states[i].timestamp <= sent_states[j].timestamp
      BY DEF TimesInv, InOrder
    <3> HIDE DEF n
    <3>2. /\ \A i \in 1 .. n - f + 1 : f + i - 1 \in 1 .. n
          /\ \A i, j \in 1 .. n - f + 1 : i <= j => f + i - 1 <= f + j - 1
      BY <1>1, <2>2
    <3>3. QED
      BY <2>4, <3>1, <3>2 DEF InOrder
  <2>6. QED
    BY <2>3, <2>5
<1>4. QED
  BY <1>2, <1>3

LEMMA NextKeepsTimes ==
  ASSUME LinkInv, TimesInv, [Next]_vars
  PROVE  TimesInv'
<1>1. /\ now \in Nat
      /\ \A i \in 1 .. Len(sent_states) : sent_states[i].timestamp \in Nat
  <2>1. now \in Nat /\ \A i \in 1 .. Len(sent_states) : sent_states[i] \in SentState
    BY NonEmptySeq DEF LinkInv, TypeOK, SenderTypeOK
  <2>2. QED
    BY <2>1 DEF SentState
<1>2. CASE \E rto \in Rtos, si \in SendIntervals : Tick(rto, si)
  <2>1. PICK rto \in Rtos, si \in SendIntervals : Tick(rto, si)
    BY <1>2
  <2>2. rto \in Nat /\ si \in Nat /\ tick(now, rto, si) /\ now' = now
    BY <2>1 DEF Tick
  <2>3. QED
    BY <1>1, <2>2, TickKeepsOrder DEF TimesInv
<1>3. CASE \E ack \in acks : ClientReceive(ack)
  <2>1. PICK ack \in acks : ClientReceive(ack)
    BY <1>3
  <2>2. now' = now
    BY <2>1 DEF ClientReceive
  <2>3. QED
    BY <2>1, <2>2, AckKeepsOrder DEF TimesInv
<1>4. CASE sent_states' = sent_states /\ now' \in {now, now + 1}
  <2>1. sent_states' = sent_states /\ now <= now'
    BY <1>1, <1>4
  <2>2. \A i \in 1 .. Len(sent_states) : sent_states[i].timestamp <= now'
    BY <1>1, <1>4 DEF TimesInv, InOrder
  <2>3. QED
    BY <2>1, <2>2 DEF TimesInv, InOrder
<1>5. QED
  BY <1>2, <1>3, <1>4 DEF Next, Clock, Type, push, StartShutdown, start_shutdown,
     WaitTime, wait_time, PeerReceive, PeerSend, vars, senderVars, linkVars

\* TimesInv holds in every reachable state: sends, resends, culls and acks leave
\* the queue in the order in which its states were last sent.
THEOREM TimesInvariant == Spec => []TimesInv
<1>1. Init => TimesInv
  <2> SUFFICES ASSUME Init PROVE TimesInv
    OBVIOUS
  <2>1. Len(sent_states) = 1 /\ sent_states[1].timestamp = 0 /\ now = 0
    BY DEF Init, SenderInit
  <2>2. QED
    BY <2>1 DEF TimesInv, InOrder
<1>2. QED
  BY <1>1, LinkInvariant, NextKeepsTimes, PTL DEF Spec

\* The comment in add_sent_state is right: the cull from the middle never takes
\* the state that the diff being sent starts from, the state that the peer is
\* assumed to hold, and leaves the assumed index naming it.
THEOREM CullSparesAssumed == Spec => []AssumedSurvivesCull
<1>1. LinkInv /\ TimesInv => AssumedSurvivesCull
  <2> SUFFICES ASSUME LinkInv, TimesInv PROVE AssumedSurvivesCull
    OBVIOUS
  <2> DEFINE cur == Rationalized(current_state)
             q   == RationalizedQueue
             entry == [timestamp |-> now, num |-> back.num + 1, state |-> cur]
  <2>1. SUFFICES ASSUME NEW rto \in Rtos, Len(q) >= SENT_QUEUE_CAP
                 PROVE  LET a == ResendBase(cur, q, update_assumed_receiver_state(now, rto))
                        IN  /\ a # CullIndex(Append(q, entry))
                            /\ add_sent_state(q, entry)[AssumedAfterCull(q, a)] = q[a]
    BY DEF AssumedSurvivesCull
  <2> DEFINE w == update_assumed_receiver_state(now, rto)
             a == ResendBase(cur, q, w)
  <2>2. /\ q \in Seq(SentState) /\ Len(q) >= 1 /\ Len(q) = Len(sent_states)
        /\ now \in Nat /\ rto \in Nat /\ back.num \in Nat
    BY TickInputs, Basics DEF LinkInv, TypeOK
  <2>3. cur \in State
    <3>1. PICK o \in Nat : Aligned(cur, q, o)
      BY TickInputs DEF LinkInv
    <3> HIDE DEF cur, q
    <3>2. QED
      BY <3>1 DEF Aligned, IsWindow, State
  <2>4. InOrder(q, now)
    <3>1. \A i \in 1 .. Len(q) : q[i].timestamp = sent_states[i].timestamp
      BY <2>2, RationalizeKeepsAlignment DEF LinkInv
    <3> HIDE DEF q
    <3>2. QED
      BY <2>2, <3>1 DEF TimesInv, InOrder
  <2>5. w \in {1, Len(q)}
    BY <2>2, WalkIsAllOrNothing DEF LinkInv, TimesInv
  <2> HIDE DEF cur, q, w
  <2>6. a \in {1, Len(q)}
    BY <2>5 DEF ResendBase
  <2>7. entry \in SentState /\ entry.timestamp = now
    BY <2>2, <2>3 DEF SentState
  <2> HIDE DEF a, entry
  <2>8. a # CullIndex(Append(q, entry)) /\ add_sent_state(q, entry)[AssumedAfterCull(q, a)] = q[a]
    BY <2>1, <2>2, <2>4, <2>6, <2>7, AddKeepsOrder
  <2>9. QED
    BY <2>8 DEF a, w
<1>2. QED
  BY <1>1, LinkInvariant, TimesInvariant, PTL

\* In the diff of a frame that compute_timers finds due, there is news: its base
\* falls short of the live stream.
LEMMA DueFrameFallsShort ==
  ASSUME LinkInv, TimesInv, NEW rto \in Nat, NEW si \in Nat,
         DueSend(Rationalized(current_state), RationalizedQueue,
                 update_assumed_receiver_state(now, rto), now, rto, si)
  PROVE  LET cur == Rationalized(current_state)
             q   == RationalizedQueue
             w   == update_assumed_receiver_state(now, rto)
         IN  cur # q[ResendBase(cur, q, w)].state
<1> DEFINE cur == Rationalized(current_state)
           q   == RationalizedQueue
           w   == update_assumed_receiver_state(now, rto)
           a   == ResendBase(cur, q, w)
           n   == Len(q)
           upto(i) == content[q[i].num]
<1>1. /\ n \in Nat /\ n >= 1 /\ n = Len(sent_states) /\ Last(q) = q[n]
      /\ w \in 1 .. n /\ Len(typed) \in Nat
      /\ \A i \in 1 .. n : /\ q[i] \in SentState /\ q[i].num \in DOMAIN content
                           /\ upto(i) \in Nat /\ upto(i) <= Len(typed)
      /\ \A i, j \in 1 .. n : i <= j => q[i].num <= q[j].num
  BY TickInputs, Basics DEF LinkInv, Sorted
<1>2. PICK o \in Nat : o <= Len(typed) /\ Aligned(cur, q, o)
  BY TickInputs DEF LinkInv
<1>3. /\ now \in Nat
      /\ \A i \in 1 .. n : q[i].timestamp = sent_states[i].timestamp /\ q[i].timestamp \in Nat
  <2>1. \A i \in 1 .. n : q[i].timestamp = sent_states[i].timestamp
    BY <1>1, RationalizeKeepsAlignment DEF LinkInv
  <2>2. \A i \in 1 .. n : q[i].timestamp \in Nat
    BY <1>1 DEF SentState
  <2>3. QED
    BY <2>1, <2>2 DEF LinkInv, TypeOK
<1>4. w \in {1, n} /\ (w # 1 => now - q[n].timestamp < rto + ACK_DELAY_MS)
  <2>1. /\ w \in {1, Len(sent_states)}
        /\ w # 1 => now - sent_states[Len(sent_states)].timestamp < rto + ACK_DELAY_MS
    BY <1>3, WalkIsAllOrNothing DEF LinkInv, TimesInv
  <2>2. n \in 1 .. n
    BY <1>1
  <2>3. QED
    BY <1>1, <1>3, <2>1, <2>2
<1>5. a \in {1, w}
  <2> HIDE DEF cur, q, w
  <2>1. QED
    BY DEF ResendBase
<1>6. /\ cur # Last(q).state
      \/ cur # q[w].state
      \/ /\ cur # q[1].state
         /\ now >= Last(q).timestamp + rto + ACK_DELAY_MS
  <2> HIDE DEF cur, q, w
  <2>1. DueSend(cur, q, w, now, rto, si)
    BY DEF cur, q, w
  <2>2. QED
    BY <2>1 DEF DueSend, NextSend
<1> HIDE DEF cur, q, w, a, n
<1>7. \A i \in 1 .. n : cur = q[i].state <=> upto(i) = Len(typed)
  <2>1. TAKE i \in 1 .. n
  <2>2. /\ IsWindow(cur, Events, typed, o, Len(typed))
        /\ IsWindow(q[i].state, Events, typed, o, upto(i)) /\ o <= upto(i)
    BY <1>2 DEF Aligned, n
  <2>3. Len(cur) = Len(typed) - o /\ Len(q[i].state) = upto(i) - o
    BY <2>2 DEF IsWindow
  <2>4. upto(i) = Len(typed) => cur = q[i].state
    BY <1>1, <2>2, WindowUnique
  <2> HIDE DEF upto
  <2>5. cur = q[i].state => upto(i) = Len(typed)
    <3>1. upto(i) \in Int /\ Len(typed) \in Int /\ o \in Int
      BY <1>1
    <3>2. SUFFICES ASSUME cur = q[i].state PROVE upto(i) = Len(typed)
      OBVIOUS
    <3>3. Len(typed) - o = upto(i) - o
      BY <2>3, <3>2
    <3>4. QED
      BY <3>1, <3>3
  <2>6. QED
    BY <2>4, <2>5
<1>8. \A i, j \in 1 .. n : i <= j => upto(i) <= upto(j)
  BY <1>1 DEF LinkInv, NumberingInv
<1> HIDE DEF upto
<1>9. ASSUME NEW k \in 1 .. n, cur # q[k].state
      PROVE  \A i \in 1 .. k : cur # q[i].state
  BY <1>1, <1>7, <1>8, <1>9
<1>10. a \in 1 .. n /\ 1 \in 1 .. n /\ n \in 1 .. n
  BY <1>1, <1>5
<1>11. cur # q[a].state
  <2>1. CASE cur # Last(q).state
    BY <1>1, <1>9, <1>10, <2>1
  <2>2. CASE cur # q[w].state
    <3>1. a \in 1 .. w
      BY <1>1, <1>5
    <3>2. QED
      BY <1>1, <1>9, <2>2, <3>1
  <2>3. CASE cur # q[1].state /\ now >= Last(q).timestamp + rto + ACK_DELAY_MS
    <3>1. q[n].timestamp \in Nat /\ now >= q[n].timestamp + rto + ACK_DELAY_MS
      BY <1>1, <1>3, <1>10, <2>3
    <3>2. w = 1
      BY <1>3, <1>4, <3>1
    <3>3. QED
      BY <1>5, <2>3, <3>2
  <2>4. QED
    BY <1>6, <2>1, <2>2, <2>3
<1>12. QED
  BY <1>11 DEF cur, q, w, a

\* A frame that compute_timers finds due is never empty, so tick never spins.
THEOREM DueFramesSpeak == Spec => []DueFrameHasNews
<1>1. LinkInv /\ TimesInv => DueFrameHasNews
  <2> SUFFICES ASSUME LinkInv, TimesInv PROVE DueFrameHasNews
    OBVIOUS
  <2> DEFINE cur == Rationalized(current_state)
             q   == RationalizedQueue
  <2>1. SUFFICES ASSUME NEW rto \in Rtos, NEW si \in SendIntervals,
                        DueSend(cur, q, update_assumed_receiver_state(now, rto), now, rto, si)
                 PROVE  diff_from(cur, q[ResendBase(cur, q,
                          update_assumed_receiver_state(now, rto))].state) # << >>
    BY DEF DueFrameHasNews
  <2> DEFINE w == update_assumed_receiver_state(now, rto)
             a == ResendBase(cur, q, w)
             d == diff_from(cur, q[a].state)
             upto == content[q[a].num]
  <2>2. cur # q[a].state
    BY <2>1, DueFrameFallsShort
  <2>3. /\ a \in 1 .. Len(q) /\ upto \in Nat /\ upto <= Len(typed) /\ Len(typed) \in Nat
    BY TickInputs, Basics DEF LinkInv
  <2>4. PICK o \in Nat : o <= Len(typed) /\ Aligned(cur, q, o)
    BY TickInputs DEF LinkInv
  <2>5. IsWindow(d, Events, typed, upto, Len(typed))
    BY <2>3, <2>4, DiffIsWindow DEF LinkInv
  <2> HIDE DEF cur, q, w, a
  <2>6. /\ IsWindow(cur, Events, typed, o, Len(typed))
        /\ IsWindow(q[a].state, Events, typed, o, upto)
    BY <2>3, <2>4 DEF Aligned
  <2>7. upto # Len(typed)
    BY <2>2, <2>3, <2>6, WindowUnique
  <2> HIDE DEF d, upto
  <2>8. Len(d) = Len(typed) - upto /\ d \in Seq(Events)
    BY <2>5 DEF IsWindow
  <2>9. Len(d) # 0
    BY <2>3, <2>7, <2>8
  <2>10. d # << >>
    BY <2>8, <2>9, EmptySeq
  <2>11. QED
    BY <2>10 DEF d, a, w
<1>2. QED
  BY <1>1, LinkInvariant, TimesInvariant, PTL

=============================================================================
