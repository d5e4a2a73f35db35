------------------------- MODULE SspDeliveryProofs --------------------------
(***************************************************************************)
(* Proof that the client speaks in time (SpeaksInTime), for every ack      *)
(* interval and delay, frame interval and sleep, and whatever the peer     *)
(* answers, the end of the session included.  SspReceiverProofs is there   *)
(* for its lemmas about queues.                                            *)
(***************************************************************************)
EXTENDS SspDelivery, SspReceiverProofs, FiniteSetTheorems

USE TimingAssumption, QueueAssumption, DeliveryAssumption

-----------------------------------------------------------------------------
(* The largest and the smallest. *)

LEMMA MaxOfTwo ==
  ASSUME NEW a \in Int, NEW b \in Int
  PROVE  /\ Max({a, b}) = (IF a >= b THEN a ELSE b)
         /\ Min({a, b}) = (IF a <= b THEN a ELSE b)
<1>1. Max({a, b}) = (IF a >= b THEN a ELSE b)
  <2> DEFINE m == IF a >= b THEN a ELSE b
  <2>1. m \in {a, b} /\ \A y \in {a, b} : m >= y
    OBVIOUS
  <2>2. ASSUME NEW x \in {a, b}, \A y \in {a, b} : x >= y PROVE x = m
    BY <2>2
  <2> HIDE DEF m
  <2>3. (CHOOSE x \in {a, b} : \A y \in {a, b} : x >= y) = m
    BY <2>1, <2>2
  <2>4. QED
    BY <2>3 DEF Max, m
<1>2. Min({a, b}) = (IF a <= b THEN a ELSE b)
  <2> DEFINE m == IF a <= b THEN a ELSE b
  <2>1. m \in {a, b} /\ \A y \in {a, b} : m <= y
    OBVIOUS
  <2>2. ASSUME NEW x \in {a, b}, \A y \in {a, b} : x <= y PROVE x = m
    BY <2>2
  <2> HIDE DEF m
  <2>3. (CHOOSE x \in {a, b} : \A y \in {a, b} : x <= y) = m
    BY <2>1, <2>2
  <2>4. QED
    BY <2>3 DEF Min, m
<1>3. QED
  BY <1>1, <1>2

\* A set of n numbers without a largest one.
Unbounded(S, n) ==
  /\ S \subseteq Int /\ IsFiniteSet(S) /\ S # {} /\ Cardinality(S) = n
  /\ ~ \E x \in S : \A y \in S : x >= y

LEMMA MaxOfMany ==
  ASSUME NEW S \in SUBSET Int, IsFiniteSet(S), S # {}
  PROVE  Max(S) \in S /\ \A y \in S : Max(S) >= y
<1> DEFINE Bad == {n \in Nat : \E T \in SUBSET Int : Unbounded(T, n)}
<1>1. Bad = {}
  <2>1. SUFFICES ASSUME Bad # {} PROVE FALSE
    OBVIOUS
  <2>2. PICK n \in Bad : \A k \in Bad : n <= k
    <3>1. Bad \in SUBSET Nat
      OBVIOUS
    <3> HIDE DEF Bad
    <3>2. QED
      BY <2>1, <3>1, LeastElement
  <2>3. PICK T \in SUBSET Int : Unbounded(T, n)
    BY <2>2
  <2>4. /\ T \subseteq Int /\ IsFiniteSet(T) /\ T # {} /\ Cardinality(T) = n
        /\ ~ \E x \in T : \A y \in T : x >= y
    BY <2>3 DEF Unbounded
  <2>5. PICK x \in T : TRUE
    BY <2>4
  <2> DEFINE R == T \ {x}
  <2>6. IsFiniteSet(R) /\ Cardinality(R) = n - 1 /\ n \in Nat
    <3>1. IsFiniteSet(R) /\ Cardinality(R) = Cardinality(T) - 1
      BY <2>4, <2>5, FS_RemoveElement
    <3>2. QED
      BY <2>2, <2>4, <3>1
  <2>7. Cardinality(R) \in Nat
    BY <2>6, FS_CardinalityType
  <2>8. n - 1 \notin Bad
    <3> HIDE DEF Bad, R
    <3>1. QED
      BY <2>2, <2>6
  <2>9. ~ Unbounded(R, n - 1)
    BY <2>4, <2>6, <2>7, <2>8
  <2>10. CASE R = {}
    BY <2>4, <2>5, <2>10
  <2>11. CASE R # {}
    <3>1. PICK z \in R : \A y \in R : z >= y
      BY <2>4, <2>6, <2>9, <2>11 DEF Unbounded
    <3>2. CASE z >= x
      BY <2>4, <2>5, <3>1, <3>2
    <3>3. CASE ~ (z >= x)
      BY <2>4, <2>5, <3>1, <3>3
    <3>4. QED
      BY <3>2, <3>3
  <2>12. QED
    BY <2>10, <2>11
<1>2. Cardinality(S) \in Nat
  BY FS_CardinalityType
<1>3. ~ Unbounded(S, Cardinality(S))
  BY <1>1, <1>2
<1>4. \E x \in S : \A y \in S : x >= y
  BY <1>3 DEF Unbounded
<1>5. QED
  BY <1>4 DEF Max

\* The instant at which the clock stands, and the ages.
LEMMA Ages ==
  /\ Now \in Int /\ StateAge \in Int
  /\ \A si \in SendIntervals : si \in Nat /\ si >= 1 /\ si <= ACK_INTERVAL_MS /\ si <= StateAge
  /\ ACK_INTERVAL_MS \in Nat /\ ACK_INTERVAL_MS >= 1 /\ Lost \in Nat
<1>1. IsFiniteSet(SendIntervals) /\ SendIntervals \subseteq Nat
  <2>1. IsFiniteSet(1 .. ACK_INTERVAL_MS)
    BY FS_Interval
  <2>2. SendIntervals \in SUBSET (1 .. ACK_INTERVAL_MS)
    OBVIOUS
  <2>3. IsFiniteSet(SendIntervals)
    BY <2>1, <2>2, FS_Subset
  <2>4. QED
    BY <2>3
<1> DEFINE S == Rtos \cup SendIntervals
<1>2. S \in SUBSET Int /\ IsFiniteSet(S) /\ S # {}
  <2>1. IsFiniteSet(S)
    BY <1>1, FS_Union
  <2>2. QED
    BY <1>1, <2>1
<1>3. Max(S) \in S /\ \A y \in S : Max(S) >= y
  <2> HIDE DEF S
  <2>1. QED
    BY <1>2, MaxOfMany
<1>4. Max(S) \in Int /\ StateAge = Max(S) + ACK_DELAY_MS
  BY <1>2, <1>3 DEF StateAge
<1>5. StateAge \in Int
  BY <1>4
<1>6. \A si \in SendIntervals : si \in Nat /\ si >= 1 /\ si <= ACK_INTERVAL_MS /\ si <= Max(S)
  BY <1>3
<1> HIDE DEF S
<1>7. \A si \in SendIntervals : si <= StateAge
  BY <1>4, <1>6
<1>8. Now \in Int
  <2> DEFINE T == {StateAge, ACTIVE_RETRY_TIMEOUT_MS, SEND_MINDELAY}
  <2>1. T \in SUBSET Int /\ T # {}
    BY <1>5
  <2>2. IsFiniteSet(T)
    <3>1. T = (({} \cup {StateAge}) \cup {ACTIVE_RETRY_TIMEOUT_MS}) \cup {SEND_MINDELAY}
      OBVIOUS
    <3> HIDE DEF T
    <3>2. QED
      BY <3>1, FS_EmptySet, FS_AddElement
  <2> HIDE DEF T
  <2>3. Max(T) \in Int
    BY <2>1, <2>2, MaxOfMany
  <2>4. QED
    BY <2>3 DEF Now, T
<1>9. ACK_INTERVAL_MS \in Nat /\ ACK_INTERVAL_MS >= 1
  <2>1. PICK si \in SendIntervals : TRUE
    OBVIOUS
  <2>2. si \in 1 .. ACK_INTERVAL_MS
    OBVIOUS
  <2>3. QED
    BY <2>2
<1>10. Lost \in Nat
  BY MaxOfTwo DEF Lost
<1>11. QED
  BY <1>5, <1>6, <1>7, <1>8, <1>9, <1>10

\* The deadline for an ack of data while the session closes.
ClosingDeadline == Max({ACK_DELAY_MS} \cup SendIntervals)

LEMMA Deadline ==
  /\ ClosingDeadline \in Int /\ ACK_DELAY_MS <= ClosingDeadline
  /\ \A si \in SendIntervals : si <= ClosingDeadline
<1> DEFINE S == {ACK_DELAY_MS} \cup SendIntervals
<1>1. IsFiniteSet(SendIntervals)
  <2>1. IsFiniteSet(1 .. ACK_INTERVAL_MS)
    BY FS_Interval
  <2>2. SendIntervals \in SUBSET (1 .. ACK_INTERVAL_MS)
    OBVIOUS
  <2>3. QED
    BY <2>1, <2>2, FS_Subset
<1>2. S \in SUBSET Int /\ S # {}
  OBVIOUS
<1>3. IsFiniteSet(S)
  <2>1. S = SendIntervals \cup {ACK_DELAY_MS}
    OBVIOUS
  <2> HIDE DEF S
  <2>2. QED
    BY <1>1, <2>1, FS_AddElement
<1>4. Max(S) \in S /\ \A y \in S : Max(S) >= y
  <2> HIDE DEF S
  <2>1. QED
    BY <1>2, <1>3, MaxOfMany
<1>5. Max(S) \in Int /\ ACK_DELAY_MS <= Max(S) /\ \A si \in SendIntervals : si <= Max(S)
  BY <1>2, <1>4
<1>6. QED
  BY <1>5 DEF ClosingDeadline

-----------------------------------------------------------------------------
(* The queue of sent states: it has a newest one, with a timestamp. *)

Entry(x) ==
  /\ x = [timestamp |-> x.timestamp, num |-> x.num, state |-> x.state]
  /\ x.timestamp \in Int /\ x.num \in Nat

QueueOK(q) ==
  /\ Len(q) \in Nat \ {0}
  /\ q = [i \in 1 .. Len(q) |-> q[i]]
  /\ \A i \in 1 .. Len(q) : Entry(q[i])

LEMMA QueueIsSeq ==
  ASSUME NEW q, QueueOK(q)
  PROVE  q \in Seq({q[i] : i \in 1 .. Len(q)})
<1>1. q \in [1 .. Len(q) -> {q[i] : i \in 1 .. Len(q)}] /\ Len(q) \in Nat
  BY DEF QueueOK
<1>2. QED
  BY <1>1, FunctionIsSeq

\* A queue made of entries is one.
LEMMA SeqIsQueue ==
  ASSUME NEW S, NEW q \in Seq(S), Len(q) # 0, \A i \in 1 .. Len(q) : Entry(q[i])
  PROVE  QueueOK(q)
<1>1. Len(q) \in Nat /\ DOMAIN q = 1 .. Len(q)
  BY LenProperties
<1>2. q = [i \in 1 .. Len(q) |-> q[i]]
  BY <1>1, ElementOfSeq
<1>3. QED
  BY <1>1, <1>2 DEF QueueOK

LEMMA FunctionIsQueue ==
  ASSUME NEW n \in Nat \ {0}, NEW q, q = [i \in 1 .. n |-> q[i]],
         \A i \in 1 .. n : Entry(q[i])
  PROVE  QueueOK(q) /\ Len(q) = n
<1>1. q \in [1 .. n -> {q[i] : i \in 1 .. n}] /\ n \in Nat
  OBVIOUS
<1>2. q \in Seq({q[i] : i \in 1 .. n}) /\ Len(q) = n
  BY <1>1, FunctionIsSeq
<1>3. QED
  BY <1>2 DEF QueueOK

\* rationalize_states changes the streams alone.
LEMMA RationalizedOK ==
  ASSUME QueueOK(sent_states)
  PROVE  /\ QueueOK(RationalizedQueue)
         /\ Last(RationalizedQueue).timestamp = back.timestamp
         /\ Last(RationalizedQueue).num = back.num
<1> DEFINE n == Len(sent_states)
           q == RationalizedQueue
<1>1. n \in Nat \ {0} /\ \A i \in 1 .. n : Entry(sent_states[i])
  BY DEF QueueOK
<1>2. /\ q = [i \in 1 .. n |-> q[i]]
      /\ \A i \in 1 .. n :
           q[i] = [sent_states[i] EXCEPT !.state = Rationalized(sent_states[i].state)]
  BY DEF RationalizedQueue
<1> HIDE DEF q, n
<1>3. ASSUME NEW i \in 1 .. n
      PROVE  /\ Entry(q[i]) /\ q[i].timestamp = sent_states[i].timestamp
             /\ q[i].num = sent_states[i].num
  <2> DEFINE x == sent_states[i]
  <2>1. Entry(x) /\ q[i] = [x EXCEPT !.state = Rationalized(x.state)]
    BY <1>1, <1>2
  <2> HIDE DEF x
  <2>2. q[i] = [timestamp |-> x.timestamp, num |-> x.num, state |-> Rationalized(x.state)]
    BY <2>1 DEF Entry
  <2>3. QED
    BY <2>1, <2>2 DEF Entry, x
<1>4. QueueOK(q) /\ Len(q) = n
  BY <1>1, <1>2, <1>3, FunctionIsQueue
<1>5. QED
  BY <1>1, <1>3, <1>4 DEF Last, back, n, q

\* add_sent_state leaves the new entry at the end.
LEMMA AddedOK ==
  ASSUME NEW q, QueueOK(q), NEW entry, Entry(entry)
  PROVE  LET r == add_sent_state(q, entry) IN QueueOK(r) /\ Last(r) = entry
<1> DEFINE n == Len(q)
           S == {q[i] : i \in 1 .. n} \cup {entry}
           p == Append(q, entry)
           k == CullIndex(p)
           r == add_sent_state(q, entry)
<1>1. /\ n \in Nat \ {0} /\ \A x \in S : Entry(x)
  BY DEF QueueOK
<1>2. q \in Seq(S)
  <2>1. q = [i \in 1 .. n |-> q[i]] /\ n \in Nat
    BY DEF QueueOK
  <2>2. q \in [1 .. n -> S]
    BY <2>1
  <2> HIDE DEF S
  <2>3. QED
    BY <2>1, <2>2, FunctionIsSeq
<1>3. entry \in S
  OBVIOUS
<1> HIDE DEF S
<1>4. /\ p \in Seq(S) /\ Len(p) = n + 1 /\ p[n + 1] = entry
  BY <1>2, <1>3, AppendProperties
<1>5. r = IF Len(p) > SENT_QUEUE_CAP THEN RemoveAt(p, k) ELSE p
  BY DEF add_sent_state
<1> HIDE DEF p, r
<1>6. CASE ~ (Len(p) > SENT_QUEUE_CAP)
  <2>1. r = p /\ \A i \in 1 .. Len(p) : p[i] \in S
    BY <1>4, <1>5, <1>6, ElementOfSeq
  <2>2. QueueOK(p) /\ Last(p) = entry
    BY <1>1, <1>4, <2>1, SeqIsQueue DEF Last
  <2>3. QED
    BY <2>1, <2>2 DEF r
<1>7. CASE Len(p) > SENT_QUEUE_CAP
  <2>1. r = RemoveAt(p, k)
    BY <1>5, <1>7
  <2>2. k \in 1 .. Len(p) /\ k <= n
    BY <1>1, <1>4, <1>7 DEF CullIndex
  <2> HIDE DEF k
  <2>3. /\ r \in Seq(S) /\ Len(r) = Len(p) - 1
        /\ \A i \in 1 .. Len(p) - 1 : r[i] = IF i < k THEN p[i] ELSE p[i + 1]
    BY <1>4, <2>1, <2>2, RemoveAtProperties
  <2>4. Len(r) = n /\ r[n] = entry
    <3>1. Len(p) - 1 = n /\ n \in 1 .. n
      BY <1>1, <1>4
    <3>2. QED
      BY <1>4, <2>2, <2>3, <3>1
  <2>5. QueueOK(r)
    BY <1>1, <2>3, <2>4, SeqIsQueue, ElementOfSeq
  <2>6. QED
    BY <2>4, <2>5 DEF r, Last
<1>8. QED
  BY <1>6, <1>7

\* A resend of the newest state only changes its timestamp.
LEMMA RestampedOK ==
  ASSUME NEW q, QueueOK(q), NEW t \in Int
  PROVE  LET r == [q EXCEPT ![Len(q)].timestamp = t] IN QueueOK(r) /\ Last(r).timestamp = t
<1> DEFINE n == Len(q)
           x == q[n]
           y == [x EXCEPT !.timestamp = t]
           r == [q EXCEPT ![Len(q)].timestamp = t]
<1>1. n \in Nat \ {0} /\ q = [i \in 1 .. n |-> q[i]] /\ \A i \in 1 .. n : Entry(q[i])
  BY DEF QueueOK
<1>2. n \in 1 .. n /\ Entry(x)
  BY <1>1
<1>3. r = [i \in 1 .. n |-> IF i = n THEN y ELSE q[i]]
  <2>1. r = [q EXCEPT ![n] = y]
    OBVIOUS
  <2> HIDE DEF r, y, n
  <2>2. QED
    BY <1>1, <2>1
<1> HIDE DEF x
<1>4. y = [timestamp |-> t, num |-> x.num, state |-> x.state]
  BY <1>2 DEF Entry
<1>5. Entry(y) /\ y.timestamp = t
  BY <1>2, <1>4 DEF Entry
<1> HIDE DEF r, y, n
<1>6. /\ r = [i \in 1 .. n |-> r[i]] /\ r[n] = y
      /\ \A i \in 1 .. n : Entry(r[i])
  BY <1>1, <1>2, <1>3, <1>5
<1>7. QueueOK(r) /\ Len(r) = n
  BY <1>1, <1>6, FunctionIsQueue
<1>8. QED
  BY <1>5, <1>6, <1>7 DEF Last, r

\* process_acknowledgment_through keeps the newest state.
LEMMA AckedOK ==
  ASSUME QueueOK(sent_states), NEW ack, process_acknowledgment_through(ack)
  PROVE  QueueOK(sent_states') /\ back' = back
<1> DEFINE n == Len(sent_states)
           C(i) == /\ sent_states[i].num >= ack
                   /\ \A j \in 1 .. i - 1 : sent_states[j].num < ack
           f == CHOOSE i \in 1 .. n : C(i)
           P == {i \in 1 .. n : sent_states[i].num >= ack}
           S == {sent_states[i] : i \in 1 .. n}
<1>1. n \in Nat \ {0} /\ \A i \in 1 .. n : Entry(sent_states[i])
  BY DEF QueueOK
<1>2. CASE ~ \E i \in 1 .. n : sent_states[i].num = ack
  <2>1. sent_states' = sent_states
    BY <1>2 DEF process_acknowledgment_through
  <2>2. QED
    BY <2>1 DEF back
<1>3. CASE \E i \in 1 .. n : sent_states[i].num = ack
  <2>1. \A i \in 1 .. n : sent_states[i].num \in Nat
    BY <1>1 DEF Entry
  <2>2. ack \in Nat /\ P # {} /\ P \in SUBSET (1 .. n)
    BY <1>3, <2>1
  <2>3. PICK g \in P : \A j \in 1 .. g - 1 : j \notin P
    <3> HIDE DEF P
    <3>1. QED
      BY <1>1, <2>2, FirstPosition
  <2>4. f \in 1 .. n
    <3>1. g \in 1 .. n /\ C(g)
      BY <1>1, <2>1, <2>2, <2>3
    <3> HIDE DEF C
    <3>2. QED
      BY <3>1
  <2> DEFINE kept == SubSeq(sent_states, f, n)
  <2>5. sent_states' = kept
    BY <1>3 DEF process_acknowledgment_through
  <2> HIDE DEF f
  <2>6. sent_states \in Seq(S)
    BY QueueIsSeq
  <2>7. /\ kept \in Seq(S) /\ Len(kept) = n - f + 1
        /\ \A i \in 1 .. n - f + 1 : kept[i] = sent_states[f + i - 1]
    <3> HIDE DEF S
    <3>1. QED
      BY <2>4, <2>6, SuffixProperties
  <2> HIDE DEF kept
  <2>8. Len(kept) # 0 /\ kept[Len(kept)] = sent_states[n]
    <3>1. n - f + 1 \in 1 .. n - f + 1 /\ f + (n - f + 1) - 1 = n
      BY <1>1, <2>4
    <3>2. QED
      BY <2>7, <3>1
  <2>9. \A i \in 1 .. Len(kept) : kept[i] \in S
    BY <2>7, ElementOfSeq
  <2>10. QueueOK(kept)
    <3>1. \A i \in 1 .. Len(kept) : Entry(kept[i])
      BY <1>1, <2>9
    <3> HIDE DEF S
    <3>2. QED
      BY <2>7, <2>8, <3>1, SeqIsQueue
  <2>11. QED
    BY <2>5, <2>8, <2>10 DEF back, Last
<1>4. QED
  BY <1>2, <1>3

\* Ranks are numbers too.
LEMMA RankIsNumber ==
  ASSUME QueueOK(sent_states), NEW n \in Nat
  PROVE  Rank(n) \in Nat
<1> DEFINE m == Len(sent_states)
           nums == [i \in 1 .. m |-> sent_states[i].num]
           T == Named \cup {newest_held}
           U == {k \in T : k < n}
<1>1. m \in Nat /\ DOMAIN sent_states = 1 .. m
  BY DEF QueueOK
<1>2. nums \in Surjection(1 .. m, Named)
  BY <1>1 DEF Named, Surjection
<1>3. IsFiniteSet(Named)
  <2>1. IsFiniteSet(1 .. m)
    BY <1>1, FS_Interval
  <2> HIDE DEF nums
  <2>2. QED
    BY <1>2, <2>1, FS_Surjection
<1>4. IsFiniteSet(T)
  BY <1>3, FS_AddElement
<1>5. U \in SUBSET T
  OBVIOUS
<1>6. Cardinality(U) \in Nat
  <2> HIDE DEF U, T
  <2>1. QED
    BY <1>4, <1>5, FS_Subset, FS_CardinalityType
<1>7. QED
  BY <1>6 DEF Rank

\* Time passes for the whole queue.
AgedQueue ==
  [i \in DOMAIN sent_states |->
     [sent_states[i] EXCEPT !.timestamp = Older(@, StateAge), !.num = Rank(@)]]

LEMMA AgedOK ==
  ASSUME QueueOK(sent_states)
  PROVE  QueueOK(AgedQueue) /\ Last(AgedQueue).timestamp = Older(back.timestamp, StateAge)
<1> DEFINE n == Len(sent_states)
           q == AgedQueue
<1>1. n \in Nat \ {0} /\ \A i \in 1 .. n : Entry(sent_states[i])
  BY DEF QueueOK
<1>2. DOMAIN sent_states = 1 .. n
  BY DEF QueueOK
<1>3. /\ q = [i \in 1 .. n |-> q[i]]
      /\ \A i \in 1 .. n :
           q[i] = [sent_states[i] EXCEPT !.timestamp = Older(@, StateAge), !.num = Rank(@)]
  BY <1>2 DEF AgedQueue
<1> HIDE DEF q, n
<1>4. ASSUME NEW i \in 1 .. n
      PROVE  Entry(q[i]) /\ q[i].timestamp = Older(sent_states[i].timestamp, StateAge)
  <2> DEFINE x == sent_states[i]
             u == x.timestamp - 1
             v == Now - StateAge
  <2>1. Entry(x) /\ q[i] = [x EXCEPT !.timestamp = Older(@, StateAge), !.num = Rank(@)]
    BY <1>1, <1>3
  <2> HIDE DEF x
  <2>2. Rank(x.num) \in Nat
    BY <2>1, RankIsNumber DEF Entry
  <2>3. Older(x.timestamp, StateAge) \in Int
    <3>1. x.timestamp \in Int
      BY <2>1 DEF Entry
    <3>2. u \in Int /\ v \in Int
      BY <3>1, Ages
    <3>3. Older(x.timestamp, StateAge) = Max({u, v})
      BY DEF Older
    <3> HIDE DEF u, v
    <3>4. Max({u, v}) \in Int
      BY <3>2, MaxOfTwo
    <3>5. QED
      BY <3>3, <3>4
  <2> DEFINE o == Older(x.timestamp, StateAge)
             r == Rank(x.num)
  <2>4. q[i] = [timestamp |-> o, num |-> r, state |-> x.state]
    BY <2>1 DEF Entry
  <2> HIDE DEF o, r
  <2>5. Entry(q[i]) /\ q[i].timestamp = o
    BY <2>2, <2>3, <2>4 DEF Entry, o, r
  <2>6. QED
    BY <2>5 DEF x, o
<1>5. QueueOK(q) /\ Len(q) = n
  BY <1>1, <1>3, <1>4, FunctionIsQueue
<1>6. n \in 1 .. n
  BY <1>1
<1>7. q[n].timestamp = Older(sent_states[n].timestamp, StateAge)
  BY <1>4, <1>6
<1>8. QED
  BY <1>5, <1>7 DEF q, Last, back, n

-----------------------------------------------------------------------------
(* The inductive invariant. *)

SpeakTypes ==
  /\ QueueOK(sent_states)
  /\ sent_age \in Nat /\ data_age \in Nat \cup {None}
  /\ next_ack_time \in Int /\ wake \in Int /\ mindelay_clock \in Int
  /\ loop \in {"tick", "wait", "receive", "drain", "ended"}

\* Data waits no longer than the line has been silent, and the newest state was
\* sent no later than the last packet, unless its age no longer shows.
Silence ==
  /\ data_age # None => data_age <= sent_age
  /\ sent_age <= Now - back.timestamp \/ back.timestamp <= Now - StateAge

\* An open session has its next ack scheduled in time for both; for data that
\* has just come, the tick that follows brings it forward.
AckScheduled ==
  ~ Closing =>
    /\ Now <= next_ack_time
    /\ next_ack_time + sent_age <= Now + ACK_INTERVAL_MS
    /\ data_age # None =>
         /\ pending_data_ack
         /\ \/ next_ack_time + data_age <= Now + ACK_DELAY_MS
            \/ data_age = 0 /\ loop \in {"tick", "drain"}

\* After the tick nothing is due.
WaitInTime ==
  loop = "wait" =>
    /\ sent_age < ACK_INTERVAL_MS
    /\ data_age # None => data_age < AckDeadline
    /\ ~ Closing =>
         /\ Now < next_ack_time
         /\ pending_data_ack => next_ack_time <= Now + ACK_DELAY_MS

\* The sleep is over before anything is due.
SleepInTime ==
  loop = "receive" =>
    /\ Now < wake
    /\ sent_age + (wake - Now) <= ACK_INTERVAL_MS
    /\ data_age # None => data_age + (wake - Now) <= AckDeadline
    /\ ~ Closing => wake <= next_ack_time

SpeakInv ==
  SpeakTypes /\ Silence /\ AckScheduled /\ WaitInTime /\ SleepInTime /\ SpeaksInTime

LEMMA SpeakInit == ASSUME Init PROVE SpeakInv
<1>1. sent_states = << [timestamp |-> Now, num |-> 0, state |-> << >>] >>
  BY DEF Init
<1>2. Len(sent_states) = 1 /\ Entry(sent_states[1])
  BY <1>1, Ages DEF Entry
<1>3. QueueOK(sent_states) /\ back.timestamp = Now
  BY <1>1, <1>2 DEF QueueOK, back, Last
<1>4. SpeakTypes
  BY <1>3, Ages DEF Init, SpeakTypes, None
<1>5. Silence
  BY <1>3, Ages DEF Init, Silence, None
<1>6. AckScheduled
  BY Ages DEF Init, AckScheduled, None
<1>7. WaitInTime /\ SleepInTime
  BY DEF Init, WaitInTime, SleepInTime
<1>8. SpeaksInTime
  BY Ages, Deadline DEF Init, SpeaksInTime, AckDeadline, ClosingDeadline, None
<1>9. QED
  BY <1>4, <1>5, <1>6, <1>7, <1>8 DEF SpeakInv

\* What the user enters waits in the live stream.
LEMMA SpeakType == ASSUME SpeakInv, NEW e, Type(e) PROVE SpeakInv'
<1>1. /\ UNCHANGED << sent_states, ack_num, next_ack_time, mindelay_clock, pending_data_ack,
                      shutdown_in_progress >>
      /\ UNCHANGED << loop, wake, sent_age, data_age >>
  BY DEF Type, push
<1>2. QED
  BY <1>1 DEF SpeakInv, SpeakTypes, Silence, AckScheduled, WaitInTime, SleepInTime,
              SpeaksInTime, AckDeadline, Closing, back

\* Closing the session only moves the deadline.
LEMMA SpeakStartShutdown == ASSUME SpeakInv, StartShutdown PROVE SpeakInv'
<1>1. /\ UNCHANGED << sent_states, ack_num, next_ack_time, mindelay_clock, pending_data_ack >>
      /\ UNCHANGED << loop, wake, sent_age, data_age >>
      /\ shutdown_in_progress' /\ loop = "tick"
  BY Zenon DEF StartShutdown, start_shutdown
<1>2. SpeakTypes' /\ Silence'
  BY <1>1 DEF SpeakInv, SpeakTypes, Silence, back
<1>3. AckScheduled' /\ WaitInTime' /\ SleepInTime'
  BY <1>1 DEF AckScheduled, WaitInTime, SleepInTime, Closing
<1>4. AckDeadline \in {ACK_DELAY_MS, ClosingDeadline} /\ AckDeadline' = ClosingDeadline
  BY <1>1 DEF AckDeadline, ClosingDeadline, Closing
<1>5. SpeaksInTime'
  BY <1>1, <1>4, Deadline DEF SpeakInv, SpeakTypes, SpeaksInTime, None
<1>6. QED
  BY <1>2, <1>3, <1>5 DEF SpeakInv

\* The loop goes round.
LEMMA SpeakDrained == ASSUME SpeakInv, Drained PROVE SpeakInv'
<1>1. /\ UNCHANGED << sent_states, ack_num, next_ack_time, mindelay_clock, pending_data_ack,
                      shutdown_in_progress >>
      /\ UNCHANGED << wake, sent_age, data_age >>
      /\ loop = "drain" /\ loop' = "tick"
  BY DEF Drained, senderVars
<1>2. QED
  BY <1>1 DEF SpeakInv, SpeakTypes, Silence, AckScheduled, WaitInTime, SleepInTime,
              SpeaksInTime, AckDeadline, Closing, back

\* What arrives at the peer is not heard of until the peer answers.
LEMMA SpeakDeliver == ASSUME SpeakInv, NEW inst, Deliver(inst) PROVE SpeakInv'
<1>1. /\ UNCHANGED << sent_states, ack_num, next_ack_time, mindelay_clock, pending_data_ack,
                      shutdown_in_progress >>
      /\ UNCHANGED << loop, wake, sent_age, data_age >>
  BY DEF Deliver, senderVars
<1>2. QED
  BY <1>1 DEF SpeakInv, SpeakTypes, Silence, AckScheduled, WaitInTime, SleepInTime,
              SpeaksInTime, AckDeadline, Closing, back

\* Data that comes is pending until the tick that follows the drain.  The peer's
\* end of the session only moves the deadline.
LEMMA SpeakHear ==
  ASSUME SpeakInv, NEW ack, NEW news \in {"nothing", "echo", "data"}, NEW num,
         Hear(ack, news, num)
  PROVE  SpeakInv'
<1>1. /\ UNCHANGED << next_ack_time, mindelay_clock, shutdown_in_progress, sent_age >>
      /\ loop \in {"receive", "drain"} /\ loop' = "drain" /\ wake' = Now
      /\ process_acknowledgment_through(ack)
  BY DEF Hear
<1>2. QueueOK(sent_states') /\ back' = back
  BY <1>1, AckedOK DEF SpeakInv, SpeakTypes
<1>3. Closing => Closing'
  <2>1. ack_num' = ack_num \/ ack_num # SHUTDOWN_NUM
    BY Zenon DEF Hear
  <2>2. QED
    BY <1>1, <2>1 DEF Closing
<1>4. /\ pending_data_ack => pending_data_ack'
      /\ \/ data_age' = data_age
         \/ data_age = None /\ data_age' = 0 /\ pending_data_ack'
  <2>1. CASE news = "nothing"
    BY <2>1, Zenon DEF Hear
  <2>2. CASE news # "nothing"
    BY <2>2, Zenon DEF Hear, NewestStateAppended
  <2>3. QED
    BY <2>1, <2>2
<1>5. SpeakTypes'
  BY <1>1, <1>2, <1>4, Ages DEF SpeakInv, SpeakTypes
<1>6. Silence'
  BY <1>1, <1>2, <1>4 DEF SpeakInv, SpeakTypes, Silence, None
<1>7. AckScheduled'
  <2>1. SUFFICES ASSUME ~ Closing' PROVE AckScheduled'
    BY DEF AckScheduled
  <2>2. /\ Now <= next_ack_time
        /\ next_ack_time + sent_age <= Now + ACK_INTERVAL_MS
        /\ data_age # None =>
             /\ pending_data_ack
             /\ \/ next_ack_time + data_age <= Now + ACK_DELAY_MS
                \/ data_age = 0 /\ loop \in {"tick", "drain"}
    BY <1>1, <1>3, <2>1 DEF SpeakInv, AckScheduled
  <2>3. CASE data_age' = data_age
    <3>1. data_age' # None =>
             /\ pending_data_ack'
             /\ \/ next_ack_time' + data_age' <= Now + ACK_DELAY_MS
                \/ data_age' = 0 /\ loop' \in {"tick", "drain"}
      BY <1>1, <1>4, <2>2, <2>3
    <3>2. QED
      BY <1>1, <2>2, <3>1 DEF AckScheduled
  <2>4. CASE data_age' = 0 /\ pending_data_ack'
    BY <1>1, <2>2, <2>4 DEF AckScheduled
  <2>5. QED
    BY <1>4, <2>3, <2>4
<1>8. WaitInTime' /\ SleepInTime'
  BY <1>1 DEF WaitInTime, SleepInTime
<1>9. SpeaksInTime'
  <2>1. /\ AckDeadline \in Int /\ AckDeadline' \in Int
        /\ 0 <= AckDeadline /\ AckDeadline <= AckDeadline'
    BY <1>3, Deadline DEF AckDeadline, ClosingDeadline
  <2>2. data_age \in Int
    BY DEF SpeakInv, SpeakTypes, None
  <2>3. QED
    BY <1>1, <1>4, <2>1, <2>2 DEF SpeakInv, SpeaksInTime
<1>10. QED
  BY <1>5, <1>6, <1>7, <1>8, <1>9 DEF SpeakInv

\* A unit of time brings the sleep one unit nearer to its end.
LEMMA SpeakClock == ASSUME SpeakInv, Clock PROVE SpeakInv'
<1> DEFINE older == Older(back.timestamp, StateAge)
<1>1. /\ UNCHANGED << ack_num, pending_data_ack, shutdown_in_progress >>
      /\ loop = "receive" /\ wake' = wake - 1
      /\ loop' = IF wake' = Now THEN "tick" ELSE "receive"
      /\ sent_age' = Min({sent_age + 1, Lost})
      /\ data_age' = IF data_age = None THEN None ELSE Min({data_age + 1, Lost})
      /\ next_ack_time' = Max({next_ack_time - 1, Now - 0})
      /\ mindelay_clock' = IF mindelay_clock = None THEN None
                           ELSE Max({mindelay_clock - 1, Now - SEND_MINDELAY})
      /\ sent_states' = AgedQueue /\ Closing' = Closing
  BY DEF Clock, Older, AgedQueue, Closing
<1>2. /\ QueueOK(sent_states) /\ sent_age \in Nat /\ data_age \in Nat \cup {None}
      /\ next_ack_time \in Int /\ wake \in Int /\ mindelay_clock \in Int
  BY DEF SpeakInv, SpeakTypes
<1>3. back.timestamp \in Int
  BY <1>2 DEF QueueOK, Entry, back, Last
<1>4. QueueOK(sent_states') /\ back'.timestamp = older
  BY <1>1, <1>2, AgedOK DEF back
<1>5. sent_age' \in Nat /\ sent_age' <= sent_age + 1
      /\ sent_age' = (IF sent_age + 1 <= Lost THEN sent_age + 1 ELSE Lost)
  <2>1. sent_age + 1 \in Int /\ Lost \in Int
    BY <1>2, Ages
  <2>2. sent_age' = IF sent_age + 1 <= Lost THEN sent_age + 1 ELSE Lost
    BY <1>1, <2>1, MaxOfTwo
  <2>3. QED
    BY <1>2, <2>2, Ages
<1>6. /\ data_age = None => data_age' = None
      /\ data_age # None => /\ data_age' \in Nat /\ data_age' <= data_age + 1
                            /\ data_age' = (IF data_age + 1 <= Lost THEN data_age + 1 ELSE Lost)
  <2>1. CASE data_age = None
    BY <1>1, <2>1
  <2>2. CASE data_age # None
    <3>1. data_age \in Nat /\ data_age + 1 \in Int /\ Lost \in Int
      BY <1>2, <2>2, Ages
    <3>2. data_age' = IF data_age + 1 <= Lost THEN data_age + 1 ELSE Lost
      BY <1>1, <2>2, <3>1, MaxOfTwo
    <3>3. QED
      BY <2>2, <3>1, <3>2, Ages
  <2>3. QED
    BY <2>1, <2>2
<1>7. /\ next_ack_time' = (IF next_ack_time - 1 >= Now THEN next_ack_time - 1 ELSE Now)
      /\ next_ack_time' \in Int
  <2>1. next_ack_time - 1 \in Int /\ Now - 0 \in Int /\ Now - 0 = Now
    BY <1>2, Ages
  <2>2. Max({next_ack_time - 1, Now - 0}) = IF next_ack_time - 1 >= Now - 0 THEN next_ack_time - 1 ELSE Now - 0
    BY <2>1, MaxOfTwo
  <2>3. QED
    BY <1>1, <2>1, <2>2
<1>8. mindelay_clock' \in Int
  <2>1. mindelay_clock - 1 \in Int /\ Now - SEND_MINDELAY \in Int
    BY <1>2, Ages
  <2>2. Max({mindelay_clock - 1, Now - SEND_MINDELAY}) \in Int
    BY <2>1, MaxOfTwo
  <2>3. QED
    BY <1>1, <2>2 DEF None
<1>9. SpeakTypes'
  BY <1>1, <1>2, <1>4, <1>5, <1>6, <1>7, <1>8 DEF SpeakInv, SpeakTypes
<1>10. /\ older = (IF back.timestamp - 1 >= Now - StateAge THEN back.timestamp - 1
                                                         ELSE Now - StateAge)
       /\ older \in Int
  <2>1. back.timestamp - 1 \in Int /\ Now - StateAge \in Int
    BY <1>3, Ages
  <2>2. QED
    BY <2>1, MaxOfTwo DEF Older
<1> HIDE DEF older
<1>11. Silence'
  <2>1. /\ data_age # None => data_age <= sent_age
        /\ sent_age <= Now - back.timestamp \/ back.timestamp <= Now - StateAge
    BY DEF SpeakInv, Silence
  <2>2. data_age' # None => data_age' <= sent_age'
    BY <1>2, <1>5, <1>6, <2>1, Ages
  <2>3. sent_age' <= Now - older \/ older <= Now - StateAge
    BY <1>2, <1>3, <1>5, <1>10, <2>1, Ages
  <2>4. QED
    BY <1>4, <2>2, <2>3 DEF Silence
<1>12. AckDeadline' = AckDeadline /\ AckDeadline \in Int
  BY <1>1, Deadline DEF AckDeadline, ClosingDeadline
<1>13. /\ Now < wake
       /\ sent_age + (wake - Now) <= ACK_INTERVAL_MS
       /\ data_age # None => data_age + (wake - Now) <= AckDeadline
       /\ ~ Closing => wake <= next_ack_time
  BY <1>1 DEF SpeakInv, SleepInTime
<1>14. /\ sent_age' + (wake' - Now) <= ACK_INTERVAL_MS
       /\ data_age' # None => data_age' + (wake' - Now) <= AckDeadline
       /\ wake' >= Now
  BY <1>1, <1>2, <1>5, <1>6, <1>12, <1>13, Ages
<1>15. AckScheduled'
  <2>1. SUFFICES ASSUME ~ Closing' PROVE AckScheduled'
    BY DEF AckScheduled
  <2>2. /\ next_ack_time + sent_age <= Now + ACK_INTERVAL_MS /\ wake <= next_ack_time
        /\ data_age # None => /\ pending_data_ack
                              /\ next_ack_time + data_age <= Now + ACK_DELAY_MS
    BY <1>1, <1>13, <2>1 DEF SpeakInv, AckScheduled
  <2>3. next_ack_time' = next_ack_time - 1
    BY <1>2, <1>7, <1>13, <2>2, Ages
  <2>4. /\ Now <= next_ack_time'
        /\ next_ack_time' + sent_age' <= Now + ACK_INTERVAL_MS
        /\ data_age # None => next_ack_time' + data_age' <= Now + ACK_DELAY_MS
    BY <1>2, <1>5, <1>6, <1>7, <2>2, <2>3, Ages
  <2>5. data_age' # None => pending_data_ack' /\ data_age # None
    BY <1>1, <1>6, <2>2
  <2>6. QED
    BY <2>4, <2>5 DEF AckScheduled
<1>16. WaitInTime'
  BY <1>1 DEF WaitInTime
<1>17. SleepInTime'
  <2>1. SUFFICES ASSUME loop' = "receive" PROVE SleepInTime'
    BY DEF SleepInTime
  <2>2. Now < wake'
    BY <1>1, <1>2, <1>14, <2>1, Ages
  <2>3. ~ Closing' => wake' <= next_ack_time'
    <3>1. wake <= next_ack_time => wake' <= next_ack_time'
      BY <1>1, <1>2, <1>7, Ages
    <3>2. QED
      BY <1>1, <1>13, <3>1
  <2>4. QED
    BY <1>12, <1>14, <2>2, <2>3 DEF SleepInTime
<1>18. SpeaksInTime'
  <2>1. sent_age' <= ACK_INTERVAL_MS
    BY <1>1, <1>2, <1>5, <1>14, Ages
  <2>2. data_age' <= AckDeadline
    <3>1. CASE data_age = None
      BY <1>1, <1>6, <1>12, <3>1 DEF SpeakInv, SpeaksInTime
    <3>2. CASE data_age # None
      <4>1. data_age' \in Nat /\ data_age' # None
        BY <1>6, <3>2 DEF None
      <4>2. QED
        BY <1>1, <1>2, <1>12, <1>14, <4>1, Ages
    <3>3. QED
      BY <3>1, <3>2
  <2>3. QED
    BY <1>12, <2>1, <2>2 DEF SpeaksInTime
<1>19. QED
  BY <1>9, <1>11, <1>15, <1>16, <1>17, <1>18 DEF SpeakInv

\* When the ack is due.  While closing it follows from the newest state alone;
\* in an open session it is never put off.
LEMMA AckTime ==
  ASSUME SpeakInv, NEW q, Last(q).timestamp = back.timestamp, NEW si \in SendIntervals
  PROVE  LET n == NextAckTime(q, Now, si)
         IN  /\ n \in Int
             /\ Closing =>
                  /\ n = back.timestamp + si
                  /\ Now < n => /\ sent_age + (n - Now) <= ACK_INTERVAL_MS
                                /\ data_age # None => data_age + (n - Now) <= AckDeadline
             /\ ~ Closing =>
                  /\ n <= next_ack_time
                  /\ pending_data_ack => n <= Now + ACK_DELAY_MS
                  /\ n = next_ack_time \/ (pending_data_ack /\ next_ack_time > Now + ACK_DELAY_MS)
<1> DEFINE n == NextAckTime(q, Now, si)
           ts == back.timestamp
<1>1. /\ QueueOK(sent_states) /\ sent_age \in Nat /\ data_age \in Nat \cup {None}
      /\ next_ack_time \in Int /\ Silence
  BY DEF SpeakInv, SpeakTypes
<1>2. ts \in Int
  <2>1. Len(sent_states) \in 1 .. Len(sent_states) /\ Entry(sent_states[Len(sent_states)])
    BY <1>1 DEF QueueOK
  <2>2. QED
    BY <2>1 DEF Entry, back, Last
<1>3. CASE Closing
  <2>1. n = ts + si /\ n \in Int
    BY <1>2, <1>3, Ages DEF NextAckTime, Closing
  <2>2. AckDeadline \in Int /\ si <= AckDeadline
    BY <1>3, Deadline DEF AckDeadline, ClosingDeadline
  <2>3. ASSUME Now < n
        PROVE  /\ sent_age + (n - Now) <= ACK_INTERVAL_MS
               /\ data_age # None => data_age + (n - Now) <= AckDeadline
    <3> HIDE DEF n, ts
    <3>1. ~ (ts <= Now - StateAge)
      BY <1>2, <2>1, <2>3, Ages
    <3>2. sent_age <= Now - ts /\ (data_age # None => data_age <= sent_age)
      BY <1>1, <3>1 DEF Silence, ts
    <3>3. sent_age + (n - Now) <= si
      BY <1>1, <1>2, <2>1, <3>2, Ages
    <3>4. data_age # None => data_age + (n - Now) <= si
      BY <1>1, <1>2, <2>1, <3>2, <3>3, Ages
    <3>5. sent_age + (n - Now) <= ACK_INTERVAL_MS
      BY <1>1, <2>1, <3>3, Ages
    <3>6. ASSUME data_age # None PROVE data_age + (n - Now) <= AckDeadline
      <4>1. data_age \in Nat /\ data_age + (n - Now) <= si
        BY <1>1, <3>4, <3>6
      <4>2. QED
        BY <2>1, <2>2, <4>1, Ages
    <3>7. QED
      BY <3>5, <3>6
  <2>4. QED
    BY <1>3, <2>1, <2>3
<1>4. CASE ~ Closing
  <2>1. n = IF pending_data_ack /\ next_ack_time > Now + ACK_DELAY_MS
              THEN Now + ACK_DELAY_MS ELSE next_ack_time
    BY <1>1, <1>4 DEF NextAckTime, Closing
  <2>2. /\ n \in Int /\ n <= next_ack_time
        /\ pending_data_ack => n <= Now + ACK_DELAY_MS
        /\ n = next_ack_time \/ (pending_data_ack /\ next_ack_time > Now + ACK_DELAY_MS)
    <3> HIDE DEF n
    <3>1. CASE pending_data_ack /\ next_ack_time > Now + ACK_DELAY_MS
      BY <1>1, <2>1, <3>1, Ages
    <3>2. CASE ~ (pending_data_ack /\ next_ack_time > Now + ACK_DELAY_MS)
      <4>1. n = next_ack_time
        BY <2>1, <3>2
      <4>2. pending_data_ack => ~ (next_ack_time > Now + ACK_DELAY_MS)
        BY <3>2, Zenon
      <4>3. ~ (next_ack_time > Now + ACK_DELAY_MS) => next_ack_time <= Now + ACK_DELAY_MS
        BY <1>1, Ages
      <4>4. pending_data_ack => n <= Now + ACK_DELAY_MS
        BY <4>1, <4>2, <4>3, Zenon
      <4>5. n \in Int /\ n <= next_ack_time
        BY <1>1, <4>1
      <4>6. n = next_ack_time \/ (pending_data_ack /\ next_ack_time > Now + ACK_DELAY_MS)
        BY <4>1
      <4>7. QED
        BY <4>4, <4>5, <4>6
    <3>3. QED
      BY <3>1, <3>2
  <2>3. QED
    BY <1>4, <2>2
<1>5. QED
  BY <1>3, <1>4

\* A tick with nothing due leaves the timers as wait_time finds them.
LEMMA SpeakSilent ==
  ASSUME SpeakInv, NEW rto \in Rtos, NEW si \in SendIntervals, TickSilent(Now, rto, si),
         UNCHANGED << sent_age, data_age, wake >>, loop = "tick", loop' \in {"wait", "ended"}
  PROVE  SpeakInv'
<1> DEFINE q == RationalizedQueue
           n == NextAckTime(q, Now, si)
<1>1. /\ UNCHANGED << ack_num, pending_data_ack, shutdown_in_progress >>
      /\ Now < n /\ next_ack_time' = n /\ sent_states' = q /\ Closing' = Closing
  <2>1. /\ UNCHANGED << ack_num, pending_data_ack, shutdown_in_progress >>
        /\ Now < n /\ next_ack_time' = n /\ sent_states' = q
    BY Zenon DEF TickSilent
  <2>2. QED
    BY <2>1 DEF Closing
<1>2. mindelay_clock' \in {None, Now, mindelay_clock}
  BY Zenon DEF TickSilent, MindelayClock
<1>3. /\ QueueOK(sent_states) /\ sent_age \in Nat /\ data_age \in Nat \cup {None}
      /\ next_ack_time \in Int /\ mindelay_clock \in Int /\ wake \in Int
  BY DEF SpeakInv, SpeakTypes
<1>4. QueueOK(sent_states') /\ back'.timestamp = back.timestamp /\ Last(q).timestamp = back.timestamp
  BY <1>1, <1>3, RationalizedOK DEF back
<1> HIDE DEF q
<1>5. /\ n \in Int
      /\ Closing =>
           /\ sent_age + (n - Now) <= ACK_INTERVAL_MS
           /\ data_age # None => data_age + (n - Now) <= AckDeadline
      /\ ~ Closing =>
           /\ n <= next_ack_time
           /\ pending_data_ack => n <= Now + ACK_DELAY_MS
  BY <1>1, <1>4, AckTime
<1> HIDE DEF n
<1>6. SpeakTypes'
  BY <1>1, <1>2, <1>3, <1>4, <1>5, Ages DEF SpeakTypes, None
<1>7. Silence'
  BY <1>4 DEF SpeakInv, Silence
<1>8. AckDeadline' = AckDeadline /\ AckDeadline \in Int
  BY <1>1, Deadline DEF AckDeadline, ClosingDeadline
<1>9. ~ Closing =>
        /\ n + sent_age <= Now + ACK_INTERVAL_MS
        /\ data_age # None => pending_data_ack /\ n + data_age <= Now + ACK_DELAY_MS
  <2>1. SUFFICES ASSUME ~ Closing
                 PROVE  /\ n + sent_age <= Now + ACK_INTERVAL_MS
                        /\ data_age # None => pending_data_ack /\ n + data_age <= Now + ACK_DELAY_MS
    OBVIOUS
  <2>2. /\ next_ack_time + sent_age <= Now + ACK_INTERVAL_MS
        /\ data_age # None => /\ pending_data_ack
                              /\ \/ next_ack_time + data_age <= Now + ACK_DELAY_MS
                                 \/ data_age = 0
    BY <2>1 DEF SpeakInv, AckScheduled
  <2>3. n + sent_age <= Now + ACK_INTERVAL_MS
    BY <1>3, <1>5, <2>1, <2>2, Ages
  <2>4. ASSUME data_age # None PROVE pending_data_ack /\ n + data_age <= Now + ACK_DELAY_MS
    <3>1. pending_data_ack /\ n <= Now + ACK_DELAY_MS /\ n <= next_ack_time
      BY <1>5, <2>1, <2>2, <2>4
    <3>2. n + data_age <= Now + ACK_DELAY_MS
      BY <1>3, <1>5, <2>2, <2>4, <3>1, Ages
    <3>3. QED
      BY <3>1, <3>2
  <2>5. QED
    BY <2>3, <2>4
<1>10. AckScheduled'
  <2>1. SUFFICES ASSUME ~ Closing' PROVE AckScheduled'
    BY DEF AckScheduled
  <2>2. Now <= n
    BY <1>1, <1>5, Ages
  <2>3. QED
    BY <1>1, <1>9, <2>1, <2>2 DEF AckScheduled
<1>11. /\ sent_age < ACK_INTERVAL_MS
       /\ data_age # None => data_age < AckDeadline
  <2>1. CASE Closing
    BY <1>1, <1>3, <1>5, <1>8, <2>1, Ages
  <2>2. CASE ~ Closing
    <3>1. AckDeadline = ACK_DELAY_MS
      BY <2>2 DEF AckDeadline
    <3>2. QED
      BY <1>1, <1>3, <1>5, <1>9, <2>2, <3>1, Ages
  <2>3. QED
    BY <2>1, <2>2
<1>12. WaitInTime'
  BY <1>1, <1>5, <1>8, <1>11 DEF WaitInTime
<1>13. SleepInTime'
  BY DEF SleepInTime
<1>14. SpeaksInTime'
  BY <1>1, <1>8 DEF SpeakInv, SpeaksInTime
<1>15. QED
  BY <1>6, <1>7, <1>10, <1>12, <1>13, <1>14 DEF SpeakInv

\* A tick that sends leaves the newest state sent now and the next ack an
\* interval away.
LEMMA SentNow ==
  ASSUME SpeakInv, NEW rto \in Rtos, NEW si \in SendIntervals,
         TickEmptyAck(Now, rto, si) \/ TickSend(Now, rto, si)
  PROVE  /\ QueueOK(sent_states') /\ back'.timestamp = Now
         /\ next_ack_time' = Now + ACK_INTERVAL_MS /\ mindelay_clock' = None
         /\ pending_data_ack' = FALSE
         /\ UNCHANGED << ack_num, shutdown_in_progress >>
<1> DEFINE q == RationalizedQueue
           cur == Rationalized(current_state)
<1>1. QueueOK(sent_states)
  BY DEF SpeakInv, SpeakTypes
<1>2. QueueOK(q) /\ Last(q).num = back.num
  BY <1>1, RationalizedOK
<1>3. Last(q).num \in Nat
  BY <1>1, <1>2 DEF QueueOK, Entry, back, Last
<1>4. /\ next_ack_time' = Now + ACK_INTERVAL_MS /\ mindelay_clock' = None
      /\ pending_data_ack' = FALSE
      /\ UNCHANGED << ack_num, shutdown_in_progress >>
  <2>1. CASE TickEmptyAck(Now, rto, si)
    BY <2>1, Zenon DEF TickEmptyAck, send_in_fragments
  <2>2. CASE TickSend(Now, rto, si)
    BY <2>2, Zenon DEF TickSend, send_in_fragments
  <2>3. QED
    BY <2>1, <2>2
<1>5. \/ \E num \in Nat :
           sent_states' = add_sent_state(q, [timestamp |-> Now, num |-> num, state |-> cur])
      \/ sent_states' = [q EXCEPT ![Len(q)].timestamp = Now]
  <2>1. CASE TickEmptyAck(Now, rto, si)
    <3> DEFINE new_num == IF shutdown_in_progress THEN SHUTDOWN_NUM ELSE Last(q).num + 1
    <3>1. new_num \in Nat
      BY <1>3
    <3>2. sent_states' = add_sent_state(q, [timestamp |-> Now, num |-> new_num, state |-> cur])
      BY <2>1, Zenon DEF TickEmptyAck
    <3> HIDE DEF new_num, q, cur
    <3>3. QED
      BY <3>1, <3>2
  <2>2. CASE TickSend(Now, rto, si)
    <3> DEFINE new_num == IF shutdown_in_progress THEN SHUTDOWN_NUM
                          ELSE IF cur = Last(q).state THEN Last(q).num
                                                      ELSE Last(q).num + 1
    <3>1. new_num \in Nat
      BY <1>3
    <3>2. sent_states' = IF new_num = Last(q).num
                           THEN [q EXCEPT ![Len(q)].timestamp = Now]
                           ELSE add_sent_state(q, [timestamp |-> Now, num |-> new_num,
                                                   state |-> cur])
      BY <2>2, Zenon DEF TickSend
    <3> HIDE DEF new_num, q, cur
    <3>3. QED
      BY <3>1, <3>2, Zenon
  <2>3. QED
    BY <2>1, <2>2
<1> HIDE DEF q, cur
<1>6. QueueOK(sent_states') /\ Last(sent_states').timestamp = Now
  <2>1. ASSUME NEW num \in Nat,
               sent_states' = add_sent_state(q, [timestamp |-> Now, num |-> num, state |-> cur])
        PROVE  QueueOK(sent_states') /\ Last(sent_states').timestamp = Now
    <3> DEFINE entry == [timestamp |-> Now, num |-> num, state |-> cur]
    <3>1. Entry(entry) /\ entry.timestamp = Now
      BY Ages DEF Entry
    <3> HIDE DEF entry
    <3>2. QueueOK(add_sent_state(q, entry)) /\ Last(add_sent_state(q, entry)) = entry
      BY <1>2, <3>1, AddedOK
    <3>3. QED
      BY <2>1, <3>1, <3>2 DEF entry
  <2>2. CASE sent_states' = [q EXCEPT ![Len(q)].timestamp = Now]
    BY <1>2, <2>2, RestampedOK, Ages
  <2>3. QED
    BY <1>5, <2>1, <2>2
<1>7. QED
  BY <1>4, <1>6 DEF back

LEMMA SpeakSends ==
  ASSUME SpeakInv, NEW rto \in Rtos, NEW si \in SendIntervals,
         TickEmptyAck(Now, rto, si) \/ TickSend(Now, rto, si),
         sent_age' = 0, data_age' = None, wake' = wake, loop' \in {"wait", "ended"}
  PROVE  SpeakInv'
<1>1. /\ QueueOK(sent_states') /\ back'.timestamp = Now
      /\ next_ack_time' = Now + ACK_INTERVAL_MS /\ mindelay_clock' = None
      /\ pending_data_ack' = FALSE
      /\ UNCHANGED << ack_num, shutdown_in_progress >>
  BY SentNow
<1>2. SpeakTypes'
  BY <1>1, Ages DEF SpeakInv, SpeakTypes, None
<1>3. Silence'
  BY <1>1, Ages DEF Silence
<1>4. AckScheduled'
  BY <1>1, Ages DEF AckScheduled
<1>5. WaitInTime'
  BY <1>1, Ages DEF WaitInTime
<1>6. SleepInTime'
  BY DEF SleepInTime
<1>7. SpeaksInTime'
  <2>1. AckDeadline' \in Int /\ AckDeadline' >= 0
    BY Deadline DEF AckDeadline, ClosingDeadline
  <2>2. QED
    BY <2>1, Ages DEF SpeaksInTime, None
<1>8. QED
  BY <1>2, <1>3, <1>4, <1>5, <1>6, <1>7 DEF SpeakInv

LEMMA SpeakTick ==
  ASSUME SpeakInv, NEW rto \in Rtos, NEW si \in SendIntervals, Tick(rto, si)
  PROVE  SpeakInv'
<1>1. loop' \in {"wait", "ended"} /\ loop = "tick" /\ wake' = wake
  BY DEF Tick
<1>2. CASE TickSilent(Now, rto, si) /\ UNCHANGED << sent_age, data_age >>
  BY <1>1, <1>2, SpeakSilent
<1>3. CASE /\ TickEmptyAck(Now, rto, si) \/ TickSend(Now, rto, si)
           /\ sent_age' = 0 /\ data_age' = None
  BY <1>1, <1>3, SpeakSends
<1>4. QED
  BY <1>2, <1>3 DEF Tick

\* When the next frame is due, if one is.
LEMMA FrameTime ==
  ASSUME SpeakInv, NEW cur, NEW a, NEW rto \in Rtos, NEW si \in SendIntervals
  PROVE  NextSend(cur, sent_states, a, Now, rto, si) \in Int
<1> DEFINE clock == MindelayClock(cur, sent_states, Now)
           ts == Last(sent_states).timestamp
           frame == ts + si
           delayed == clock + SEND_MINDELAY
           collected == IF clock = None THEN frame ELSE Max({frame, delayed})
           late == ts + rto + ACK_DELAY_MS
<1>1. QueueOK(sent_states) /\ mindelay_clock \in Int
  BY DEF SpeakInv, SpeakTypes
<1>2. ts \in Int
  BY <1>1 DEF QueueOK, Entry, Last
<1>3. clock \in Int
  BY <1>1, Ages DEF MindelayClock
<1> HIDE DEF clock, ts
<1>4. frame \in Int /\ delayed \in Int /\ late \in Int
  BY <1>2, <1>3, Ages
<1>5. collected \in Int
  <2> HIDE DEF frame, delayed
  <2>1. Max({frame, delayed}) \in Int
    BY <1>4, MaxOfTwo
  <2>2. QED
    BY <1>4, <2>1
<1>6. NextSend(cur, sent_states, a, Now, rto, si) \in {collected, late, None}
  <2>1. NextSend(cur, sent_states, a, Now, rto, si) =
          LET listening == last_heard + ACTIVE_RETRY_TIMEOUT_MS > Now
              q == sent_states
          IN  CASE cur # Last(q).state -> collected
                [] cur = Last(q).state /\ listening /\ cur # q[a].state -> collected
                [] cur = Last(q).state /\ listening /\ cur = q[a].state /\ cur # q[1].state -> late
                [] OTHER -> None
    BY DEF NextSend, clock, ts
  <2> HIDE DEF collected, late
  <2>2. QED
    BY <2>1
<1>7. QED
  <2> HIDE DEF collected, late
  <2>1. QED
    BY <1>4, <1>5, <1>6 DEF None

\* The sleep is one unit, or ends when the ack is due at the latest.
LEMMA SleepLength ==
  ASSUME SpeakInv, NEW rto \in Rtos, NEW si \in SendIntervals, Wait(rto, si)
  PROVE  LET n == NextAckTime(sent_states, Now, si)
         IN  /\ wake' \in Int /\ Now < wake'
             /\ wake' = Now + 1 \/ wake' <= n
<1> DEFINE n == NextAckTime(sent_states, Now, si)
           f == NextSend(current_state, sent_states, assumed_receiver, Now, rto, si)
           m == Min({f, n})
           e == IF f = None THEN n ELSE m
           w == Max({Now, e})
           r == w - Now
           p == Min({POLL_CAP_MS, r})
           d == Max({1, p})
<1>1. n \in Int
  BY AckTime DEF back
<1>2. f \in Int
  BY FrameTime
<1>3. wake' = Now + d
  BY DEF Wait, WakeTime
<1> HIDE DEF n, f
<1>4. m \in Int /\ m <= n
  <2>1. m = IF f <= n THEN f ELSE n
    BY <1>1, <1>2, MaxOfTwo
  <2> HIDE DEF m
  <2>2. QED
    BY <1>1, <1>2, <2>1
<1> HIDE DEF m
<1>5. e \in Int /\ e <= n
  BY <1>1, <1>4
<1> HIDE DEF e
<1>6. w \in Int /\ (w = Now \/ w <= n)
  BY <1>1, <1>5, Ages, MaxOfTwo
<1> HIDE DEF w
<1>7. r \in Int /\ (r = 0 \/ r <= n - Now)
  BY <1>1, <1>6, Ages
<1> HIDE DEF r
<1>8. p \in Int /\ p <= r
  <2>1. POLL_CAP_MS \in Int
    OBVIOUS
  <2>2. p = IF POLL_CAP_MS <= r THEN POLL_CAP_MS ELSE r
    BY <1>7, <2>1, MaxOfTwo
  <2> HIDE DEF p
  <2>3. QED
    BY <1>7, <2>1, <2>2
<1> HIDE DEF p
<1>9. d \in Int /\ d >= 1 /\ (d = 1 \/ d <= p)
  BY <1>8, MaxOfTwo
<1> HIDE DEF d
<1>10. wake' \in Int /\ Now < wake' /\ (wake' = Now + 1 \/ wake' <= n)
  BY <1>1, <1>3, <1>7, <1>8, <1>9, Ages
<1>11. QED
  BY <1>10 DEF n

LEMMA Sooner ==
  ASSUME NEW age \in Int, NEW now \in Int, NEW early \in Int, NEW late \in Int,
         NEW limit \in Int, early <= late, age + (late - now) <= limit
  PROVE  age + (early - now) <= limit
OBVIOUS

LEMMA SpeakWait ==
  ASSUME SpeakInv, NEW rto \in Rtos, NEW si \in SendIntervals, Wait(rto, si)
  PROVE  SpeakInv'
<1> DEFINE n == NextAckTime(sent_states, Now, si)
<1>1. /\ UNCHANGED << sent_states, ack_num, pending_data_ack, shutdown_in_progress >>
      /\ UNCHANGED << sent_age, data_age >>
      /\ loop = "wait" /\ loop' = "receive" /\ next_ack_time' = n
      /\ mindelay_clock' \in {Now, mindelay_clock} /\ Closing' = Closing
  <2>1. /\ UNCHANGED << sent_states, ack_num, pending_data_ack, shutdown_in_progress >>
        /\ UNCHANGED << sent_age, data_age >>
        /\ loop = "wait" /\ loop' = "receive" /\ next_ack_time' = n
        /\ mindelay_clock' \in {Now, mindelay_clock}
    BY Zenon DEF Wait, wait_time, MindelayClock
  <2>2. QED
    BY <2>1 DEF Closing
<1>2. /\ QueueOK(sent_states) /\ sent_age \in Nat /\ data_age \in Nat \cup {None}
      /\ next_ack_time \in Int /\ mindelay_clock \in Int /\ wake \in Int
  BY DEF SpeakInv, SpeakTypes
<1>3. /\ n \in Int
      /\ Closing =>
           (Now < n => /\ sent_age + (n - Now) <= ACK_INTERVAL_MS
                       /\ data_age # None => data_age + (n - Now) <= AckDeadline)
      /\ ~ Closing =>
           n = next_ack_time \/ (pending_data_ack /\ next_ack_time > Now + ACK_DELAY_MS)
  BY AckTime DEF back
<1>4. wake' \in Int /\ Now < wake' /\ (wake' = Now + 1 \/ wake' <= n)
  BY SleepLength
<1> HIDE DEF n
<1>5. /\ sent_age < ACK_INTERVAL_MS
      /\ data_age # None => data_age < AckDeadline
      /\ ~ Closing =>
           /\ Now < next_ack_time
           /\ pending_data_ack => next_ack_time <= Now + ACK_DELAY_MS
  BY <1>1 DEF SpeakInv, WaitInTime
<1>6. ~ Closing => n = next_ack_time
  <2>1. next_ack_time <= Now + ACK_DELAY_MS => ~ (next_ack_time > Now + ACK_DELAY_MS)
    BY <1>2, Ages
  <2>2. QED
    BY <1>3, <1>5, <2>1, Zenon
<1>7. SpeakTypes'
  BY <1>1, <1>2, <1>3, <1>4, Ages DEF SpeakTypes
<1>8. Silence'
  BY <1>1 DEF SpeakInv, Silence, back
<1>9. AckDeadline' = AckDeadline /\ AckDeadline \in Int
  BY <1>1, Deadline DEF AckDeadline, ClosingDeadline
<1>10. ~ Closing =>
         /\ Now < n
         /\ n + sent_age <= Now + ACK_INTERVAL_MS
         /\ data_age # None => pending_data_ack /\ n + data_age <= Now + ACK_DELAY_MS
  BY <1>1, <1>5, <1>6 DEF SpeakInv, AckScheduled
<1>11. AckScheduled'
  <2>1. SUFFICES ASSUME ~ Closing' PROVE AckScheduled'
    BY DEF AckScheduled
  <2>2. Now < n => Now <= n
    BY <1>3, Ages
  <2>3. QED
    BY <1>1, <1>10, <2>1, <2>2 DEF AckScheduled
<1>12. WaitInTime'
  BY <1>1 DEF WaitInTime
<1>13. /\ sent_age + (wake' - Now) <= ACK_INTERVAL_MS
       /\ data_age # None => data_age + (wake' - Now) <= AckDeadline
  <2>1. CASE wake' = Now + 1
    BY <1>2, <1>5, <1>9, <2>1, Ages
  <2>2. CASE wake' <= n
    <3>1. Now < n
      BY <1>3, <1>4, <2>2, Ages
    <3>2. /\ sent_age + (n - Now) <= ACK_INTERVAL_MS
          /\ data_age # None => data_age + (n - Now) <= AckDeadline
      <4>1. CASE Closing
        BY <1>3, <3>1, <4>1
      <4>2. CASE ~ Closing
        <5>1. AckDeadline = ACK_DELAY_MS
          BY <4>2 DEF AckDeadline
        <5>2. QED
          BY <1>2, <1>3, <1>10, <4>2, <5>1, Ages
      <4>3. QED
        BY <4>1, <4>2
    <3>3. sent_age + (wake' - Now) <= ACK_INTERVAL_MS
      <4>1. n \in Int /\ sent_age \in Int /\ wake' \in Int /\ Now \in Int
        BY <1>2, <1>3, <1>4, Ages
      <4>2. sent_age + (n - Now) <= ACK_INTERVAL_MS /\ ACK_INTERVAL_MS \in Int
        BY <3>2, Ages
      <4>3. QED
        BY <2>2, <4>1, <4>2, Sooner
    <3>4. ASSUME data_age # None PROVE data_age + (wake' - Now) <= AckDeadline
      <4>1. data_age \in Nat /\ data_age + (n - Now) <= AckDeadline
        BY <1>2, <3>2, <3>4
      <4>2. data_age \in Int /\ n \in Int /\ wake' \in Int /\ Now \in Int /\ AckDeadline \in Int
        BY <1>3, <1>4, <1>9, <4>1, Ages
      <4>3. QED
        BY <2>2, <4>1, <4>2, Sooner
    <3>5. QED
      BY <3>3, <3>4
  <2>3. QED
    BY <1>4, <2>1, <2>2
<1>14. SleepInTime'
  <2>1. Now < n => wake' <= n
    BY <1>3, <1>4, Ages
  <2>2. QED
    BY <1>1, <1>4, <1>9, <1>10, <1>13, <2>1 DEF SleepInTime
<1>15. SpeaksInTime'
  BY <1>1, <1>9 DEF SpeakInv, SpeaksInTime
<1>16. QED
  BY <1>7, <1>8, <1>11, <1>12, <1>14, <1>15 DEF SpeakInv

-----------------------------------------------------------------------------
LEMMA SpeakStep == SpeakInv /\ [Next]_vars => SpeakInv'
<1>1. SUFFICES ASSUME SpeakInv, [Next]_vars PROVE SpeakInv'
  OBVIOUS
<1>2. ASSUME NEW e \in Events, Type(e) PROVE SpeakInv'
  BY <1>1, <1>2, SpeakType
<1>3. CASE StartShutdown
  BY <1>1, <1>3, SpeakStartShutdown
<1>4. CASE Drained
  BY <1>1, <1>4, SpeakDrained
<1>5. ASSUME NEW rto \in Rtos, NEW si \in SendIntervals, Tick(rto, si) PROVE SpeakInv'
  BY <1>1, <1>5, SpeakTick
<1>6. ASSUME NEW rto \in Rtos, NEW si \in SendIntervals, Wait(rto, si) PROVE SpeakInv'
  BY <1>1, <1>6, SpeakWait
<1>7. ASSUME NEW ack \in DOMAIN peer, NEW news \in {"nothing", "echo", "data"},
             NEW num \in {0, SHUTDOWN_NUM}, Hear(ack, news, num)
      PROVE  SpeakInv'
  BY <1>1, <1>7, SpeakHear
<1>8. ASSUME NEW inst \in wire, Deliver(inst) PROVE SpeakInv'
  BY <1>1, <1>8, SpeakDeliver
<1>9. CASE Clock
  BY <1>1, <1>9, SpeakClock
<1>10. CASE UNCHANGED vars
  <2>1. /\ UNCHANGED << sent_states, ack_num, next_ack_time, mindelay_clock, pending_data_ack,
                        shutdown_in_progress >>
        /\ UNCHANGED << loop, wake, sent_age, data_age >>
    BY <1>10 DEF vars, senderVars
  <2>2. QED
    BY <1>1, <2>1 DEF SpeakInv, SpeakTypes, Silence, AckScheduled, WaitInTime, SleepInTime,
                      SpeaksInTime, AckDeadline, Closing, back
<1>11. QED
  BY <1>1, <1>2, <1>3, <1>4, <1>5, <1>6, <1>7, <1>8, <1>9, <1>10 DEF Next, LoopStep

\* The client speaks in time, for every ack interval and delay, whatever retransmission
\* timeouts and frame intervals the estimator yields, however long the loop sleeps, and
\* whatever the peer answers and when, also when it ends the session with an ack still
\* due (compute_timers, tick and wait_time as run() calls them).
THEOREM SpeaksInTimeAlways == Spec => []SpeaksInTime
<1>1. Init => SpeakInv
  BY SpeakInit
<1>2. SpeakInv /\ [Next]_vars => SpeakInv'
  BY SpeakStep
<1>3. SpeakInv => SpeaksInTime
  BY DEF SpeakInv
<1>4. QED
  BY <1>1, <1>2, <1>3, PTL DEF Spec
=============================================================================
