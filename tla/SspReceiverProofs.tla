------------------------- MODULE SspReceiverProofs --------------------------
(***************************************************************************)
(* Lemmas about what the receiver of a stream works with.                  *)
(*                                                                         *)
(* The operations of UserStream, on windows of one common stream: a stream *)
(* s is the window (lo, hi] of T when it consists of the events lo+1 .. hi *)
(* of T.  Every stream the two ends of a link keep, and every diff between *)
(* them, is such a window of what the user entered.                        *)
(*                                                                         *)
(* The queue of held states, for states of any kind: what throwing away,   *)
(* appending and slotting in do to its order and its newest state.         *)
(***************************************************************************)
EXTENDS SspReceiver, SequenceTheorems, WellFoundedInduction, TLAPS

\* A nonempty set of natural numbers has a least element.
LEMMA LeastElement ==
  ASSUME NEW S \in SUBSET Nat, S # {}
  PROVE  \E m \in S : \A n \in S : m <= n
<1>1. \E m \in S : \A n \in S : ~ (<< n, m >> \in OpToRel(<, Nat))
  BY WFMin, NatLessThanWellFounded
<1>2. PICK m \in S : \A n \in S : ~ (<< n, m >> \in OpToRel(<, Nat))
  BY <1>1
<1>3. \A n \in S : m <= n
  <2>1. SUFFICES ASSUME NEW n \in S, n < m PROVE FALSE
    BY SMT
  <2>2. << n, m >> \in OpToRel(<, Nat)
    BY <2>1 DEF OpToRel
  <2>3. QED
    BY <2>2, <1>2
<1>4. QED
  BY <1>3

\* The same window twice is the same stream.
LEMMA WindowUnique ==
  ASSUME NEW E, NEW T, NEW lo \in Nat, NEW hi \in Nat, NEW s, NEW t,
         IsWindow(s, E, T, lo, hi), IsWindow(t, E, T, lo, hi)
  PROVE  s = t
BY SeqEqual DEF IsWindow

\* The common prefix of two windows that start together is the shorter one.
LEMMA CommonPrefixOfWindows ==
  ASSUME NEW E, NEW T, NEW lo \in Nat, NEW mid \in Nat, NEW hi \in Nat,
         lo <= mid, mid <= hi, NEW a, NEW b,
         IsWindow(a, E, T, lo, hi), IsWindow(b, E, T, lo, mid)
  PROVE  common_prefix_len(a, b) = mid - lo
<1> DEFINE P(k) == /\ k <= Len(b)
                   /\ \A i \in 1 .. k : a[i] = b[i]
                   /\ k = Len(a) \/ k = Len(b) \/ a[k + 1] # b[k + 1]
<1>1. /\ Len(a) = hi - lo /\ Len(b) = mid - lo
      /\ \A i \in 1 .. mid - lo : a[i] = b[i]
  BY DEF IsWindow
<1>2. mid - lo \in 0 .. Len(a) /\ P(mid - lo)
  BY <1>1
<1>3. \A k \in 0 .. Len(a) : P(k) => k = mid - lo
  BY <1>1
<1> HIDE DEF P
<1>4. (CHOOSE k \in 0 .. Len(a) : P(k)) = mid - lo
  BY <1>2, <1>3
<1>5. QED
  BY <1>4 DEF common_prefix_len, P

\* What is left after dropping the first k events of a window.
LEMMA DropFromWindow ==
  ASSUME NEW E, NEW T, NEW lo \in Nat, NEW mid \in Nat, NEW hi \in Nat,
         lo <= mid, mid <= hi, NEW a, IsWindow(a, E, T, lo, hi)
  PROVE  IsWindow(DropFirst(a, mid - lo), E, T, mid, hi)
<1>1. a \in Seq(E) /\ Len(a) = hi - lo /\ \A i \in 1 .. hi - lo : a[i] = T[lo + i]
  BY DEF IsWindow
<1>2. \A i \in mid - lo + 1 .. Len(a) : a[i] \in E
  BY <1>1, ElementOfSeq
<1> DEFINE d == SubSeq(a, mid - lo + 1, Len(a))
<1>3. /\ d \in Seq(E)
      /\ Len(d) = hi - mid
      /\ \A i \in 1 .. hi - mid : d[i] = a[mid - lo + i]
  <2>1. /\ d \in Seq(E)
        /\ Len(d) = IF mid - lo + 1 <= Len(a) THEN Len(a) - (mid - lo + 1) + 1 ELSE 0
        /\ \A i \in 1 .. Len(a) - (mid - lo + 1) + 1 : d[i] = a[(mid - lo + 1) + i - 1]
    BY <1>1, <1>2, SubSeqProperties
  <2>2. QED
    BY <2>1, <1>1
<1>4. \A i \in 1 .. hi - mid : d[i] = T[mid + i]
  <2>1. SUFFICES ASSUME NEW i \in 1 .. hi - mid PROVE d[i] = T[mid + i]
    OBVIOUS
  <2>2. d[i] = a[mid - lo + i]
    BY <1>3
  <2>3. mid - lo + i \in 1 .. hi - lo /\ lo + (mid - lo + i) = mid + i
    OBVIOUS
  <2>4. QED
    BY <2>2, <2>3, <1>1
<1>5. DropFirst(a, mid - lo) = d
  BY DEF DropFirst
<1> HIDE DEF d
<1>6. QED
  BY <1>3, <1>4, <1>5 DEF IsWindow

\* diff_from a window to a shorter one is the window between their ends.
LEMMA DiffOfWindows ==
  ASSUME NEW E, NEW T, NEW lo \in Nat, NEW mid \in Nat, NEW hi \in Nat,
         lo <= mid, mid <= hi, NEW a, NEW b,
         IsWindow(a, E, T, lo, hi), IsWindow(b, E, T, lo, mid)
  PROVE  IsWindow(diff_from(a, b), E, T, mid, hi)
BY CommonPrefixOfWindows, DropFromWindow DEF diff_from

\* subtract moves the start of a window to the end of the known one.
LEMMA SubtractFromWindow ==
  ASSUME NEW E, NEW T, NEW lo \in Nat, NEW mid \in Nat, NEW hi \in Nat,
         lo <= mid, mid <= hi, NEW a, NEW b,
         IsWindow(a, E, T, lo, hi), IsWindow(b, E, T, lo, mid)
  PROVE  IsWindow(subtract(a, b), E, T, mid, hi)
<1>1. CASE a = b
  <2>1. mid = hi
    BY <1>1 DEF IsWindow
  <2>2. subtract(a, b) = << >>
    BY <1>1 DEF subtract
  <2>3. QED
    BY <2>1, <2>2, EmptySeq DEF IsWindow
<1>2. CASE a # b
  BY <1>2, CommonPrefixOfWindows, DropFromWindow DEF subtract
<1>3. QED
  BY <1>1, <1>2

\* apply_string joins a window and the diff that continues it.
LEMMA ApplyToWindow ==
  ASSUME NEW E, NEW T, NEW lo \in Nat, NEW mid \in Nat, NEW hi \in Nat,
         lo <= mid, mid <= hi, NEW a, NEW d,
         IsWindow(a, E, T, lo, mid), IsWindow(d, E, T, mid, hi)
  PROVE  IsWindow(apply_string(a, d), E, T, lo, hi)
<1>1. /\ a \in Seq(E) /\ Len(a) = mid - lo
      /\ \A i \in 1 .. mid - lo : a[i] = T[lo + i]
      /\ d \in Seq(E) /\ Len(d) = hi - mid
      /\ \A i \in 1 .. hi - mid : d[i] = T[mid + i]
  BY DEF IsWindow
<1>2. /\ a \o d \in Seq(E)
      /\ Len(a \o d) = Len(a) + Len(d)
      /\ \A i \in 1 .. Len(a) + Len(d) :
           (a \o d)[i] = IF i <= Len(a) THEN a[i] ELSE d[i - Len(a)]
  BY <1>1, ConcatProperties
<1>3. \A i \in 1 .. hi - lo : (a \o d)[i] = T[lo + i]
  <2>1. SUFFICES ASSUME NEW i \in 1 .. hi - lo PROVE (a \o d)[i] = T[lo + i]
    OBVIOUS
  <2>2. (a \o d)[i] = IF i <= mid - lo THEN a[i] ELSE d[i - (mid - lo)]
    BY <1>1, <1>2
  <2>3. CASE i <= mid - lo
    BY <2>2, <2>3, <1>1
  <2>4. CASE ~ (i <= mid - lo)
    <3>1. i - (mid - lo) \in 1 .. hi - mid /\ mid + (i - (mid - lo)) = lo + i
      BY <2>4
    <3>2. QED
      BY <2>2, <2>4, <3>1, <1>1
  <2>5. QED
    BY <2>3, <2>4
<1> DEFINE ad == a \o d
<1>4. ad \in Seq(E) /\ Len(ad) = hi - lo /\ \A i \in 1 .. hi - lo : ad[i] = T[lo + i]
  BY <1>1, <1>2, <1>3
<1>5. apply_string(a, d) = ad
  BY DEF apply_string
<1> HIDE DEF ad
<1>6. QED
  BY <1>4, <1>5 DEF IsWindow

\* Entering one more event extends the stream and keeps its windows.
LEMMA AppendKeepsWindow ==
  ASSUME NEW E, NEW T \in Seq(E), NEW lo \in Nat, NEW hi \in Nat,
         lo <= hi, hi <= Len(T), NEW s, IsWindow(s, E, T, lo, hi), NEW e \in E
  PROVE  IsWindow(s, E, Append(T, e), lo, hi)
<1>1. \A i \in 1 .. Len(T) : Append(T, e)[i] = T[i]
  BY AppendProperties
<1>2. QED
  BY <1>1, LenProperties DEF IsWindow

LEMMA AppendExtendsWindow ==
  ASSUME NEW E, NEW T \in Seq(E), NEW lo \in Nat, lo <= Len(T),
         NEW s, IsWindow(s, E, T, lo, Len(T)), NEW e \in E
  PROVE  IsWindow(s \o << e >>, E, Append(T, e), lo, Len(T) + 1)
<1>1. /\ \A i \in 1 .. Len(T) : Append(T, e)[i] = T[i]
      /\ Append(T, e)[Len(T) + 1] = e
      /\ Len(T) \in Nat
  BY AppendProperties, LenProperties
<1>2. s \in Seq(E) /\ Len(s) = Len(T) - lo
  BY DEF IsWindow
<1>3. s \o << e >> = Append(s, e)
  BY <1>2, AppendIsConcat
<1>4. /\ Append(s, e) \in Seq(E) /\ Len(Append(s, e)) = Len(s) + 1
      /\ \A i \in 1 .. Len(s) : Append(s, e)[i] = s[i]
      /\ Append(s, e)[Len(s) + 1] = e
  BY <1>2, AppendProperties
<1>5. /\ Len(s) \in Nat /\ lo + Len(s) = Len(T)
      /\ \A i \in 1 .. Len(s) : lo + i \in 1 .. Len(T) /\ s[i] = T[lo + i]
  BY <1>1, <1>2 DEF IsWindow
<1>6. ASSUME NEW i \in 1 .. Len(s) + 1
      PROVE  Append(s, e)[i] = Append(T, e)[lo + i]
  <2>1. CASE i \in 1 .. Len(s)
    BY <2>1, <1>1, <1>4, <1>5
  <2>2. CASE i = Len(s) + 1
    <3>1. lo + i = Len(T) + 1
      BY <2>2, <1>1, <1>5
    <3>2. QED
      BY <3>1, <2>2, <1>1, <1>4
  <2>3. QED
    BY <2>1, <2>2, <1>5
<1>7. (Len(T) + 1) - lo = Len(s) + 1
  BY <1>1, <1>5
<1>8. QED
  BY <1>3, <1>4, <1>6, <1>7 DEF IsWindow

-----------------------------------------------------------------------------
(* Sequences. *)

LEMMA FunctionIsSeq ==
  ASSUME NEW n \in Nat, NEW S, NEW f \in [1 .. n -> S]
  PROVE  f \in Seq(S) /\ Len(f) = n
BY SeqDef

LEMMA NonEmptySeq ==
  ASSUME NEW S, NEW s \in Seq(S), s # << >>
  PROVE  /\ Len(s) \in Nat /\ Len(s) >= 1
         /\ \A i \in 1 .. Len(s) : s[i] \in S
         /\ s[1] \in S /\ Last(s) \in S /\ Last(s) = s[Len(s)]
<1>1. Len(s) \in Nat \ {0}
  BY EmptySeq
<1>2. \A i \in 1 .. Len(s) : s[i] \in S
  BY ElementOfSeq
<1>3. QED
  BY <1>1, <1>2 DEF Last

\* RemoveAt skips one position.
LEMMA RemoveAtProperties ==
  ASSUME NEW S, NEW s \in Seq(S), NEW k \in 1 .. Len(s)
  PROVE  /\ RemoveAt(s, k) \in Seq(S)
         /\ Len(RemoveAt(s, k)) = Len(s) - 1
         /\ \A i \in 1 .. Len(s) - 1 :
              RemoveAt(s, k)[i] = IF i < k THEN s[i] ELSE s[i + 1]
<1>1. Len(s) \in Nat /\ \A i \in 1 .. Len(s) : s[i] \in S
  BY LenProperties, ElementOfSeq
<1> DEFINE a == SubSeq(s, 1, k - 1)
           b == SubSeq(s, k + 1, Len(s))
<1>2. /\ a \in Seq(S) /\ Len(a) = k - 1
      /\ \A i \in 1 .. k - 1 : a[i] = s[i]
  <2>1. \A i \in 1 .. k - 1 : s[i] \in S
    BY <1>1
  <2>2. /\ a \in Seq(S)
        /\ Len(a) = IF 1 <= k - 1 THEN (k - 1) - 1 + 1 ELSE 0
        /\ \A i \in 1 .. (k - 1) - 1 + 1 : a[i] = s[1 + i - 1]
    BY <2>1, SubSeqProperties
  <2> HIDE DEF a
  <2>3. QED
    BY <2>2, <1>1
<1>3. /\ b \in Seq(S) /\ Len(b) = Len(s) - k
      /\ \A i \in 1 .. Len(s) - k : b[i] = s[k + i]
  <2>1. \A i \in k + 1 .. Len(s) : s[i] \in S
    BY <1>1
  <2>2. /\ b \in Seq(S)
        /\ Len(b) = IF k + 1 <= Len(s) THEN Len(s) - (k + 1) + 1 ELSE 0
        /\ \A i \in 1 .. Len(s) - (k + 1) + 1 : b[i] = s[(k + 1) + i - 1]
    BY <2>1, <1>1, SubSeqProperties
  <2> HIDE DEF b
  <2>3. QED
    BY <2>2, <1>1
<1>4. RemoveAt(s, k) = a \o b
  BY DEF RemoveAt
<1> HIDE DEF a, b
<1>5. /\ a \o b \in Seq(S)
      /\ Len(a \o b) = Len(a) + Len(b)
      /\ \A i \in 1 .. Len(a) + Len(b) :
           (a \o b)[i] = IF i <= Len(a) THEN a[i] ELSE b[i - Len(a)]
  BY <1>2, <1>3, ConcatProperties
<1> DEFINE r == a \o b
<1>6. ASSUME NEW i \in 1 .. Len(s) - 1
      PROVE  r[i] = IF i < k THEN s[i] ELSE s[i + 1]
  <2>1. r[i] = IF i <= k - 1 THEN a[i] ELSE b[i - (k - 1)]
    BY <1>2, <1>3, <1>5, <1>1
  <2> HIDE DEF r
  <2>2. CASE i < k
    BY <2>1, <2>2, <1>2
  <2>3. CASE ~ (i < k)
    <3>1. i - (k - 1) \in 1 .. Len(s) - k /\ k + (i - (k - 1)) = i + 1
      BY <2>3, <1>1
    <3>2. ~ (i <= k - 1)
      BY <2>3
    <3>3. QED
      BY <2>1, <3>1, <3>2, <2>3, <1>3
  <2>4. QED
    BY <2>2, <2>3
<1>7. r \in Seq(S) /\ Len(r) = Len(s) - 1
  BY <1>5, <1>2, <1>3, <1>1
<1>8. RemoveAt(s, k) = r
  BY <1>4
<1> HIDE DEF r
<1>9. QED
  BY <1>6, <1>7, <1>8

\* The suffix of a sequence from position k on.
LEMMA SuffixProperties ==
  ASSUME NEW S, NEW s \in Seq(S), NEW k \in 1 .. Len(s)
  PROVE  /\ SubSeq(s, k, Len(s)) \in Seq(S)
         /\ Len(SubSeq(s, k, Len(s))) = Len(s) - k + 1
         /\ \A i \in 1 .. Len(s) - k + 1 : SubSeq(s, k, Len(s))[i] = s[k + i - 1]
         /\ SubSeq(s, k, Len(s)) # << >>
<1>1. Len(s) \in Nat /\ \A i \in k .. Len(s) : s[i] \in S
  BY LenProperties, ElementOfSeq
<1> DEFINE r == SubSeq(s, k, Len(s))
<1>2. /\ r \in Seq(S)
      /\ Len(r) = IF k <= Len(s) THEN Len(s) - k + 1 ELSE 0
      /\ \A i \in 1 .. Len(s) - k + 1 : r[i] = s[k + i - 1]
  BY <1>1, SubSeqProperties
<1> HIDE DEF r
<1>3. Len(r) = Len(s) - k + 1 /\ Len(r) >= 1
  BY <1>1, <1>2
<1>4. r # << >>
  BY <1>3, EmptySeq
<1>5. QED
  BY <1>2, <1>3, <1>4 DEF r

\* InsertAt shifts the positions from k on by one.
LEMMA InsertAtProperties ==
  ASSUME NEW S, NEW s \in Seq(S), NEW k \in 1 .. Len(s), NEW e \in S
  PROVE  /\ InsertAt(s, k, e) \in Seq(S)
         /\ Len(InsertAt(s, k, e)) = Len(s) + 1
         /\ \A i \in 1 .. Len(s) + 1 :
              InsertAt(s, k, e)[i] = IF i < k THEN s[i]
                                     ELSE IF i = k THEN e ELSE s[i - 1]
<1>1. Len(s) \in Nat /\ \A i \in 1 .. Len(s) : s[i] \in S
  BY LenProperties, ElementOfSeq
<1> DEFINE a == SubSeq(s, 1, k - 1)
           b == SubSeq(s, k, Len(s))
           c == a \o << e >>
           r == c \o b
<1>2. /\ a \in Seq(S) /\ Len(a) = k - 1
      /\ \A i \in 1 .. k - 1 : a[i] = s[i]
  <2>1. \A i \in 1 .. k - 1 : s[i] \in S
    BY <1>1
  <2>2. /\ a \in Seq(S)
        /\ Len(a) = IF 1 <= k - 1 THEN (k - 1) - 1 + 1 ELSE 0
        /\ \A i \in 1 .. (k - 1) - 1 + 1 : a[i] = s[1 + i - 1]
    BY <2>1, SubSeqProperties
  <2> HIDE DEF a
  <2>3. QED
    BY <2>2, <1>1
<1>3. /\ b \in Seq(S) /\ Len(b) = Len(s) - k + 1
      /\ \A i \in 1 .. Len(s) - k + 1 : b[i] = s[k + i - 1]
  BY SuffixProperties
<1> HIDE DEF a, b
<1>4. /\ c \in Seq(S) /\ Len(c) = k
      /\ \A i \in 1 .. k - 1 : c[i] = s[i]
      /\ c[k] = e
  <2>1. c = Append(a, e)
    BY <1>2, AppendIsConcat
  <2>2. /\ Append(a, e) \in Seq(S) /\ Len(Append(a, e)) = Len(a) + 1
        /\ \A i \in 1 .. Len(a) : Append(a, e)[i] = a[i]
        /\ Append(a, e)[Len(a) + 1] = e
    BY <1>2, AppendProperties
  <2> HIDE DEF c
  <2>3. QED
    BY <2>1, <2>2, <1>2
<1> HIDE DEF c
<1>5. /\ r \in Seq(S) /\ Len(r) = Len(c) + Len(b)
      /\ \A i \in 1 .. Len(c) + Len(b) :
           r[i] = IF i <= Len(c) THEN c[i] ELSE b[i - Len(c)]
  BY <1>3, <1>4, ConcatProperties
<1>6. InsertAt(s, k, e) = r
  BY DEF InsertAt, r, c, a, b
<1> HIDE DEF r
<1>7. ASSUME NEW i \in 1 .. Len(s) + 1
      PROVE  r[i] = IF i < k THEN s[i] ELSE IF i = k THEN e ELSE s[i - 1]
  <2>1. r[i] = IF i <= k THEN c[i] ELSE b[i - k]
    BY <1>1, <1>3, <1>4, <1>5
  <2>2. CASE i <= k
    BY <2>1, <2>2, <1>4
  <2>3. CASE ~ (i <= k)
    <3>1. i - k \in 1 .. Len(s) - k + 1 /\ k + (i - k) - 1 = i - 1
      BY <2>3, <1>1
    <3>2. QED
      BY <2>1, <2>3, <3>1, <1>3
  <2>4. QED
    BY <2>2, <2>3
<1>8. QED
  BY <1>1, <1>3, <1>4, <1>5, <1>6, <1>7

\* A set of positions that is not empty has a first one.
LEMMA FirstPosition ==
  ASSUME NEW n \in Nat, NEW P \in SUBSET (1 .. n), P # {}
  PROVE  \E i \in P : \A j \in 1 .. i - 1 : j \notin P
<1>1. P \in SUBSET Nat
  OBVIOUS
<1>2. PICK i \in P : \A j \in P : i <= j
  BY <1>1, LeastElement
<1>3. \A j \in 1 .. i - 1 : j \notin P
  BY <1>2
<1>4. QED
  BY <1>3

-----------------------------------------------------------------------------
(* The receiver. *)

StrictlySorted(q) == \A i, j \in 1 .. Len(q) : i < j => q[i].num < q[j].num

\* process_throwaway_until keeps a suffix: the newest state, the order, and
\* every state numbered n or above.
LEMMA ThrowAway ==
  ASSUME NEW Held, \A h \in Held : h.num \in Nat,
         NEW q \in Seq(Held), q # << >>, StrictlySorted(q),
         NEW n \in Nat, LeavesSome(q, n)
  PROVE  /\ ThrowAwayUntil(q, n) \in Seq(Held) /\ ThrowAwayUntil(q, n) # << >>
         /\ StrictlySorted(ThrowAwayUntil(q, n))
         /\ Last(ThrowAwayUntil(q, n)) = Last(q)
         /\ Len(ThrowAwayUntil(q, n)) <= Len(q)
         /\ \A i \in 1 .. Len(ThrowAwayUntil(q, n)) :
              \E j \in 1 .. Len(q) : ThrowAwayUntil(q, n)[i] = q[j]
         /\ \A j \in 1 .. Len(q) : q[j].num >= n => Holds(ThrowAwayUntil(q, n), q[j].num)
<1> DEFINE P == {i \in 1 .. Len(q) : q[i].num >= n}
           k == ThrowAwayUntil(q, n)
<1>1. /\ Len(q) \in Nat /\ Len(q) >= 1
      /\ \A i \in 1 .. Len(q) : q[i] \in Held
      /\ \A i \in 1 .. Len(q) : q[i].num \in Nat
  <2>1. Len(q) \in Nat /\ Len(q) >= 1 /\ \A i \in 1 .. Len(q) : q[i] \in Held
    BY NonEmptySeq
  <2>2. QED
    BY <2>1
<1>2. PICK g \in P : \A j \in 1 .. g - 1 : j \notin P
  <2>1. P # {}
    BY DEF LeavesSome
  <2>2. P \in SUBSET (1 .. Len(q))
    OBVIOUS
  <2> HIDE DEF P
  <2>3. QED
    BY <2>1, <2>2, <1>1, FirstPosition
<1>3. /\ g \in 1 .. Len(q) /\ q[g].num >= n
      /\ \A j \in 1 .. g - 1 : q[j].num < n
  BY <1>1, <1>2
<1> DEFINE C(i) == q[i].num >= n /\ \A j \in 1 .. i - 1 : q[j].num < n
           f == CHOOSE i \in 1 .. Len(q) : C(i)
<1>4. f \in 1 .. Len(q) /\ C(f)
  <2>1. C(g)
    BY <1>3
  <2> HIDE DEF C
  <2>2. QED
    BY <2>1, <1>3
<1>5. k = SubSeq(q, f, Len(q))
  BY DEF ThrowAwayUntil
<1>6. f \in 1 .. Len(q) /\ \A j \in 1 .. f - 1 : q[j].num < n
  BY <1>4
<1> HIDE DEF f, C, P
<1>7. /\ k \in Seq(Held) /\ Len(k) = Len(q) - f + 1 /\ k # << >>
      /\ \A i \in 1 .. Len(q) - f + 1 : k[i] = q[f + i - 1]
  BY <1>5, <1>6, SuffixProperties
<1> HIDE DEF k
<1>8. \A i \in 1 .. Len(k) : f + i - 1 \in 1 .. Len(q) /\ k[i] = q[f + i - 1]
  BY <1>1, <1>6, <1>7
<1>9. StrictlySorted(k)
  <2>1. SUFFICES ASSUME NEW i \in 1 .. Len(k), NEW j \in 1 .. Len(k), i < j
                 PROVE  k[i].num < k[j].num
    BY DEF StrictlySorted
  <2>2. f + i - 1 < f + j - 1
    BY <2>1, <1>6, <1>7, <1>1
  <2>3. QED
    BY <2>2, <1>8 DEF StrictlySorted
<1>10. Last(k) = Last(q)
  <2>1. Len(k) \in 1 .. Len(k) /\ f + Len(k) - 1 = Len(q)
    BY <1>1, <1>6, <1>7
  <2>2. QED
    BY <2>1, <1>8 DEF Last
<1>11. ASSUME NEW j \in 1 .. Len(q), q[j].num >= n
       PROVE  Holds(k, q[j].num)
  <2>1. ~ (j \in 1 .. f - 1)
    BY <1>11, <1>6, <1>1
  <2>2. j - f + 1 \in 1 .. Len(k) /\ f + (j - f + 1) - 1 = j
    BY <2>1, <1>1, <1>6, <1>7
  <2>3. k[j - f + 1] = q[j]
    BY <2>2, <1>8
  <2>4. QED
    BY <2>2, <2>3 DEF Holds
<1>12. Len(k) <= Len(q)
  BY <1>1, <1>6, <1>7
<1>13. QED
  BY <1>7, <1>8, <1>9, <1>10, <1>11, <1>12 DEF k

\* A state appended or slotted in keeps a strictly sorted queue.
LEMMA AppendHeld ==
  ASSUME NEW Held, \A h \in Held : h.num \in Nat,
         NEW k \in Seq(Held), k # << >>, StrictlySorted(k),
         NEW s \in Held, Last(k).num < s.num
  PROVE  /\ Append(k, s) \in Seq(Held) /\ Append(k, s) # << >>
         /\ StrictlySorted(Append(k, s))
         /\ Last(Append(k, s)) = s /\ Len(Append(k, s)) = Len(k) + 1
         /\ \A i \in 1 .. Len(Append(k, s)) :
              Append(k, s)[i] = s \/ \E j \in 1 .. Len(k) : Append(k, s)[i] = k[j]
         /\ \A n : Holds(k, n) => Holds(Append(k, s), n)
<1> DEFINE r == Append(k, s)
<1>1. /\ Len(k) \in Nat /\ Len(k) >= 1 /\ Last(k) = k[Len(k)]
      /\ \A i \in 1 .. Len(k) : k[i].num \in Nat
      /\ s.num \in Nat
  <2>1. /\ Len(k) \in Nat /\ Len(k) >= 1 /\ Last(k) = k[Len(k)]
        /\ \A i \in 1 .. Len(k) : k[i] \in Held
    BY NonEmptySeq
  <2>2. QED
    BY <2>1
<1>2. /\ r \in Seq(Held) /\ r # << >> /\ Len(r) = Len(k) + 1
      /\ \A i \in 1 .. Len(k) : r[i] = k[i]
      /\ r[Len(k) + 1] = s
  BY AppendProperties
<1> HIDE DEF r
<1>3. \A i \in 1 .. Len(k) : k[i].num <= k[Len(k)].num
  <2>1. \A i, j \in 1 .. Len(k) : i < j => k[i].num < k[j].num
    BY DEF StrictlySorted
  <2>2. QED
    BY <1>1, <2>1
<1>4. StrictlySorted(r)
  <2>1. SUFFICES ASSUME NEW i \in 1 .. Len(r), NEW j \in 1 .. Len(r), i < j
                 PROVE  r[i].num < r[j].num
    BY DEF StrictlySorted
  <2>2. CASE j <= Len(k)
    BY <2>1, <2>2, <1>1, <1>2 DEF StrictlySorted
  <2>3. CASE ~ (j <= Len(k))
    <3>1. j = Len(k) + 1 /\ i \in 1 .. Len(k)
      BY <2>1, <2>3, <1>1, <1>2
    <3>2. r[j] = s /\ r[i] = k[i]
      BY <3>1, <1>2
    <3>3. QED
      BY <3>1, <3>2, <1>1, <1>3
  <2>4. QED
    BY <2>2, <2>3
<1>5. Last(r) = s
  BY <1>2 DEF Last
<1>6. \A i \in 1 .. Len(r) : r[i] = s \/ \E j \in 1 .. Len(k) : r[i] = k[j]
  BY <1>1, <1>2
<1>7. \A n : Holds(k, n) => Holds(r, n)
  BY <1>1, <1>2 DEF Holds
<1>8. QED
  BY <1>2, <1>4, <1>5, <1>6, <1>7 DEF r

LEMMA InsertHeld ==
  ASSUME NEW Held, \A h \in Held : h.num \in Nat,
         NEW k \in Seq(Held), k # << >>, StrictlySorted(k),
         NEW s \in Held, Last(k).num >= s.num, ~ Holds(k, s.num)
  PROVE  LET r == InsertAt(k, Slot(k, s.num), s)
         IN  /\ r \in Seq(Held) /\ r # << >>
             /\ StrictlySorted(r)
             /\ Last(r) = Last(k) /\ Len(r) = Len(k) + 1
             /\ \A i \in 1 .. Len(r) : r[i] = s \/ \E j \in 1 .. Len(k) : r[i] = k[j]
             /\ \A n : Holds(k, n) => Holds(r, n)
<1> DEFINE P == {i \in 1 .. Len(k) : k[i].num > s.num}
           C(i) == k[i].num > s.num /\ \A j \in 1 .. i - 1 : k[j].num <= s.num
           p == CHOOSE i \in 1 .. Len(k) : C(i)
           r == InsertAt(k, p, s)
<1>1. /\ Len(k) \in Nat /\ Len(k) >= 1 /\ Last(k) = k[Len(k)]
      /\ \A i \in 1 .. Len(k) : k[i].num \in Nat
      /\ s.num \in Nat
  <2>1. /\ Len(k) \in Nat /\ Len(k) >= 1 /\ Last(k) = k[Len(k)]
        /\ \A i \in 1 .. Len(k) : k[i] \in Held
    BY NonEmptySeq
  <2>2. QED
    BY <2>1
<1>2. \A i \in 1 .. Len(k) : k[i].num # s.num
  BY DEF Holds
<1>3. PICK g \in P : \A j \in 1 .. g - 1 : j \notin P
  <2>1. Len(k) \in P
    BY <1>1, <1>2
  <2>2. P \in SUBSET (1 .. Len(k))
    OBVIOUS
  <2> HIDE DEF P
  <2>3. QED
    BY <2>1, <2>2, <1>1, FirstPosition
<1>4. p \in 1 .. Len(k) /\ C(p)
  <2>1. g \in 1 .. Len(k) /\ C(g)
    BY <1>1, <1>3
  <2> HIDE DEF C, P
  <2>2. QED
    BY <2>1
<1>5. /\ p \in 1 .. Len(k) /\ k[p].num > s.num
      /\ \A j \in 1 .. p - 1 : k[j].num < s.num
  <2> HIDE DEF p
  <2>1. QED
    BY <1>1, <1>2, <1>4
<1>6. Slot(k, s.num) = p
  BY DEF Slot
<1> HIDE DEF p, C, P
<1>7. /\ r \in Seq(Held) /\ Len(r) = Len(k) + 1
      /\ \A i \in 1 .. Len(k) + 1 :
           r[i] = IF i < p THEN k[i] ELSE IF i = p THEN s ELSE k[i - 1]
  BY <1>5, InsertAtProperties
<1> HIDE DEF r
<1>8. r # << >>
  BY <1>1, <1>7, EmptySeq
<1>9. /\ \A i \in 1 .. Len(r) : i < p => i \in 1 .. Len(k) /\ r[i] = k[i]
      /\ p \in 1 .. Len(r) /\ r[p] = s
      /\ \A i \in 1 .. Len(r) : i > p => i - 1 \in 1 .. Len(k) /\ r[i] = k[i - 1]
  BY <1>1, <1>5, <1>7
<1>10. StrictlySorted(r)
  <2>1. SUFFICES ASSUME NEW i \in 1 .. Len(r), NEW j \in 1 .. Len(r), i < j
                 PROVE  r[i].num < r[j].num
    BY DEF StrictlySorted
  <2>2. \A x, y \in 1 .. Len(k) : x < y => k[x].num < k[y].num
    BY DEF StrictlySorted
  <2>3. CASE j < p
    BY <2>1, <2>2, <2>3, <1>9, <1>5
  <2>4. CASE j = p
    BY <2>1, <2>4, <1>9, <1>5
  <2>5. CASE j > p /\ i < p
    <3>1. r[i] = k[i] /\ r[j] = k[j - 1] /\ i < j - 1
          /\ i \in 1 .. Len(k) /\ j - 1 \in 1 .. Len(k)
      BY <2>1, <2>5, <1>9, <1>5
    <3>2. QED
      BY <3>1, <2>2
  <2>6. CASE j > p /\ i = p
    <3>1. r[i] = s /\ r[j] = k[j - 1] /\ j - 1 \in 1 .. Len(k) /\ p <= j - 1
      BY <2>1, <2>6, <1>9, <1>5
    <3>2. k[p].num \in Nat /\ k[j - 1].num \in Nat /\ s.num \in Nat
      BY <3>1, <1>1, <1>5
    <3>3. k[p].num <= k[j - 1].num
      <4>1. p < j - 1 => k[p].num < k[j - 1].num
        BY <3>1, <2>2, <1>5
      <4>2. p = j - 1 \/ p < j - 1
        BY <3>1, <1>1, <1>5
      <4>3. QED
        BY <4>1, <4>2, <3>2
    <3>4. s.num < k[j - 1].num
      BY <3>2, <3>3, <1>5
    <3>5. QED
      BY <3>1, <3>4
  <2>7. CASE j > p /\ i > p
    <3>1. /\ r[i] = k[i - 1] /\ r[j] = k[j - 1] /\ i - 1 < j - 1
          /\ i - 1 \in 1 .. Len(k) /\ j - 1 \in 1 .. Len(k)
      BY <2>1, <2>7, <1>9, <1>5
    <3>2. QED
      BY <3>1, <2>2
  <2>8. QED
    BY <2>3, <2>4, <2>5, <2>6, <2>7, <1>5
<1>11. Last(r) = Last(k)
  <2>1. Len(r) \in 1 .. Len(r) /\ Len(r) > p /\ Len(r) - 1 = Len(k)
    BY <1>1, <1>5, <1>7
  <2>2. QED
    BY <2>1, <1>9, <1>1 DEF Last
<1>12. \A i \in 1 .. Len(r) : r[i] = s \/ \E j \in 1 .. Len(k) : r[i] = k[j]
  <2>1. \A i \in 1 .. Len(r) : i < p \/ i = p \/ i > p
    BY <1>5
  <2>2. QED
    BY <2>1, <1>9
<1>13. ASSUME NEW n, Holds(k, n)
       PROVE  Holds(r, n)
  <2>1. PICK j \in 1 .. Len(k) : k[j].num = n
    BY <1>13 DEF Holds
  <2>2. CASE j < p
    <3>1. j \in 1 .. Len(r) /\ r[j] = k[j]
      BY <2>2, <1>1, <1>7, <1>9
    <3>2. QED
      BY <3>1, <2>1 DEF Holds
  <2>3. CASE ~ (j < p)
    <3>1. j + 1 \in 1 .. Len(r) /\ j + 1 > p /\ (j + 1) - 1 = j
      BY <2>3, <1>1, <1>5, <1>7
    <3>2. r[j + 1] = k[j]
      BY <3>1, <1>9
    <3>3. QED
      BY <3>1, <3>2, <2>1 DEF Holds
  <2>4. QED
    BY <2>2, <2>3
<1>14. QED
  BY <1>6, <1>7, <1>8, <1>10, <1>11, <1>12, <1>13 DEF r
=============================================================================
