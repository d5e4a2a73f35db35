--------------------------- MODULE DisplayProofs ----------------------------
(***************************************************************************)
(* Proofs that the engine shows the newest host state, that no renderer    *)
(* sleeps on an old frame, and that whoever drains the bytes follows: for  *)
(* any number of host states, any choice of those that repaint or resize,  *)
(* any queue cap, and any interleaving of the threads.                     *)
(***************************************************************************)
EXTENDS Display, SspReceiverProofs

Dims == {InitialSize} \cup Sizes \cup Range(HostSize)
Engine == [screen : Int, size : Dims]
HostEvent == [kind : {"resize"}, from : Nat, to : Nat, size : Dims]
               \cup [kind : {"bytes"}, from : Nat, to : Nat]
HostState == [num : 0 .. MaxNum, state : Seq(HostEvent)]

\* What an event makes of a screen.
Shown(screen, e) == IF e.kind = "resize" THEN screen ELSE Painted(screen, e)

\* t follows the screen through a log, and the log leads from one to another.
Follows(t, log) ==
  /\ t \in [0 .. Len(log) -> Int]
  /\ \A i \in 1 .. Len(log) : t[i] = Shown(t[i - 1], log[i])
Leads(x, log, y) ==
  /\ log \in Seq(HostEvent)
  /\ \E t : Follows(t, log) /\ t[0] = x /\ t[Len(log)] = y

-----------------------------------------------------------------------------
(* Screens. *)

LEMMA Largest ==
  ASSUME NEW n \in Nat, NEW S \in SUBSET (0 .. n), S # {}
  PROVE  MaxOf(S) \in S /\ \A y \in S : y <= MaxOf(S)
<1> DEFINE B == {b \in Nat : \A x \in S : x <= b}
<1>1. B \in SUBSET Nat /\ n \in B
  OBVIOUS
<1>2. PICK b \in B : \A c \in B : b <= c
  <2> HIDE DEF B
  <2>1. QED
    BY <1>1, LeastElement
<1>3. b \in S
  <2>1. SUFFICES ASSUME b \notin S PROVE FALSE
    OBVIOUS
  <2>2. PICK x \in S : TRUE
    OBVIOUS
  <2>3. b \in Nat /\ \A y \in S : y <= b /\ y # b
    BY <1>2, <2>1
  <2>4. b - 1 \in Nat /\ \A y \in S : y <= b - 1
    BY <2>2, <2>3
  <2>5. b - 1 \in B
    BY <2>4
  <2> HIDE DEF B
  <2>6. QED
    BY <1>2, <2>3, <2>5
<1>4. \E x \in S : \A y \in S : y <= x
  BY <1>2, <1>3
<1>5. QED
  BY <1>4 DEF MaxOf

LEMMA PaintsAreNumbers == \A p \in Paints : p \in Nat /\ p >= 1
<1>1. MaxNum \in Nat /\ Paints \subseteq 1 .. MaxNum
  BY DisplayAssumption
<1>2. QED
  BY <1>1

LEMMA ScreensAreNumbers == \A n \in Nat : ScreenOf(n) \in Nat
<1>1. TAKE n \in Nat
<1> DEFINE S == {0} \cup {p \in Paints : p <= n}
<1>2. S \in SUBSET (0 .. n) /\ S # {}
  BY PaintsAreNumbers
<1> HIDE DEF S
<1>3. MaxOf(S) \in S
  BY <1>2, Largest
<1>4. QED
  BY <1>2, <1>3 DEF ScreenOf, S

LEMMA FirstScreen == ScreenOf(0) = 0
<1> DEFINE S == {0} \cup {p \in Paints : p <= 0}
<1>1. S = {0}
  BY PaintsAreNumbers
<1>2. ScreenOf(0) = MaxOf({0})
  BY <1>1 DEF ScreenOf
<1>3. {0} \in SUBSET (0 .. 0) /\ {0} # {}
  OBVIOUS
<1>4. MaxOf({0}) \in {0}
  BY <1>3, Largest
<1>5. QED
  BY <1>2, <1>4

LEMMA ShownIsScreen ==
  ASSUME NEW x \in Int, NEW e \in HostEvent
  PROVE  Shown(x, e) \in Int
<1>1. e.to \in Nat
  BY DEF HostEvent
<1>2. QED
  BY <1>1, ScreensAreNumbers DEF Shown, Painted, Garbage

-----------------------------------------------------------------------------
(* Logs. *)

LEMMA LogIsIndexed ==
  ASSUME NEW log \in Seq(HostEvent)
  PROVE  Len(log) \in Nat /\ \A i \in 1 .. Len(log) : log[i] \in HostEvent
BY LenProperties, ElementOfSeq

\* A log has one way to follow a screen.
LEMMA FollowsUnique ==
  ASSUME NEW a, NEW b, NEW s \in Seq(HostEvent), NEW t \in Seq(HostEvent),
         Follows(a, s), Follows(b, t), a[0] = b[0],
         Len(s) <= Len(t), \A i \in 1 .. Len(s) : s[i] = t[i]
  PROVE  \A i \in 0 .. Len(s) : a[i] = b[i]
<1> DEFINE Bad == {i \in 0 .. Len(s) : a[i] # b[i]}
<1>1. Len(s) \in Nat /\ Len(t) \in Nat
  BY LogIsIndexed
<1>2. SUFFICES ASSUME Bad # {} PROVE FALSE
  OBVIOUS
<1>3. Bad \in SUBSET Nat
  BY <1>1
<1>4. PICK k \in Bad : \A j \in Bad : k <= j
  <2> HIDE DEF Bad
  <2>1. QED
    BY <1>2, <1>3, LeastElement
<1>5. k \in 0 .. Len(s) /\ k # 0 /\ a[k] # b[k]
  BY <1>4
<1>6. k \in 1 .. Len(s) /\ k \in 1 .. Len(t) /\ k - 1 \in 0 .. Len(s)
  BY <1>1, <1>5
<1>7. a[k - 1] = b[k - 1]
  BY <1>1, <1>4, <1>5, <1>6
<1>8. a[k] = Shown(a[k - 1], s[k]) /\ b[k] = Shown(b[k - 1], t[k])
  BY <1>6 DEF Follows
<1>9. QED
  BY <1>5, <1>6, <1>7, <1>8

LEMMA LeadsToOne ==
  ASSUME NEW x, NEW log, NEW y, NEW z, Leads(x, log, y), Leads(x, log, z)
  PROVE  y = z
<1>1. log \in Seq(HostEvent) /\ Len(log) \in Nat
  BY LogIsIndexed DEF Leads
<1>2. PICK a : Follows(a, log) /\ a[0] = x /\ a[Len(log)] = y
  BY DEF Leads
<1>3. PICK b : Follows(b, log) /\ b[0] = x /\ b[Len(log)] = z
  BY DEF Leads
<1>4. \A i \in 0 .. Len(log) : a[i] = b[i]
  BY <1>1, <1>2, <1>3, FollowsUnique
<1>5. QED
  BY <1>1, <1>2, <1>3, <1>4

LEMMA LeadsNowhere ==
  ASSUME NEW x \in Int
  PROVE  Leads(x, << >>, x)
<1> DEFINE t == [i \in 0 .. 0 |-> x]
<1>1. Len(<< >>) = 0 /\ << >> \in Seq(HostEvent)
  OBVIOUS
<1>2. t \in [0 .. 0 -> Int] /\ t[0] = x
  OBVIOUS
<1>3. Follows(t, << >>)
  BY <1>1, <1>2 DEF Follows
<1>4. QED
  BY <1>1, <1>2, <1>3 DEF Leads

\* One more event.
LEMMA LeadsOn ==
  ASSUME NEW x, NEW log, NEW y, Leads(x, log, y), NEW e \in HostEvent
  PROVE  Leads(x, Append(log, e), Shown(y, e))
<1> DEFINE n == Len(log)
           more == Append(log, e)
<1>1. log \in Seq(HostEvent) /\ n \in Nat
  BY LogIsIndexed DEF Leads
<1>2. PICK t : Follows(t, log) /\ t[0] = x /\ t[n] = y
  BY DEF Leads
<1>3. /\ more \in Seq(HostEvent) /\ Len(more) = n + 1
      /\ \A i \in 1 .. n : more[i] = log[i]
      /\ more[n + 1] = e
  BY <1>1, AppendProperties
<1> HIDE DEF more
<1>4. t \in [0 .. n -> Int] /\ \A i \in 1 .. n : t[i] = Shown(t[i - 1], log[i])
  BY <1>2 DEF Follows
<1> DEFINE u == [i \in 0 .. n + 1 |-> IF i = n + 1 THEN Shown(y, e) ELSE t[i]]
<1> HIDE DEF n
<1>5. Shown(y, e) \in Int
  BY <1>1, <1>2, <1>4, ShownIsScreen
<1>6. u \in [0 .. n + 1 -> Int]
  BY <1>1, <1>4, <1>5
<1>7. /\ \A i \in 0 .. n : u[i] = t[i]
      /\ u[n + 1] = Shown(y, e)
  BY <1>1
<1> HIDE DEF u
<1>8. ASSUME NEW i \in 1 .. n + 1
      PROVE  u[i] = Shown(u[i - 1], more[i])
  <2>1. CASE i \in 1 .. n
    <3>1. i - 1 \in 0 .. n /\ i \in 0 .. n
      BY <1>1, <2>1
    <3>2. QED
      BY <1>3, <1>4, <1>7, <2>1, <3>1
  <2>2. CASE i = n + 1
    <3>1. i - 1 = n /\ n \in 0 .. n
      BY <1>1, <2>2
    <3>2. QED
      BY <1>2, <1>3, <1>7, <2>2, <3>1
  <2>3. QED
    BY <1>1, <2>1, <2>2
<1>9. Follows(u, more)
  BY <1>3, <1>6, <1>8 DEF Follows
<1>10. u[0] = x /\ u[Len(more)] = Shown(y, e)
  BY <1>1, <1>2, <1>3, <1>7
<1>11. QED
  BY <1>3, <1>9, <1>10 DEF Leads, more

\* One log after another.
LEMMA LeadsThrough ==
  ASSUME NEW x, NEW r, NEW y, NEW s, NEW z, Leads(x, r, y), Leads(y, s, z)
  PROVE  Leads(x, r \o s, z)
<1> DEFINE m == Len(r)
           n == Len(s)
           rs == r \o s
<1>1. r \in Seq(HostEvent) /\ m \in Nat /\ s \in Seq(HostEvent) /\ n \in Nat
  BY LogIsIndexed DEF Leads
<1>2. PICK a : Follows(a, r) /\ a[0] = x /\ a[m] = y
  BY DEF Leads
<1>3. PICK b : Follows(b, s) /\ b[0] = y /\ b[n] = z
  BY DEF Leads
<1>4. /\ a \in [0 .. m -> Int] /\ \A i \in 1 .. m : a[i] = Shown(a[i - 1], r[i])
      /\ b \in [0 .. n -> Int] /\ \A i \in 1 .. n : b[i] = Shown(b[i - 1], s[i])
  BY <1>2, <1>3 DEF Follows
<1>5. /\ rs \in Seq(HostEvent) /\ Len(rs) = m + n
      /\ \A i \in 1 .. m + n : rs[i] = IF i <= m THEN r[i] ELSE s[i - m]
  BY <1>1, ConcatProperties
<1> HIDE DEF m, n, rs
<1> DEFINE u == [i \in 0 .. m + n |-> IF i <= m THEN a[i] ELSE b[i - m]]
<1>6. u \in [0 .. m + n -> Int]
  <2>1. \A i \in 0 .. m + n : (i <= m => i \in 0 .. m) /\ (~ (i <= m) => i - m \in 0 .. n)
    BY <1>1
  <2>2. QED
    BY <1>4, <2>1
<1>7. /\ \A i \in 0 .. m : u[i] = a[i]
      /\ \A i \in 0 .. n : u[m + i] = b[i]
  <2>1. \A i \in 0 .. m : i \in 0 .. m + n /\ i <= m
    BY <1>1
  <2>2. ASSUME NEW i \in 0 .. n PROVE u[m + i] = b[i]
    <3>1. m + i \in 0 .. m + n /\ (m + i) - m = i
      BY <1>1
    <3>2. CASE i = 0
      BY <1>1, <1>2, <1>3, <3>1, <3>2
    <3>3. CASE i # 0
      <4>1. ~ (m + i <= m)
        BY <1>1, <3>3
      <4>2. QED
        BY <3>1, <4>1
    <3>4. QED
      BY <3>2, <3>3
  <2>3. QED
    BY <2>1, <2>2
<1> HIDE DEF u
<1>8. ASSUME NEW i \in 1 .. m + n
      PROVE  u[i] = Shown(u[i - 1], rs[i])
  <2>1. CASE i <= m
    <3>1. i \in 1 .. m /\ i \in 0 .. m /\ i - 1 \in 0 .. m
      BY <1>1, <2>1
    <3>2. QED
      BY <1>4, <1>5, <1>7, <2>1, <3>1
  <2>2. CASE ~ (i <= m)
    <3> DEFINE j == i - m
    <3>1. /\ j \in 1 .. n /\ j \in 0 .. n /\ j - 1 \in 0 .. n
          /\ m + j = i /\ m + (j - 1) = i - 1
      BY <1>1, <2>2
    <3>2. rs[i] = s[j]
      BY <1>5, <2>2
    <3> HIDE DEF j
    <3>3. u[i] = b[j] /\ u[i - 1] = b[j - 1]
      BY <1>7, <3>1
    <3>4. QED
      BY <1>4, <3>1, <3>2, <3>3
  <2>3. QED
    BY <2>1, <2>2
<1>9. Follows(u, rs)
  BY <1>5, <1>6, <1>8 DEF Follows
<1>10. u[0] = x /\ u[Len(rs)] = z
  BY <1>1, <1>2, <1>3, <1>5, <1>7
<1>11. QED
  BY <1>5, <1>9, <1>10 DEF Leads, rs

\* suffix_over: past an ancestor, the rest of the log leads on from its screen.
LEMMA LeadsFromAncestor ==
  ASSUME NEW x, NEW log, NEW y, NEW base, NEW z, Leads(x, log, y), Leads(x, base, z),
         Descends(log, base)
  PROVE  /\ Leads(z, DropFirst(log, Len(base)), y)
         /\ DropFirst(log, Len(base)) = << >> => log = base
<1> DEFINE m == Len(base)
           n == Len(log)
           rest == DropFirst(log, m)
<1>1. /\ log \in Seq(HostEvent) /\ n \in Nat /\ base \in Seq(HostEvent) /\ m \in Nat
      /\ \A i \in 1 .. n : log[i] \in HostEvent
      /\ \A i \in 1 .. m : base[i] \in HostEvent
  BY LogIsIndexed DEF Leads
<1>2. m <= n /\ SubSeq(base, 1, m) = SubSeq(log, 1, m)
  BY DEF Descends, IsPrefix
<1>3. \A i \in 1 .. m : base[i] = log[i]
  <2>1. ASSUME NEW q, q \in {base, log}
        PROVE  \A i \in 1 .. m : SubSeq(q, 1, m)[i] = q[i]
    <3>1. \A i \in 1 .. m : q[i] \in HostEvent
      BY <1>1, <1>2, <2>1
    <3> HIDE DEF m
    <3>2. \A i \in 1 .. m - 1 + 1 : SubSeq(q, 1, m)[i] = q[1 + i - 1]
      BY <1>1, <3>1, SubSeqProperties
    <3>3. m - 1 + 1 = m /\ \A i \in 1 .. m : 1 + i - 1 = i
      BY <1>1
    <3>4. QED
      BY <3>2, <3>3
  <2>2. QED
    BY <1>2, <2>1
<1>4. PICK t : Follows(t, log) /\ t[0] = x /\ t[n] = y
  BY DEF Leads
<1>5. PICK a : Follows(a, base) /\ a[0] = x /\ a[m] = z
  BY DEF Leads
<1>6. t[m] = z
  <2>1. \A i \in 0 .. m : a[i] = t[i]
    BY <1>1, <1>2, <1>3, <1>4, <1>5, FollowsUnique
  <2>2. QED
    BY <1>1, <1>5, <2>1
<1>7. t \in [0 .. n -> Int] /\ \A i \in 1 .. n : t[i] = Shown(t[i - 1], log[i])
  BY <1>4 DEF Follows
<1>8. /\ rest \in Seq(HostEvent) /\ Len(rest) = n - m
      /\ \A i \in 1 .. n - m : rest[i] = log[m + i]
  <2>1. \A i \in m + 1 .. n : log[i] \in HostEvent
    BY <1>1
  <2>2. rest = SubSeq(log, m + 1, n)
    BY DEF DropFirst
  <2> HIDE DEF rest, m, n
  <2>3. /\ rest \in Seq(HostEvent)
        /\ Len(rest) = IF m + 1 <= n THEN n - (m + 1) + 1 ELSE 0
        /\ \A i \in 1 .. n - (m + 1) + 1 : rest[i] = log[(m + 1) + i - 1]
    BY <1>1, <2>1, <2>2, SubSeqProperties
  <2>4. Len(rest) = n - m
    BY <1>1, <1>2, <2>3
  <2>5. n - (m + 1) + 1 = n - m /\ \A i \in 1 .. n - m : (m + 1) + i - 1 = m + i
    BY <1>1
  <2>6. QED
    BY <2>3, <2>4, <2>5
<1> HIDE DEF rest, m, n
<1> DEFINE u == [i \in 0 .. n - m |-> t[m + i]]
<1>9. \A i \in 0 .. n - m : m + i \in 0 .. n /\ u[i] = t[m + i]
  BY <1>1, <1>2
<1>10. u \in [0 .. n - m -> Int]
  BY <1>7, <1>9
<1> HIDE DEF u
<1>11. ASSUME NEW i \in 1 .. n - m
       PROVE  u[i] = Shown(u[i - 1], rest[i])
  <2>1. /\ i \in 0 .. n - m /\ i - 1 \in 0 .. n - m
        /\ m + i \in 1 .. n /\ (m + i) - 1 = m + (i - 1)
    BY <1>1, <1>2
  <2>2. QED
    BY <1>7, <1>8, <1>9, <2>1
<1>12. Follows(u, rest)
  BY <1>8, <1>10, <1>11 DEF Follows
<1>13. u[0] = z /\ u[Len(rest)] = y
  <2>1. 0 \in 0 .. n - m /\ n - m \in 0 .. n - m /\ m + 0 = m /\ m + (n - m) = n
    BY <1>1, <1>2
  <2>2. QED
    BY <1>4, <1>6, <1>8, <1>9, <2>1
<1>14. Leads(z, rest, y)
  BY <1>8, <1>12, <1>13 DEF Leads
<1>15. rest = << >> => log = base
  <2>1. SUFFICES ASSUME rest = << >> PROVE log = base
    OBVIOUS
  <2>2. n - m = 0
    BY <1>8, <2>1, EmptySeq
  <2>3. Len(log) = Len(base) /\ \A i \in 1 .. Len(log) : log[i] = base[i]
    BY <1>1, <1>3, <2>2 DEF n, m
  <2>4. QED
    BY <1>1, <2>3, SeqEqual
<1>16. QED
  BY <1>14, <1>15 DEF rest, m

-----------------------------------------------------------------------------
(* Recursive functions. *)

\* f is what k of the steps make of the first value, one after the other.
TakesSteps(f, S, first, step, k) ==
  /\ f \in [0 .. k -> S] /\ f[0] = first
  /\ \A i \in 1 .. k : f[i] = step[i][f[i - 1]]

\* Steps numbered 1 .. n, each from a value to the next, can be taken in turn.
LEMMA StepByStep ==
  ASSUME NEW n \in Nat, NEW S, NEW first \in S, NEW step \in [1 .. n -> [S -> S]]
  PROVE  \E f : TakesSteps(f, S, first, step, n)
<1> USE DEF TakesSteps
<1> DEFINE Runs(f, k) == TakesSteps(f, S, first, step, k)
           Bad == {k \in 0 .. n : ~ \E f : Runs(f, k)}
<1>1. SUFFICES ASSUME Bad # {} PROVE FALSE
  <2>1. n \in 0 .. n
    OBVIOUS
  <2>2. Bad = {} => \E f : Runs(f, n)
    <3> HIDE DEF Runs
    <3>1. QED
      BY <2>1
  <2>3. QED
    BY <2>2
<1>2. Bad \in SUBSET Nat
  OBVIOUS
<1>3. PICK k \in Bad : \A j \in Bad : k <= j
  <2> HIDE DEF Bad
  <2>1. QED
    BY <1>1, <1>2, LeastElement
<1>4. k \in 0 .. n /\ ~ \E f : Runs(f, k)
  BY <1>3
<1>5. k # 0
  <2>1. Runs([i \in 0 .. 0 |-> first], 0)
    OBVIOUS
  <2> HIDE DEF Runs
  <2>2. QED
    BY <1>4, <2>1
<1>6. k - 1 \in 0 .. n /\ k \in 1 .. n /\ k - 1 \notin Bad
  <2> HIDE DEF Bad
  <2>1. QED
    BY <1>3, <1>4, <1>5
<1>7. PICK f : Runs(f, k - 1)
  <2> HIDE DEF Runs
  <2>1. QED
    BY <1>6
<1> DEFINE next == step[k][f[k - 1]]
           g == [i \in 0 .. k |-> IF i = k THEN next ELSE f[i]]
<1>8. next \in S
  <2>1. f[k - 1] \in S
    BY <1>6, <1>7
  <2>2. QED
    BY <1>6, <2>1
<1> HIDE DEF next
<1>9. g \in [0 .. k -> S]
  BY <1>4, <1>7, <1>8
<1>10. g[0] = first
  BY <1>4, <1>5, <1>7
<1>11. ASSUME NEW i \in 1 .. k
       PROVE  g[i] = step[i][g[i - 1]]
  <2>1. i - 1 \in 0 .. k /\ i - 1 # k /\ g[i - 1] = f[i - 1]
    BY <1>4
  <2>2. CASE i = k
    BY <1>4, <2>1, <2>2 DEF next
  <2>3. CASE i # k
    <3>1. i \in 1 .. k - 1 /\ i \in 0 .. k
      BY <1>4, <2>3
    <3>2. QED
      BY <1>7, <2>1, <2>3, <3>1
  <2>4. QED
    BY <2>2, <2>3
<1>12. Runs(g, k)
  <2> HIDE DEF g
  <2>1. QED
    BY <1>9, <1>10, <1>11
<1> HIDE DEF Runs, g
<1>13. QED
  BY <1>4, <1>12

LEMMA FeedShows ==
  ASSUME NEW d \in Engine, NEW e \in HostEvent
  PROVE  feed_display(d, e) \in Engine /\ feed_display(d, e).screen = Shown(d.screen, e)
<1>1. d.screen \in Int
  BY DEF Engine
<1>2. Shown(d.screen, e) \in Int
  BY <1>1, ShownIsScreen
<1>3. CASE e.kind = "resize"
  <2>1. e.size \in Dims
    BY <1>3 DEF HostEvent
  <2>2. QED
    BY <1>3, <2>1 DEF feed_display, Shown, Engine
<1>4. CASE e.kind # "resize"
  BY <1>2, <1>4 DEF feed_display, Shown, Engine
<1>5. QED
  BY <1>3, <1>4

\* An engine fed a log shows where the log leads.
LEMMA FedShows ==
  ASSUME NEW d \in Engine, NEW log, NEW y, Leads(d.screen, log, y)
  PROVE  Fed(d, log) \in Engine /\ Fed(d, log).screen = y
<1> DEFINE n == Len(log)
           Step(f, i) == IF i = 0 THEN d ELSE feed_display(f[i - 1], log[i])
           after == CHOOSE f : f = [i \in 0 .. n |-> Step(f, i)]
<1>1. n \in Nat /\ \A i \in 1 .. n : log[i] \in HostEvent
  BY LogIsIndexed DEF Leads
<1>2. PICK t : Follows(t, log) /\ t[0] = d.screen /\ t[n] = y
  BY DEF Leads
<1>3. \A i \in 1 .. n : t[i] = Shown(t[i - 1], log[i])
  BY <1>2 DEF Follows
<1>4. Fed(d, log) = after[n]
  BY DEF Fed
<1> HIDE DEF n
<1>5. \E f : f = [i \in 0 .. n |-> Step(f, i)]
  <2> DEFINE step == [i \in 1 .. n |-> [x \in Engine |-> feed_display(x, log[i])]]
  <2>1. step \in [1 .. n -> [Engine -> Engine]]
    BY <1>1, FeedShows
  <2> HIDE DEF step
  <2>2. PICK f \in [0 .. n -> Engine] : f[0] = d /\ \A i \in 1 .. n : f[i] = step[i][f[i - 1]]
    <3>1. \E f : TakesSteps(f, Engine, d, step, n)
      BY <1>1, <2>1, StepByStep
    <3>2. QED
      BY <3>1 DEF TakesSteps
  <2>3. ASSUME NEW i \in 0 .. n PROVE f[i] = Step(f, i)
    <3>1. CASE i = 0
      BY <2>2, <3>1
    <3>2. CASE i # 0
      <4>1. i \in 1 .. n /\ i - 1 \in 0 .. n
        BY <1>1, <3>2
      <4>2. f[i - 1] \in Engine
        BY <4>1
      <4>3. QED
        BY <2>2, <3>2, <4>1, <4>2 DEF step
    <3>3. QED
      BY <3>1, <3>2
  <2>4. f = [i \in 0 .. n |-> Step(f, i)]
    <3>1. f = [i \in 0 .. n |-> f[i]]
      OBVIOUS
    <3> HIDE DEF Step
    <3>2. QED
      BY <2>3, <3>1
  <2>5. QED
    BY <2>4
<1>6. after = [i \in 0 .. n |-> Step(after, i)]
  <2> HIDE DEF Step
  <2>1. QED
    BY <1>5
<1>7. \A i \in 0 .. n : after[i] = Step(after, i)
  <2> HIDE DEF after, Step
  <2>1. QED
    BY <1>6
<1> HIDE DEF after
<1> DEFINE Fine(i) == after[i] \in Engine /\ after[i].screen = t[i]
           Bad == {i \in 0 .. n : ~ Fine(i)}
<1>8. Bad = {}
  <2>1. SUFFICES ASSUME Bad # {} PROVE FALSE
    OBVIOUS
  <2>2. Bad \in SUBSET Nat
    OBVIOUS
  <2>3. PICK k \in Bad : \A j \in Bad : k <= j
    <3> HIDE DEF Bad
    <3>1. QED
      BY <2>1, <2>2, LeastElement
  <2>4. k \in 0 .. n /\ ~ Fine(k)
    BY <2>3
  <2>5. k # 0
    <3>1. Fine(0)
      BY <1>1, <1>2, <1>7
    <3>2. QED
      BY <2>4, <3>1
  <2>6. k \in 1 .. n /\ k - 1 \in 0 .. n /\ k - 1 \notin Bad
    <3> HIDE DEF Bad
    <3>1. QED
      BY <1>1, <2>3, <2>4, <2>5
  <2>7. after[k - 1] \in Engine /\ after[k - 1].screen = t[k - 1]
    BY <2>6
  <2>8. after[k] = feed_display(after[k - 1], log[k])
    BY <1>7, <2>4, <2>5
  <2>9. after[k] \in Engine /\ after[k].screen = Shown(t[k - 1], log[k])
    BY <1>1, <2>6, <2>7, <2>8, FeedShows
  <2>10. QED
    BY <1>3, <2>4, <2>6, <2>9
<1>9. Fine(n)
  BY <1>1, <1>8
<1>10. QED
  BY <1>2, <1>4, <1>9

\* The bytes of a log lead where the log leads: sizes do not repaint.
LEMMA BytesLead ==
  ASSUME NEW x \in Int, NEW log, NEW y, Leads(x, log, y)
  PROVE  Leads(x, Bytes(log), y)
<1> DEFINE n == Len(log)
           Step(f, i) == IF i = 0 THEN << >>
                         ELSE IF log[i].kind = "bytes" THEN Append(f[i - 1], log[i])
                                                       ELSE f[i - 1]
           among == CHOOSE f : f = [i \in 0 .. n |-> Step(f, i)]
           Log == Seq(HostEvent)
<1>1. n \in Nat /\ \A i \in 1 .. n : log[i] \in HostEvent
  BY LogIsIndexed DEF Leads
<1>2. PICK t : Follows(t, log) /\ t[0] = x /\ t[n] = y
  BY DEF Leads
<1>3. \A i \in 1 .. n : t[i] = Shown(t[i - 1], log[i])
  BY <1>2 DEF Follows
<1>4. Bytes(log) = among[n]
  BY DEF Bytes
<1> HIDE DEF n
<1>5. \E f : f = [i \in 0 .. n |-> Step(f, i)]
  <2> DEFINE kept(q, e) == IF e.kind = "bytes" THEN Append(q, e) ELSE q
             step == [i \in 1 .. n |-> [q \in Log |-> kept(q, log[i])]]
  <2>1. \A q \in Log, e \in HostEvent : kept(q, e) \in Log
    BY AppendProperties
  <2>2. step \in [1 .. n -> [Log -> Log]]
    <3> HIDE DEF kept, Log
    <3>1. QED
      BY <1>1, <2>1
  <2>3. << >> \in Log
    OBVIOUS
  <2> HIDE DEF step, Log
  <2>4. PICK f \in [0 .. n -> Log] : f[0] = << >> /\ \A i \in 1 .. n : f[i] = step[i][f[i - 1]]
    <3>1. \E f : TakesSteps(f, Log, << >>, step, n)
      BY <1>1, <2>2, <2>3, StepByStep
    <3>2. QED
      BY <3>1 DEF TakesSteps
  <2>5. ASSUME NEW i \in 0 .. n PROVE f[i] = Step(f, i)
    <3>1. CASE i = 0
      BY <2>4, <3>1
    <3>2. CASE i # 0
      <4>1. i \in 1 .. n /\ i - 1 \in 0 .. n
        BY <1>1, <3>2
      <4>2. f[i - 1] \in Log
        BY <4>1
      <4>3. f[i] = kept(f[i - 1], log[i])
        BY <2>4, <4>1, <4>2 DEF step
      <4>4. QED
        BY <3>2, <4>3
    <3>3. QED
      BY <3>1, <3>2
  <2>6. f = [i \in 0 .. n |-> Step(f, i)]
    <3>1. f = [i \in 0 .. n |-> f[i]]
      OBVIOUS
    <3> HIDE DEF Step
    <3>2. QED
      BY <2>5, <3>1
  <2>7. QED
    BY <2>6
<1>6. among = [i \in 0 .. n |-> Step(among, i)]
  <2> HIDE DEF Step
  <2>1. QED
    BY <1>5
<1>7. \A i \in 0 .. n : among[i] = Step(among, i)
  <2> HIDE DEF among, Step
  <2>1. QED
    BY <1>6
<1> HIDE DEF among
<1> DEFINE Fine(i) == Leads(x, among[i], t[i])
           Bad == {i \in 0 .. n : ~ Fine(i)}
<1>8. Bad = {}
  <2>1. SUFFICES ASSUME Bad # {} PROVE FALSE
    OBVIOUS
  <2>2. Bad \in SUBSET Nat
    OBVIOUS
  <2>3. PICK k \in Bad : \A j \in Bad : k <= j
    <3> HIDE DEF Bad
    <3>1. QED
      BY <2>1, <2>2, LeastElement
  <2>4. k \in 0 .. n /\ ~ Fine(k)
    BY <2>3
  <2>5. k # 0
    <3>1. among[0] = << >>
      BY <1>1, <1>7
    <3>2. Fine(0)
      BY <1>2, <3>1, LeadsNowhere
    <3>3. QED
      BY <2>4, <3>2
  <2>6. k \in 1 .. n /\ k - 1 \in 0 .. n /\ k - 1 \notin Bad
    <3> HIDE DEF Bad
    <3>1. QED
      BY <1>1, <2>3, <2>4, <2>5
  <2>7. Leads(x, among[k - 1], t[k - 1])
    BY <2>6
  <2>8. t[k] = Shown(t[k - 1], log[k]) /\ log[k] \in HostEvent
    BY <1>1, <1>3, <2>6
  <2>9. CASE log[k].kind = "bytes"
    <3>1. among[k] = Append(among[k - 1], log[k])
      BY <1>7, <2>4, <2>5, <2>9
    <3>2. QED
      BY <2>4, <2>7, <2>8, <3>1, LeadsOn
  <2>10. CASE log[k].kind # "bytes"
    <3>1. among[k] = among[k - 1]
      BY <1>7, <2>4, <2>5, <2>10
    <3>2. log[k].kind = "resize"
      BY <2>8, <2>10 DEF HostEvent
    <3>3. t[k] = t[k - 1]
      BY <2>8, <3>2 DEF Shown
    <3>4. QED
      BY <2>4, <2>7, <3>1, <3>3
  <2>11. QED
    BY <2>9, <2>10
<1>9. Fine(n)
  BY <1>1, <1>8
<1>10. QED
  BY <1>2, <1>4, <1>9

\* The server's diff leads from the one screen to the other.
LEMMA DiffLeads ==
  ASSUME NEW m \in 0 .. MaxNum, NEW n \in 0 .. MaxNum
  PROVE  Leads(ScreenOf(m), HostDiff(m, n), ScreenOf(n))
<1> DEFINE resized == {r \in DOMAIN HostSize : m < r /\ r <= n}
           re == [kind |-> "resize", from |-> m, to |-> n, size |-> HostSize[MaxOf(resized)]]
           by == [kind |-> "bytes", from |-> m, to |-> n]
           a == IF resized = {} THEN << >> ELSE << re >>
           b == IF ScreenOf(m) = ScreenOf(n) THEN << >> ELSE << by >>
<1>1. HostDiff(m, n) = a \o b
  BY DEF HostDiff
<1>2. m \in Nat /\ n \in Nat /\ ScreenOf(m) \in Int /\ ScreenOf(n) \in Int
  BY ScreensAreNumbers, DisplayAssumption
<1>3. \A e : Append(<< >>, e) = << e >>
  OBVIOUS
<1>4. Leads(ScreenOf(m), a, ScreenOf(m))
  <2>1. CASE resized = {}
    BY <1>2, <2>1, LeadsNowhere
  <2>2. CASE resized # {}
    <3>1. resized \in SUBSET (0 .. n)
      <4>1. DOMAIN HostSize \subseteq 1 .. MaxNum
        BY DisplayAssumption
      <4>2. QED
        BY <1>2, <4>1
    <3>2. MaxOf(resized) \in DOMAIN HostSize
      <4>1. MaxOf(resized) \in resized
        <5> HIDE DEF resized
        <5>1. QED
          BY <1>2, <2>2, <3>1, Largest
      <4>2. QED
        BY <4>1
    <3>3. HostSize[MaxOf(resized)] \in Dims
      BY <3>2 DEF Dims, Range
    <3>4. re \in HostEvent /\ re.kind = "resize"
      BY <1>2, <3>3 DEF HostEvent
    <3> HIDE DEF re, resized
    <3>5. Leads(ScreenOf(m), << >>, ScreenOf(m))
      BY <1>2, LeadsNowhere
    <3>6. Leads(ScreenOf(m), Append(<< >>, re), Shown(ScreenOf(m), re))
      BY <3>4, <3>5, LeadsOn
    <3>7. Shown(ScreenOf(m), re) = ScreenOf(m)
      BY <3>4 DEF Shown
    <3>8. QED
      BY <1>3, <2>2, <3>6, <3>7
  <2>3. QED
    BY <2>1, <2>2
<1>5. Leads(ScreenOf(m), b, ScreenOf(n))
  <2>1. CASE ScreenOf(m) = ScreenOf(n)
    BY <1>2, <2>1, LeadsNowhere
  <2>2. CASE ScreenOf(m) # ScreenOf(n)
    <3>1. by \in HostEvent /\ by.kind = "bytes" /\ by.from = m /\ by.to = n
      BY <1>2 DEF HostEvent
    <3> HIDE DEF by
    <3>2. Leads(ScreenOf(m), << >>, ScreenOf(m))
      BY <1>2, LeadsNowhere
    <3>3. Leads(ScreenOf(m), Append(<< >>, by), Shown(ScreenOf(m), by))
      BY <3>1, <3>2, LeadsOn
    <3>4. Shown(ScreenOf(m), by) = ScreenOf(n)
      BY <3>1 DEF Shown, Painted
    <3>5. QED
      BY <1>3, <2>2, <3>3, <3>4
  <2>3. QED
    BY <2>1, <2>2
<1> HIDE DEF a, b
<1>6. QED
  BY <1>1, <1>4, <1>5, LeadsThrough

\* Every log leads somewhere.
LEMMA LogsLead ==
  ASSUME NEW x \in Int, NEW log \in Seq(HostEvent)
  PROVE  \E y \in Int : Leads(x, log, y)
<1> DEFINE n == Len(log)
           step == [i \in 1 .. n |-> [z \in Int |-> Shown(z, log[i])]]
<1>1. n \in Nat /\ \A i \in 1 .. n : log[i] \in HostEvent
  BY LogIsIndexed
<1>2. step \in [1 .. n -> [Int -> Int]]
  BY <1>1, ShownIsScreen
<1>3. \A i \in 1 .. n, z \in Int : step[i][z] = Shown(z, log[i])
  OBVIOUS
<1> HIDE DEF n, step
<1>4. PICK t : TakesSteps(t, Int, x, step, n)
  BY <1>1, <1>2, StepByStep
<1>5. /\ t \in [0 .. n -> Int] /\ t[0] = x
      /\ \A i \in 1 .. n : t[i] = step[i][t[i - 1]]
  BY <1>4 DEF TakesSteps
<1>6. ASSUME NEW i \in 1 .. n PROVE t[i] = Shown(t[i - 1], log[i])
  <2>1. i - 1 \in 0 .. n
    BY <1>1
  <2>2. t[i - 1] \in Int
    BY <1>5, <2>1
  <2>3. QED
    BY <1>3, <1>5, <2>2
<1>7. Follows(t, log)
  BY <1>5, <1>6 DEF Follows, n
<1>8. t[n] \in Int
  BY <1>1, <1>5
<1>9. QED
  BY <1>5, <1>7, <1>8 DEF Leads, n

-----------------------------------------------------------------------------
(* The inductive invariant. *)

\* Each held log leads from the blank screen to the screen of its state.
QueueOK ==
  /\ received \in Seq(HostState) /\ received # << >> /\ StrictlySorted(received)
  /\ \A i \in 1 .. Len(received) :
       Leads(0, received[i].state, ScreenOf(received[i].num))

\* The engine shows what its log leads to, which is the newest state's screen
\* unless a rebuild is under way.
EngineOK ==
  /\ display \in Engine
  /\ Leads(0, engine_at, display.screen)
  /\ loop \in {"idle", "fed", "branched", "rebuilt"}
  /\ DisplayShowsLatest

\* The engine being rebuilt shows the newest state's screen.
FreshOK ==
  loop = "rebuilt" =>
    /\ branched
    /\ fresh \in Engine
    /\ fresh.screen = ScreenOf(latest.num)

\* What is buffered leads the consumer's screen to the engine's.
BytesOK ==
  /\ consumer \in Engine
  /\ pending_bytes \in Seq(HostEvent)
  /\ capture \in BOOLEAN /\ branched \in BOOLEAN /\ missed \in BOOLEAN
  /\ ~ branched /\ ~ missed => Leads(consumer.screen, pending_bytes, display.screen)

\* No frame is from a version yet to come.
FramesOK ==
  /\ frame_version \in Nat /\ rendering \in Nat /\ rendered.version \in Nat
  /\ rendering <= frame_version /\ rendered.version <= frame_version
  /\ NoStaleFrame

\* DisplayInv: the inductive invariant behind what the screens show.
DisplayInv == QueueOK /\ EngineOK /\ FreshOK /\ BytesOK /\ FramesOK

LEMMA HostStateHasNumber == \A h \in HostState : h.num \in Nat
BY DisplayAssumption DEF HostState

LEMMA NewestLeads ==
  ASSUME QueueOK
  PROVE  latest \in HostState /\ Leads(0, latest.state, ScreenOf(latest.num))
<1>1. /\ Len(received) \in Nat /\ Len(received) >= 1
      /\ latest = received[Len(received)] /\ latest \in HostState
  BY NonEmptySeq DEF QueueOK, latest
<1>2. QED
  BY <1>1 DEF QueueOK

LEMMA InstructionsAreDiffs ==
  ASSUME NEW inst \in Instructions
  PROVE  /\ inst.old_num \in 0 .. MaxNum /\ inst.new_num \in 0 .. MaxNum
         /\ inst.throwaway_num \in Nat
         /\ inst.diff = HostDiff(inst.old_num, inst.new_num)
<1>1. PICK m \in 0 .. MaxNum, n \in 0 .. MaxNum, t \in 0 .. MaxNum :
        inst = HostInstruction(m, n, t)
  BY DEF Instructions
<1>2. /\ inst.old_num = m /\ inst.new_num = n /\ inst.throwaway_num = t
      /\ inst.diff = HostDiff(m, n)
  BY <1>1 DEF HostInstruction
<1>3. QED
  BY <1>2, DisplayAssumption

\* The state that an instruction denotes leads to the screen of its number.
LEMMA NewStateLeads ==
  ASSUME NEW q \in Seq(HostState), NEW inst \in Instructions, Holds(q, inst.old_num),
         \A i \in 1 .. Len(q) : Leads(0, q[i].state, ScreenOf(q[i].num))
  PROVE  LET new == NewState(q, inst)
         IN  /\ new \in HostState /\ new.num = inst.new_num
             /\ Leads(0, new.state, ScreenOf(new.num))
<1> DEFINE r == Reference(q, inst.old_num)
           new == NewState(q, inst)
<1>1. r \in 1 .. Len(q) /\ q[r].num = inst.old_num
  BY DEF Holds, Reference
<1>2. new.num = inst.new_num /\ new.state = q[r].state \o inst.diff
      /\ new = [num |-> new.num, state |-> new.state]
  BY DEF NewState, apply_string
<1> HIDE DEF r, new
<1>3. Leads(0, q[r].state, ScreenOf(inst.old_num))
  BY <1>1
<1>4. Leads(ScreenOf(inst.old_num), inst.diff, ScreenOf(inst.new_num))
  BY InstructionsAreDiffs, DiffLeads
<1>5. Leads(0, new.state, ScreenOf(new.num))
  BY <1>2, <1>3, <1>4, LeadsThrough
<1>6. new \in HostState
  <2>1. new.state \in Seq(HostEvent)
    BY <1>5 DEF Leads
  <2>2. new.num \in 0 .. MaxNum
    BY <1>2, InstructionsAreDiffs
  <2>3. QED
    BY <1>2, <2>1, <2>2 DEF HostState
<1>7. QED
  BY <1>2, <1>5, <1>6 DEF new

LEMMA InitDisplay == Init => DisplayInv
<1> SUFFICES ASSUME Init PROVE DisplayInv
  OBVIOUS
<1> DEFINE zero == [num |-> 0, state |-> << >>]
<1>1. received = << zero >> /\ zero.num = 0 /\ zero.state = << >>
  BY DEF Init, ReceiverInit
<1>2. zero \in HostState
  BY DisplayAssumption DEF HostState
<1> HIDE DEF zero
<1>3. /\ received \in Seq(HostState) /\ received # << >>
      /\ Len(received) = 1 /\ received[1] = zero /\ latest = zero
  BY <1>1, <1>2 DEF latest, Last
<1>4. Leads(0, << >>, 0)
  BY LeadsNowhere
<1>5. StrictlySorted(received)
  BY <1>3 DEF StrictlySorted
<1>6. QueueOK
  BY <1>1, <1>3, <1>4, <1>5, FirstScreen DEF QueueOK
<1>7. blank(InitialSize) \in Engine /\ blank(InitialSize).screen = 0
  BY DEF blank, Engine, Dims
<1>8. EngineOK
  BY <1>1, <1>3, <1>4, <1>7, FirstScreen DEF Init, EngineOK, DisplayShowsLatest
<1>9. FreshOK
  BY DEF Init, FreshOK
<1>10. BytesOK
  <2>1. /\ consumer \in Engine /\ consumer.screen = 0 /\ display.screen = 0
        /\ pending_bytes = << >> /\ pending_bytes \in Seq(HostEvent)
    BY <1>7 DEF Init
  <2>2. capture \in BOOLEAN /\ branched \in BOOLEAN /\ missed \in BOOLEAN
    BY Zenon DEF Init
  <2>3. QED
    BY <1>4, <2>1, <2>2 DEF BytesOK
<1>11. FramesOK
  BY DEF Init, FramesOK, NoStaleFrame
<1>12. QED
  BY <1>6, <1>8, <1>9, <1>10, <1>11 DEF DisplayInv

-----------------------------------------------------------------------------
(* process_instruction. *)

\* What throwing away leaves leads where it led.
LEMMA KeptLeads ==
  ASSUME QueueOK, NEW inst \in Instructions, Admissible(inst)
  PROVE  LET kept == ThrowAwayUntil(received, inst.throwaway_num)
         IN  /\ kept \in Seq(HostState) /\ kept # << >> /\ StrictlySorted(kept)
             /\ Last(kept) = latest
             /\ ~ Holds(kept, inst.new_num)
             /\ \A i \in 1 .. Len(kept) : Leads(0, kept[i].state, ScreenOf(kept[i].num))
<1> DEFINE kept == ThrowAwayUntil(received, inst.throwaway_num)
<1>1. /\ kept \in Seq(HostState) /\ kept # << >> /\ StrictlySorted(kept)
      /\ Last(kept) = Last(received)
      /\ \A i \in 1 .. Len(kept) : \E j \in 1 .. Len(received) : kept[i] = received[j]
  <2>1. /\ received \in Seq(HostState) /\ received # << >> /\ StrictlySorted(received)
        /\ LeavesSome(received, inst.throwaway_num) /\ inst.throwaway_num \in Nat
    BY InstructionsAreDiffs DEF QueueOK, Admissible
  <2>2. QED
    BY <2>1, HostStateHasNumber, ThrowAway
<1> HIDE DEF kept
<1>2. ~ Holds(kept, inst.new_num)
  BY <1>1 DEF Admissible, Holds
<1>3. \A i \in 1 .. Len(kept) : Leads(0, kept[i].state, ScreenOf(kept[i].num))
  BY <1>1 DEF QueueOK
<1>4. QED
  BY <1>1, <1>2, <1>3 DEF kept, latest

LEMMA LatestKeepsQueue ==
  ASSUME QueueOK, NEW inst \in Instructions, Latest(inst, 0)
  PROVE  QueueOK'
<1> DEFINE kept == ThrowAwayUntil(received, inst.throwaway_num)
           new == NewState(kept, inst)
<1>1. /\ Admissible(inst) /\ Holds(kept, inst.old_num)
      /\ Last(kept).num < inst.new_num /\ received' = Append(kept, new)
  BY DEF Latest, Applied
<1>2. /\ kept \in Seq(HostState) /\ kept # << >> /\ StrictlySorted(kept)
      /\ \A i \in 1 .. Len(kept) : Leads(0, kept[i].state, ScreenOf(kept[i].num))
  BY <1>1, KeptLeads
<1>3. /\ new \in HostState /\ new.num = inst.new_num
      /\ Leads(0, new.state, ScreenOf(new.num))
  BY <1>1, <1>2, NewStateLeads
<1> HIDE DEF kept, new
<1>4. /\ received' \in Seq(HostState) /\ received' # << >> /\ StrictlySorted(received')
      /\ \A i \in 1 .. Len(received') :
           received'[i] = new \/ \E j \in 1 .. Len(kept) : received'[i] = kept[j]
  BY <1>1, <1>2, <1>3, HostStateHasNumber, AppendHeld
<1>5. \A i \in 1 .. Len(received') :
        Leads(0, received'[i].state, ScreenOf(received'[i].num))
  BY <1>2, <1>3, <1>4
<1>6. QED
  BY <1>4, <1>5 DEF QueueOK

LEMMA IgnoredKeepsQueue ==
  ASSUME QueueOK, NEW inst \in Instructions, Ignored(inst, 0)
  PROVE  QueueOK' /\ latest' = latest
<1> DEFINE kept == ThrowAwayUntil(received, inst.throwaway_num)
           new == NewState(kept, inst)
<1>1. CASE received' = received
  BY <1>1 DEF QueueOK, latest, StrictlySorted
<1>2. CASE Admissible(inst) /\ received' = kept
  <2>1. /\ kept \in Seq(HostState) /\ kept # << >> /\ StrictlySorted(kept)
        /\ Last(kept) = latest
        /\ \A i \in 1 .. Len(kept) : Leads(0, kept[i].state, ScreenOf(kept[i].num))
    BY <1>2, KeptLeads
  <2> HIDE DEF kept
  <2>2. QED
    BY <1>2, <2>1 DEF QueueOK, latest
<1>3. CASE OutOfOrder(inst, 0)
  <2>1. /\ Admissible(inst) /\ Holds(kept, inst.old_num)
        /\ Last(kept).num >= inst.new_num
        /\ received' = InsertAt(kept, Slot(kept, inst.new_num), new)
    BY <1>3 DEF OutOfOrder, Applied
  <2>2. /\ kept \in Seq(HostState) /\ kept # << >> /\ StrictlySorted(kept)
        /\ Last(kept) = latest /\ ~ Holds(kept, inst.new_num)
        /\ \A i \in 1 .. Len(kept) : Leads(0, kept[i].state, ScreenOf(kept[i].num))
    BY <2>1, KeptLeads
  <2>3. /\ new \in HostState /\ new.num = inst.new_num
        /\ Leads(0, new.state, ScreenOf(new.num))
    BY <2>1, <2>2, NewStateLeads
  <2> HIDE DEF kept, new
  <2> DEFINE r == InsertAt(kept, Slot(kept, new.num), new)
  <2>4. /\ r \in Seq(HostState) /\ r # << >> /\ StrictlySorted(r)
        /\ Last(r) = Last(kept)
        /\ \A i \in 1 .. Len(r) : r[i] = new \/ \E j \in 1 .. Len(kept) : r[i] = kept[j]
    BY <2>1, <2>2, <2>3, HostStateHasNumber, InsertHeld
  <2>5. received' = r
    BY <2>1, <2>3
  <2> HIDE DEF r
  <2>6. \A i \in 1 .. Len(r) : Leads(0, r[i].state, ScreenOf(r[i].num))
    BY <2>2, <2>3, <2>4
  <2>7. QED
    BY <2>2, <2>4, <2>5, <2>6 DEF QueueOK, latest
<1>4. CASE Duplicate(inst) \/ NoReference(inst)
  BY <1>1, <1>4 DEF Duplicate, NoReference, receiverVars
<1>5. CASE ReferenceThrownAway(inst) \/ Quenched(inst, 0)
  BY <1>2, <1>5 DEF ReferenceThrownAway, Quenched
<1>6. QED
  BY <1>3, <1>4, <1>5 DEF Ignored

-----------------------------------------------------------------------------
(* The steps of the threads. *)

\* Bytes captured, or not missed, keep the consumer on its way to the engine.
LEMMA CaptureLeads ==
  ASSUME NEW x \in Int, NEW y \in Int, NEW z \in Int, NEW log,
         Leads(y, log, z), BytesOK,
         ~ branched /\ ~ missed => Leads(x, pending_bytes, y)
  PROVE  /\ Captured(pending_bytes, log) \in Seq(HostEvent)
         /\ (missed \/ Missed(log)) \in BOOLEAN
         /\ ~ branched /\ ~ (missed \/ Missed(log))
              => Leads(x, Captured(pending_bytes, log), z)
<1>1. Leads(y, Bytes(log), z)
  BY BytesLead
<1>2. Bytes(log) \in Seq(HostEvent) /\ pending_bytes \in Seq(HostEvent)
  BY <1>1 DEF Leads, BytesOK
<1>3. Captured(pending_bytes, log) \in Seq(HostEvent)
  BY <1>2, ConcatProperties DEF Captured
<1>4. ASSUME ~ branched, ~ missed, ~ Missed(log)
      PROVE  Leads(x, Captured(pending_bytes, log), z)
  <2>1. CASE capture
    BY <1>1, <1>4, <2>1, LeadsThrough DEF Captured
  <2>2. CASE ~ capture
    <3>1. Bytes(log) = << >>
      BY <1>4, <2>2 DEF Missed
    <3>2. y = z
      BY <1>1, <3>1, LeadsNowhere, LeadsToOne
    <3>3. QED
      BY <1>4, <2>2, <3>2 DEF Captured
  <2>3. QED
    BY <2>1, <2>2
<1>5. QED
  BY <1>3, <1>4

LEMMA DatagramKeeps ==
  ASSUME DisplayInv, NEW inst \in Instructions, Datagram(inst)
  PROVE  DisplayInv'
<1> DEFINE log == latest'.state
           suffix == DropFirst(log, Len(engine_at))
           target == ScreenOf(latest'.num)
<1>1. /\ loop = "idle" /\ fresh' = fresh /\ ui' = ui
      /\ rendering' = rendering /\ rendered' = rendered /\ frame_version' = frame_version
      /\ capture' = capture /\ consumer' = consumer /\ branched' = branched
  BY DEF Datagram, uiVars, renderVars
<1>2. /\ QueueOK /\ BytesOK /\ display \in Engine /\ display.screen \in Int
      /\ consumer.screen \in Int /\ Leads(0, engine_at, display.screen)
      /\ display.screen = ScreenOf(latest.num)
  BY <1>1 DEF DisplayInv, EngineOK, BytesOK, Engine, DisplayShowsLatest
<1>3. FramesOK'
      <=> (loop' # "fed" /\ ui = "idle" /\ rendered.version = frame_version
             => rendered.display = display')
  BY <1>1 DEF DisplayInv, FramesOK, NoStaleFrame
<1>4. rendered.version = frame_version /\ ui = "idle" => rendered.display = display
  BY <1>1 DEF DisplayInv, FramesOK, NoStaleFrame
<1>5. ASSUME display' = display, pending_bytes' = pending_bytes, missed' = missed,
             engine_at' = engine_at, loop' \in {"idle", "fed", "branched"}, QueueOK',
             loop' # "branched" => display.screen = target
      PROVE  DisplayInv'
  <2>1. EngineOK'
    BY <1>2, <1>5 DEF EngineOK, DisplayShowsLatest
  <2>2. FreshOK'
    BY <1>5 DEF FreshOK
  <2>3. BytesOK'
    BY <1>1, <1>2, <1>5 DEF BytesOK
  <2>4. FramesOK'
    BY <1>3, <1>4, <1>5
  <2>5. QED
    BY <1>5, <2>1, <2>2, <2>3, <2>4 DEF DisplayInv
<1>6. CASE NotNewest(inst)
  <2>1. /\ Ignored(inst, 0)
        /\ display' = display /\ pending_bytes' = pending_bytes /\ missed' = missed
        /\ loop' = loop /\ engine_at' = engine_at
    BY <1>6 DEF NotNewest
  <2>2. QueueOK' /\ latest' = latest
    BY <1>2, <2>1, IgnoredKeepsQueue
  <2>3. QED
    BY <1>1, <1>2, <1>5, <2>1, <2>2
<1>7. CASE Latest(inst, 0) /\ ~ NotNewest(inst)
  <2>1. QueueOK'
    BY <1>2, <1>7, LatestKeepsQueue
  <2>2. Leads(0, log, target) /\ latest' \in HostState
    <3>1. (QueueOK => latest \in HostState /\ Leads(0, latest.state, ScreenOf(latest.num)))'
      BY NewestLeads, PTL
    <3>2. QED
      BY <2>1, <3>1
  <2>3. target \in Int
    <3>1. latest'.num \in Nat
      BY <2>2, HostStateHasNumber
    <3>2. QED
      BY <3>1, ScreensAreNumbers
  <2>4. Descends(log, engine_at) =>
          Leads(display.screen, suffix, target) /\ (suffix = << >> => log = engine_at)
    BY <1>2, <2>2, LeadsFromAncestor
  <2>5. CASE /\ Descends(log, engine_at) /\ suffix # << >>
             /\ display' = Fed(display, suffix)
             /\ pending_bytes' = Captured(pending_bytes, suffix)
             /\ missed' = (missed \/ Missed(suffix))
             /\ engine_at' = log
             /\ loop' = "fed"
    <3>1. Leads(display.screen, suffix, target)
      BY <2>4, <2>5
    <3>2. display' \in Engine /\ display'.screen = target
      BY <1>2, <2>5, <3>1, FedShows
    <3>3. EngineOK'
      BY <2>2, <2>5, <3>2 DEF EngineOK, DisplayShowsLatest
    <3>4. FreshOK'
      BY <2>5 DEF FreshOK
    <3>5. BytesOK'
      <4> HIDE DEF suffix, target
      <4>1. /\ pending_bytes' \in Seq(HostEvent) /\ missed' \in BOOLEAN
            /\ ~ branched /\ ~ missed' => Leads(consumer.screen, pending_bytes', target)
        <5>1. ~ branched /\ ~ missed => Leads(consumer.screen, pending_bytes, display.screen)
          BY <1>2 DEF BytesOK
        <5>2. QED
          BY <1>2, <2>3, <2>5, <3>1, <5>1, CaptureLeads
      <4>2. QED
        BY <1>1, <1>2, <3>2, <4>1 DEF BytesOK
    <3>6. FramesOK'
      BY <1>3, <2>5
    <3>7. QED
      BY <2>1, <3>3, <3>4, <3>5, <3>6 DEF DisplayInv
  <2>6. CASE /\ Descends(log, engine_at) /\ suffix = << >>
             /\ loop' \in {"idle", "fed"}
             /\ UNCHANGED << display, pending_bytes, missed, engine_at >>
    <3>1. log = engine_at
      BY <2>4, <2>6
    <3>2. display.screen = target
      BY <1>2, <2>2, <3>1, LeadsToOne
    <3>3. QED
      BY <1>5, <2>1, <2>6, <3>2
  <2>7. CASE /\ ~ Descends(log, engine_at)
             /\ loop' = "branched"
             /\ UNCHANGED << display, pending_bytes, missed, engine_at >>
    BY <1>5, <2>1, <2>7
  <2>8. QED
    BY <1>7, <2>5, <2>6, <2>7 DEF Datagram
<1>8. QED
  BY <1>6, <1>7 DEF Datagram

\* The loop's later steps, each between two unlocks.
LEMMA LoopKeeps ==
  ASSUME DisplayInv, Rebuild \/ Replace \/ ScreenChanged
  PROVE  DisplayInv'
<1>1. /\ received' = received /\ latest' = latest
      /\ ui' = ui /\ rendering' = rendering /\ rendered' = rendered
      /\ capture' = capture /\ consumer' = consumer
  BY DEF Rebuild, Replace, ScreenChanged, receiverVars, uiVars, renderVars, byteVars, latest
<1>2. QueueOK'
  BY <1>1 DEF DisplayInv, QueueOK, StrictlySorted
<1>3. latest \in HostState /\ Leads(0, latest.state, ScreenOf(latest.num))
  BY NewestLeads DEF DisplayInv
<1>4. CASE Rebuild
  <2>1. /\ loop = "branched" /\ loop' = "rebuilt"
        /\ fresh' = Fed(blank(display.size), latest.state)
        /\ pending_bytes' = Captured(pending_bytes, latest.state)
        /\ branched' = TRUE /\ missed' = (missed \/ Missed(latest.state))
        /\ display' = display /\ engine_at' = engine_at /\ frame_version' = frame_version
    BY <1>4 DEF Rebuild
  <2>2. blank(display.size) \in Engine /\ blank(display.size).screen = 0
    BY DEF DisplayInv, EngineOK, Engine, blank
  <2>3. fresh' \in Engine /\ fresh'.screen = ScreenOf(latest.num)
    <3> DEFINE start == blank(display.size)
    <3> HIDE DEF start
    <3>1. start \in Engine /\ start.screen = 0 /\ fresh' = Fed(start, latest.state)
      BY <2>1, <2>2 DEF start
    <3>2. QED
      BY <1>3, <3>1, FedShows
  <2>4. EngineOK'
    BY <2>1 DEF DisplayInv, EngineOK, DisplayShowsLatest
  <2>5. FreshOK'
    BY <1>1, <2>1, <2>3 DEF FreshOK
  <2>6. BytesOK'
    <3>1. Leads(0, Bytes(latest.state), ScreenOf(latest.num))
      BY <1>3, BytesLead
    <3>2. pending_bytes' \in Seq(HostEvent)
      BY <2>1, <3>1, ConcatProperties DEF Leads, Captured, DisplayInv, BytesOK
    <3>3. missed' \in BOOLEAN
      BY <2>1, Zenon
    <3>4. QED
      BY <1>1, <2>1, <3>2, <3>3 DEF DisplayInv, BytesOK
  <2>7. FramesOK'
    BY <1>1, <2>1 DEF DisplayInv, FramesOK, NoStaleFrame
  <2>8. QED
    BY <1>2, <2>4, <2>5, <2>6, <2>7 DEF DisplayInv
<1>5. CASE Replace
  <2>1. /\ loop = "rebuilt" /\ loop' = "fed"
        /\ display' = fresh /\ engine_at' = latest.state
        /\ pending_bytes' = pending_bytes /\ branched' = branched /\ missed' = missed
        /\ frame_version' = frame_version
    BY <1>5 DEF Replace, byteVars
  <2>2. branched /\ fresh \in Engine /\ fresh.screen = ScreenOf(latest.num)
    BY <2>1 DEF DisplayInv, FreshOK
  <2>3. EngineOK'
    BY <1>1, <1>3, <2>1, <2>2 DEF EngineOK, DisplayShowsLatest
  <2>4. FreshOK'
    BY <2>1 DEF FreshOK
  <2>5. BytesOK'
    BY <1>1, <2>1, <2>2 DEF DisplayInv, BytesOK
  <2>6. FramesOK'
    BY <1>1, <2>1 DEF DisplayInv, FramesOK, NoStaleFrame
  <2>7. QED
    BY <1>2, <2>3, <2>4, <2>5, <2>6 DEF DisplayInv
<1>6. CASE ScreenChanged
  <2>1. /\ loop = "fed" /\ loop' = "idle" /\ frame_version' = frame_version + 1
        /\ display' = display /\ engine_at' = engine_at /\ fresh' = fresh
        /\ pending_bytes' = pending_bytes /\ branched' = branched /\ missed' = missed
    BY <1>6 DEF ScreenChanged, byteVars
  <2>2. EngineOK'
    BY <1>1, <2>1 DEF DisplayInv, EngineOK, DisplayShowsLatest
  <2>3. FreshOK'
    BY <2>1 DEF FreshOK
  <2>4. BytesOK'
    BY <1>1, <2>1 DEF DisplayInv, BytesOK
  <2>5. FramesOK'
    BY <1>1, <2>1 DEF DisplayInv, FramesOK, NoStaleFrame
  <2>6. QED
    BY <1>2, <2>2, <2>3, <2>4, <2>5 DEF DisplayInv
<1>7. QED
  BY <1>4, <1>5, <1>6

\* The embedder's threads.
LEMMA EmbedderKeeps ==
  ASSUME DisplayInv,
         \/ \E size \in Sizes : resize(size)
         \/ Render
         \/ take_host_bytes
         \/ \E on \in BOOLEAN : set_host_bytes_capture(on)
  PROVE  DisplayInv'
<1>1. /\ received' = received /\ latest' = latest
      /\ engine_at' = engine_at /\ loop' = loop /\ fresh' = fresh
      /\ branched' = branched /\ missed' = missed
  BY DEF resize, Render, take_host_bytes, set_host_bytes_capture, receiverVars, loopVars,
         byteVars, latest
<1>2. QueueOK'
  BY <1>1 DEF DisplayInv, QueueOK, StrictlySorted
<1>3. FreshOK'
  BY <1>1 DEF DisplayInv, FreshOK
<1>4. ASSUME display' \in Engine, display'.screen = display.screen
      PROVE  EngineOK'
  BY <1>1, <1>4 DEF DisplayInv, EngineOK, DisplayShowsLatest
<1>5. display \in Engine /\ consumer \in Engine /\ consumer.screen \in Int
  BY DEF DisplayInv, EngineOK, BytesOK, Engine
<1>6. ASSUME NEW size \in Sizes, resize(size)
      PROVE  DisplayInv'
  <2>1. /\ rendering' = rendering /\ rendered' = rendered
        /\ pending_bytes' = pending_bytes /\ capture' = capture /\ consumer' = consumer
    BY <1>6 DEF resize, renderVars, byteVars
  <2>2. CASE /\ display' = [display EXCEPT !.size = size]
             /\ ui' = "resized" /\ frame_version' = frame_version
    <3>1. display' \in Engine /\ display'.screen = display.screen
      BY <1>5, <2>2 DEF Engine, Dims
    <3>2. BytesOK'
      BY <1>1, <2>1, <3>1 DEF DisplayInv, BytesOK
    <3>3. FramesOK'
      BY <2>1, <2>2 DEF DisplayInv, FramesOK, NoStaleFrame
    <3>4. QED
      BY <1>2, <1>3, <1>4, <3>1, <3>2, <3>3 DEF DisplayInv
  <2>3. CASE display' = display /\ frame_version' = frame_version + 1
    <3>1. BytesOK'
      BY <1>1, <2>1, <2>3 DEF DisplayInv, BytesOK
    <3>2. FramesOK'
      BY <2>1, <2>3 DEF DisplayInv, FramesOK, NoStaleFrame
    <3>3. QED
      BY <1>2, <1>3, <1>4, <1>5, <2>3, <3>1, <3>2 DEF DisplayInv
  <2>4. QED
    BY <1>6, <2>2, <2>3 DEF resize
<1>7. CASE Render
  <2>1. /\ display' = display /\ frame_version' = frame_version /\ ui' = ui
        /\ pending_bytes' = pending_bytes /\ capture' = capture /\ consumer' = consumer
    BY <1>7 DEF Render, uiVars, byteVars
  <2>2. \/ rendering' = frame_version /\ rendered' = rendered
        \/ rendered' = [version |-> rendering, display |-> display] /\ rendering' = 0
    BY <1>7 DEF Render
  <2>3. BytesOK'
    BY <1>1, <2>1 DEF DisplayInv, BytesOK
  <2>4. FramesOK'
    BY <1>1, <2>1, <2>2 DEF DisplayInv, FramesOK, NoStaleFrame
  <2>5. QED
    BY <1>2, <1>3, <1>4, <1>5, <2>1, <2>3, <2>4 DEF DisplayInv
<1>8. CASE take_host_bytes
  <2>1. /\ display' = display /\ frame_version' = frame_version /\ ui' = ui
        /\ rendering' = rendering /\ rendered' = rendered /\ capture' = capture
        /\ consumer' = Fed(consumer, pending_bytes) /\ pending_bytes' = << >>
    BY <1>8 DEF take_host_bytes, uiVars, renderVars
  <2>2. PICK y \in Int : Leads(consumer.screen, pending_bytes, y)
    BY <1>5, LogsLead DEF DisplayInv, BytesOK
  <2>3. consumer' \in Engine /\ consumer'.screen = y
    BY <1>5, <2>1, <2>2, FedShows
  <2>4. Leads(y, << >>, y) /\ << >> \in Seq(HostEvent)
    BY LeadsNowhere
  <2>5. ~ branched /\ ~ missed => display.screen = y
    BY <2>2, LeadsToOne DEF DisplayInv, BytesOK
  <2>6. BytesOK'
    BY <1>1, <2>1, <2>3, <2>4, <2>5 DEF DisplayInv, BytesOK
  <2>7. FramesOK'
    BY <1>1, <2>1 DEF DisplayInv, FramesOK, NoStaleFrame
  <2>8. QED
    BY <1>2, <1>3, <1>4, <1>5, <2>1, <2>6, <2>7 DEF DisplayInv
<1>9. ASSUME NEW on \in BOOLEAN, set_host_bytes_capture(on)
      PROVE  DisplayInv'
  <2>1. /\ display' = display /\ frame_version' = frame_version /\ ui' = ui
        /\ rendering' = rendering /\ rendered' = rendered /\ capture' = on
        /\ consumer' = consumer /\ pending_bytes' = pending_bytes
    BY <1>9 DEF set_host_bytes_capture, uiVars, renderVars
  <2>2. BytesOK'
    BY <1>1, <2>1 DEF DisplayInv, BytesOK
  <2>3. FramesOK'
    BY <1>1, <2>1 DEF DisplayInv, FramesOK, NoStaleFrame
  <2>4. QED
    BY <1>2, <1>3, <1>4, <1>5, <2>1, <2>2, <2>3 DEF DisplayInv
<1>10. QED
  BY <1>6, <1>7, <1>8, <1>9

LEMMA NextDisplay == DisplayInv /\ [Next]_vars => DisplayInv'
<1> SUFFICES ASSUME DisplayInv, [Next]_vars PROVE DisplayInv'
  OBVIOUS
<1>1. CASE Next
  BY <1>1, DatagramKeeps, LoopKeeps, EmbedderKeeps DEF Next
<1>2. CASE UNCHANGED vars
  <2>1. /\ received' = received /\ latest' = latest
        /\ engine_at' = engine_at /\ loop' = loop /\ fresh' = fresh
        /\ branched' = branched /\ missed' = missed
        /\ display' = display /\ frame_version' = frame_version /\ ui' = ui
        /\ rendering' = rendering /\ rendered' = rendered /\ capture' = capture
        /\ consumer' = consumer /\ pending_bytes' = pending_bytes
    BY <1>2 DEF vars, receiverVars, loopVars, uiVars, renderVars, byteVars, latest
  <2>2. QueueOK'
    BY <2>1 DEF DisplayInv, QueueOK, StrictlySorted
  <2>3. EngineOK' /\ FreshOK'
    BY <2>1 DEF DisplayInv, EngineOK, FreshOK, DisplayShowsLatest
  <2>4. BytesOK'
    BY <2>1 DEF DisplayInv, BytesOK
  <2>5. FramesOK'
    BY <2>1 DEF DisplayInv, FramesOK, NoStaleFrame
  <2>6. QED
    BY <2>2, <2>3, <2>4, <2>5 DEF DisplayInv
<1>3. QED
  BY <1>1, <1>2

-----------------------------------------------------------------------------
\* DisplayInv holds in every reachable state, however the loop's steps, the
\* embedder's and the datagrams interleave.
THEOREM DisplayInvariant == Spec => []DisplayInv
<1>1. QED
  BY InitDisplay, NextDisplay, PTL DEF Spec

\* handle_datagram leaves the engine on the newest state's screen, by whichever
\* path it brought it there.
THEOREM EngineShowsLatest == Spec => []DisplayShowsLatest
<1>1. DisplayInv => DisplayShowsLatest
  BY DEF DisplayInv, EngineOK
<1>2. QED
  BY <1>1, DisplayInvariant, PTL

\* A renderer that polls frame_version never sleeps on an old screen.
THEOREM FramesAreCurrent == Spec => []NoStaleFrame
<1>1. DisplayInv => NoStaleFrame
  BY DEF DisplayInv, FramesOK
<1>2. QED
  BY <1>1, DisplayInvariant, PTL

\* Until a rebuild, draining take_host_bytes into an engine of one's own shows the
\* newest screen.
THEOREM ConsumerFollows == Spec => []ConsumerFollowsUntilBranch
<1>1. DisplayInv => ConsumerFollowsUntilBranch
  <2> SUFFICES ASSUME DisplayInv, ~ branched, ~ missed, loop # "branched",
                      pending_bytes = << >>
               PROVE  consumer.screen = ScreenOf(latest.num)
    BY DEF ConsumerFollowsUntilBranch
  <2>1. display.screen = ScreenOf(latest.num)
    BY DEF DisplayInv, EngineOK, FreshOK, DisplayShowsLatest
  <2>2. consumer.screen \in Int /\ Leads(consumer.screen, << >>, display.screen)
    BY DEF DisplayInv, BytesOK, Engine
  <2>3. Leads(consumer.screen, << >>, consumer.screen)
    BY <2>2, LeadsNowhere
  <2>4. QED
    BY <2>1, <2>2, <2>3, LeadsToOne
<1>2. QED
  BY <1>1, DisplayInvariant, PTL
=============================================================================
