----------------------------- MODULE UserStream -----------------------------
(***************************************************************************)
(* The append-only keystroke/resize log that the client synchronises out   *)
(* (src/ssp.rs, UserStream).  A stream is a sequence of events.  A diff is *)
(* represented by the sequence of events its bytes decode to; that the     *)
(* byte encoding (runs of keystrokes coalesced into one instruction)       *)
(* really decodes to those events, and is empty exactly when there are     *)
(* none, is checked on its own in Codecs.                                  *)
(***************************************************************************)
EXTENDS Integers, Sequences

\* The events after the first k: events[k..] and drain(..k).
DropFirst(s, k) == SubSeq(s, k + 1, Len(s))

\* zip + take_while(==) + count: the first position at which the two
\* streams differ, or the shorter of them ends, is k + 1.
common_prefix_len(a, b) ==
  CHOOSE k \in 0 .. Len(a) :
     /\ k <= Len(b)
     /\ \A i \in 1 .. k : a[i] = b[i]
     /\ k = Len(a) \/ k = Len(b) \/ a[k + 1] # b[k + 1]

diff_from(self, existing) == DropFirst(self, common_prefix_len(self, existing))

subtract(self, known_receiver) ==
  IF self = known_receiver
    THEN << >>
    ELSE DropFirst(self, common_prefix_len(self, known_receiver))

apply_string(self, diff) == self \o diff

\* Reference notion for the proofs: s consists of the events lo+1 .. hi of T.
IsWindow(s, E, T, lo, hi) ==
  /\ s \in Seq(E)
  /\ Len(s) = hi - lo
  /\ \A i \in 1 .. hi - lo : s[i] = T[lo + i]
=============================================================================
