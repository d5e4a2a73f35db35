------------------------------- MODULE Varint -------------------------------
(***************************************************************************)
(* The base-128 varints of src/wire.rs, in any base: a byte below BASE     *)
(* ends the number, a byte of BASE + d carries digit d and is followed by  *)
(* more.  WORD is the modulus of the integer read or written (2^64), INT   *)
(* that of the signed integers cast to it and back (2^32 for an i32).      *)
(***************************************************************************)
EXTENDS Integers, Sequences, FiniteSets

CONSTANTS BASE, WORD, INT, MAX_VARINT_BYTES

\* The longest number fits MAX_VARINT_BYTES, and the last byte has room to
\* spare, as ten groups of 7 bits have for 64.
ASSUME VarintAssumption ==
  /\ BASE \in Nat /\ BASE > 1
  /\ MAX_VARINT_BYTES \in Nat \ {0}
  /\ WORD \in BASE ^ (MAX_VARINT_BYTES - 1) + 1 .. BASE ^ MAX_VARINT_BYTES
  /\ INT \in 2 .. WORD /\ INT % 2 = 0 /\ WORD % INT = 0

Ok == "Ok"
Truncated == "Truncated"
BadVarint == "BadVarint"

write_varint(value) ==
  LET bytes[v \in 0 .. value] ==
        IF v < BASE THEN << v >> ELSE << BASE + (v % BASE) >> \o bytes[v \div BASE]
  IN  bytes[value]

\* The value of the digits at pos .. last, where shifts past the word's width
\* drop bits.
Digits(buf, pos, last) ==
  LET upto[i \in pos - 1 .. last] ==
        IF i < pos THEN 0
        ELSE upto[i - 1] + (buf[i] % BASE) * BASE ^ (i - pos)
  IN  upto[last] % WORD

\* read_varint at position pos: the value, and the position that the reading
\* has reached (also when it failed).
read_varint(buf, pos) ==
  LET bytes == {i \in pos .. pos + MAX_VARINT_BYTES - 1 : i <= Len(buf)}
      ends  == {i \in bytes : buf[i] < BASE}
      last  == CHOOSE i \in ends : \A j \in ends : i <= j
  IN  IF ends # {}
        THEN [error |-> Ok, value |-> Digits(buf, pos, last), pos |-> last + 1]
        ELSE [error |-> IF Cardinality(bytes) = MAX_VARINT_BYTES THEN BadVarint
                                                                 ELSE Truncated,
              value |-> 0, pos |-> pos + Cardinality(bytes)]

\* Mutant: the sign bit is lost.
AsUnsignedInt(u) == u % INT

\* The casts of a signed dimension: as u64 sign-extends, as i32 truncates.
AsUnsigned(v) == v % WORD
AsSigned(u) == LET low == u % INT IN IF low >= INT \div 2 THEN low - INT ELSE low
=============================================================================
