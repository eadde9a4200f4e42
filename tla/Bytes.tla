------------------------------- MODULE Bytes -------------------------------
(***************************************************************************)
(* Bytes are the numbers 0 .. 255, and byte strings sequences of them.  A  *)
(* 64-bit integer is the sequence of its eight bytes, the highest first    *)
(* and in two's complement, since it may exceed TLC's integers.            *)
(***************************************************************************)
EXTENDS Naturals, Sequences

\* The w bytes of a number below 2^32: to_be_bytes and to_le_bytes.
to_be_bytes(v, w) == [i \in 1 .. w |-> IF w - i > 3 THEN 0 ELSE (v \div 256 ^ (w - i)) % 256]
to_le_bytes(v, w) == [i \in 1 .. w |-> IF i > 4 THEN 0 ELSE (v \div 256 ^ (i - 1)) % 256]

\* The number of big-endian bytes, when TLC can hold it.
from_be_bytes(b) ==
  LET v[i \in 0 .. Len(b)] == IF i = 0 THEN 0 ELSE 256 * v[i - 1] + b[i]
  IN  v[Len(b)]

Reversed(b) == [i \in DOMAIN b |-> b[Len(b) + 1 - i]]

\* The w bytes that start at the 0-based offset from.
Slice(b, from, w) == SubSeq(b, from + 1, from + w)

Zeros(w) == [i \in 1 .. w |-> 0]
=============================================================================
