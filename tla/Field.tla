-------------------------------- MODULE Field --------------------------------
(***************************************************************************)
(* Scalars and points of the proofs of the bulletproofs crate.             *)
(*                                                                         *)
(* The code computes in secp256k1, a cyclic group of prime order.  Here    *)
(* the order is a small prime q, and a point is its discrete logarithm, so *)
(* that points add like scalars and a multi-exponentiation is an inner     *)
(* product.  Vectors are sequences: index i of the code is i + 1 here.     *)
(***************************************************************************)
EXTENDS Naturals, Sequences

CONSTANTS
  q,       \* the order of the group
  Oracles  \* the choices of the hash function

ASSUME FieldAssumption ==
  /\ q \in Nat \ {0, 1, 2} /\ \A d \in 2 .. q - 1 : q % d # 0
  /\ Oracles \subseteq Nat

VARIABLE oracle  \* the hash function: which one is chosen at the start

Scalar == 0 .. q - 1

x (+) y == (x + y) % q
x (-) y == (x + q - y) % q
x (.) y == (x * y) % q

pow(x, n) == LET p[k \in 0 .. n] == IF k = 0 THEN 1 ELSE p[k - 1] (.) x
             IN  p[n]

inverse(x) == CHOOSE y \in 1 .. q - 1 : x (.) y = 1

Sum(v) == LET s[k \in 0 .. Len(v)] == IF k = 0 THEN 0 ELSE s[k - 1] (+) v[k]
          IN  s[Len(v)]

Product(v) == LET p[k \in 0 .. Len(v)] == IF k = 0 THEN 1 ELSE p[k - 1] (.) v[k]
              IN  p[Len(v)]

\* The inner product of two vectors of scalars, and the multi-exponentiation
\* of points with scalars.
Dot(u, v) == Sum([i \in DOMAIN v |-> u[i] (.) v[i]])

Times(c, v) == [i \in DOMAIN v |-> c (.) v[i]]
Plus(u, v)  == [i \in DOMAIN v |-> u[i] (+) v[i]]

Left(v)  == SubSeq(v, 1, Len(v) \div 2)
Right(v) == SubSeq(v, Len(v) \div 2 + 1, Len(v))

\* A challenge: the hash of a transcript, as a scalar.  It is a function of the
\* transcript and of its order, different from zero (the code inverts it, and
\* panics on zero, which a hash yields with a negligible probability).
HashOf(seed, transcript) ==
  LET h[k \in 0 .. Len(transcript)] ==
        IF k = 0 THEN seed ELSE (7 * h[k - 1] + transcript[k] + k) % (q * q)
  IN  1 + (h[Len(transcript)] % (q - 1))

Hash(transcript) == HashOf(oracle, transcript)
=============================================================================
