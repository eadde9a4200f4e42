---------------------------- MODULE InnerProduct ----------------------------
(***************************************************************************)
(* bulletproofs/src/proofs/inner_product.rs: an argument that the prover   *)
(* knows a and b with P = a . G + b . H + (a . b) ux, of logarithmic size. *)
(*                                                                         *)
(* The lengths of the vectors are equal powers of two (asserted).          *)
(***************************************************************************)
EXTENDS Field

inner_product(a, b) == Dot(a, b)

\* The generators of the next round.
HalveG(G, x) == Plus(Times(x, Right(G)), Times(inverse(x), Left(G)))
HalveH(H, x) == Plus(Times(x, Left(H)), Times(inverse(x), Right(H)))

\* One level of the recursion of prove: the halves are sent as L and R, and
\* folded with the challenge.  Zero scalars are skipped in the sums.
prove_round(st, ux) ==
  LET L == (inner_product(Left(st.a), Right(st.b)) (.) ux)
             (+) Dot(Right(st.G), Left(st.a)) (+) Dot(Left(st.H), Right(st.b))
      R == (inner_product(Right(st.a), Left(st.b)) (.) ux)
             (+) Dot(Left(st.G), Right(st.a)) (+) Dot(Right(st.H), Left(st.b))
      x == Hash(<<L, R, ux>>)
  IN  [G |-> HalveG(st.G, x),
       H |-> HalveH(st.H, x),
       a |-> Plus(Times(x, Left(st.a)), Times(inverse(x), Right(st.a))),
       b |-> Plus(Times(x, Right(st.b)), Times(inverse(x), Left(st.b))),
       L |-> Append(st.L, L),
       R |-> Append(st.R, R)]

\* The recursion ends with vectors of length 1.  The argument P of prove is
\* handed down and never read.
prove(G, H, ux, a, b) ==
  LET first == [G |-> G, H |-> H, a |-> a, b |-> b, L |-> << >>, R |-> << >>]
      round[n \in 1 .. Len(G)] == IF n = Len(G) THEN first
                                  ELSE prove_round(round[2 * n], ux)
      end == round[1]
  IN  [L |-> end.L, R |-> end.R, a_tag |-> end.a[1], b_tag |-> end.b[1]]

----------------------------------------------------------------------------
\* verify repeats the halving of the generators, and folds L and R into P.
verify(prf, g_vec, hi_tag, ux, P) ==
  LET challenge(k) == Hash(<<prf.L[k], prf.R[k], ux>>)
      round[k \in 0 .. Len(prf.L)] ==
        IF k = 0 THEN [G |-> g_vec, H |-> hi_tag, P |-> P]
        ELSE LET st == round[k - 1]
                 x  == challenge(k)
             IN  [G |-> HalveG(st.G, x),
                  H |-> HalveH(st.H, x),
                  P |-> (prf.L[k] (.) pow(x, 2))
                          (+) (prf.R[k] (.) pow(inverse(x), 2)) (+) st.P]
      end == round[Len(prf.L)]
  IN  end.P = (end.G[1] (.) prf.a_tag) (+) (end.H[1] (.) prf.b_tag)
                (+) (ux (.) prf.a_tag (.) prf.b_tag)

\* Wrong variant of Exponents, which the properties must detect: the challenges
\* taken in the opposite order.
ExponentsReversed(xs) ==
  LET lg_i(i) == CHOOSE l \in 0 .. Len(xs) : 2 ^ l <= i /\ i < 2 ^ (l + 1)
      s[i \in 0 .. 2 ^ Len(xs) - 1] ==
        IF i = 0 THEN inverse(Product(xs))
        ELSE s[i - 2 ^ lg_i(i)] (.) pow(xs[lg_i(i) + 1], 2)
  IN  [i \in 1 .. 2 ^ Len(xs) |-> s[i - 1]]

\* The exponents that the halvings leave on the generators, unrolled: the
\* binary digits of the index select the challenges or their inverses.  The
\* challenges are in the order of their creation.
Exponents(xs) ==
  LET lg_i(i) == CHOOSE l \in 0 .. Len(xs) : 2 ^ l <= i /\ i < 2 ^ (l + 1)
      s[i \in 0 .. 2 ^ Len(xs) - 1] ==
        IF i = 0 THEN inverse(Product(xs))
        ELSE s[i - 2 ^ lg_i(i)] (.) pow(xs[Len(xs) - lg_i(i)], 2)
  IN  [i \in 1 .. 2 ^ Len(xs) |-> s[i - 1]]

\* fast_verify: one multi-exponentiation instead of the halvings.
fast_verify(prf, g_vec, hi_tag, ux, P) ==
  LET xs == [k \in 1 .. Len(prf.L) |-> Hash(<<prf.L[k], prf.R[k], ux>>)]
      s  == Exponents(xs)
      minus_x_sq     == [k \in DOMAIN xs |-> 0 (-) pow(xs[k], 2)]
      minus_x_inv_sq == [k \in DOMAIN xs |-> 0 (-) pow(inverse(xs[k]), 2)]
  IN  P = Sum(<<ux (.) prf.a_tag (.) prf.b_tag,
                Dot(g_vec, Times(prf.a_tag, s)),
                Dot(hi_tag, [i \in DOMAIN s |-> prf.b_tag (.) inverse(s[i])]),
                Dot(prf.L, minus_x_sq),
                Dot(prf.R, minus_x_inv_sq)>>)
=============================================================================
