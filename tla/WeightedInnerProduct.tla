------------------------ MODULE WeightedInnerProduct ------------------------
(***************************************************************************)
(* bulletproofs/src/proofs/weighted_inner_product.rs: an argument for the  *)
(* inner product weighted with the powers of y, zero-knowledge by itself.  *)
(*                                                                         *)
(* The lengths of the vectors are equal powers of two (asserted).  random  *)
(* is the tape from which prove draws its nonces.                          *)
(***************************************************************************)
EXTENDS Field

IPA == INSTANCE InnerProduct

\* Weighted with y, y^2, ...
weighted_inner_product(a, b, y) ==
  Sum([i \in DOMAIN a |-> a[i] (.) b[i] (.) pow(y, i)])

\* The generators of the next round; n is the length of the halves.
HalveG(G, x, y) ==
  LET n == Len(G) \div 2
  IN  Plus(Times(x (.) pow(inverse(y), n), Right(G)), Times(inverse(x), Left(G)))
HalveH(H, x) == Plus(Times(x, Left(H)), Times(inverse(x), Right(H)))

\* One level of the recursion of prove, with the nonces d_L and d_R.
prove_round(st, g, h, y, d_L, d_R) ==
  LET n         == Len(st.G) \div 2
      yn_aR     == Times(pow(y, n), Right(st.a))
      yninv_aL  == Times(pow(inverse(y), n), Left(st.a))
      c_L       == weighted_inner_product(Left(st.a), Right(st.b), y)
      c_R       == weighted_inner_product(yn_aR, Left(st.b), y)
      L == Sum(<<g (.) c_L, h (.) d_L, Dot(Right(st.G), yninv_aL), Dot(Left(st.H), Right(st.b))>>)
      R == Sum(<<g (.) c_R, h (.) d_R, Dot(Left(st.G), yn_aR), Dot(Right(st.H), Left(st.b))>>)
      x == Hash(<<L, R, g, h>>)
  IN  [G |-> HalveG(st.G, x, y),
       H |-> HalveH(st.H, x),
       a |-> Plus(Times(x, Left(st.a)), Times(inverse(x), yn_aR)),
       b |-> Plus(Times(x, Right(st.b)), Times(inverse(x), Left(st.b))),
       alpha |-> Sum(<<st.alpha, pow(x, 2) (.) d_L, inverse(pow(x, 2)) (.) d_R>>),
       L |-> Append(st.L, L),
       R |-> Append(st.R, R)]

\* The end of the recursion, with the nonces r, s, delta and eta.
prove_end(st, g, h, y, r, s, delta, eta) ==
  LET a == st.a[1]
      b == st.b[1]
      A == Sum(<<st.G[1] (.) r, st.H[1] (.) s, g (.) ((a (.) s (.) y) (+) (b (.) r (.) y)),
                 h (.) delta>>)
      B == (g (.) (y (.) r (.) s)) (+) (h (.) eta)
      e == Hash(<<A, B, g, h>>)
  IN  [L |-> st.L, R |-> st.R, a_tag |-> A, b_tag |-> B,
       r_prime     |-> r (+) (a (.) e),
       s_prime     |-> s (+) (b (.) e),
       delta_prime |-> Sum(<<eta, delta (.) e, st.alpha (.) pow(e, 2)>>)]

prove(G, H, g, h, a, b, alpha, y, random) ==
  LET first == [G |-> G, H |-> H, a |-> a, b |-> b, alpha |-> alpha, L |-> << >>, R |-> << >>]
      round[n \in 1 .. Len(G)] ==
        IF n = Len(G) THEN first
        ELSE LET st == round[2 * n]
                 i  == 2 * Len(st.L)
             IN  prove_round(st, g, h, y, random[i + 1], random[i + 2])
      end == round[1]
      i   == 2 * Len(end.L)
  IN  prove_end(end, g, h, y, random[i + 1], random[i + 2], random[i + 3], random[i + 4])

----------------------------------------------------------------------------
\* verify repeats the halving of the generators, and folds L and R into P.
verify(prf, g_vec, hi_tag, g, h, P, y) ==
  LET round[k \in 0 .. Len(prf.L)] ==
        IF k = 0 THEN [G |-> g_vec, H |-> hi_tag, P |-> P]
        ELSE LET st == round[k - 1]
                 x  == Hash(<<prf.L[k], prf.R[k], g, h>>)
             IN  [G |-> HalveG(st.G, x, y),
                  H |-> HalveH(st.H, x),
                  P |-> Sum(<<prf.L[k] (.) pow(x, 2), prf.R[k] (.) pow(inverse(x), 2), st.P>>)]
      end == round[Len(prf.L)]
      e   == Hash(<<prf.a_tag, prf.b_tag, g, h>>)
  IN  Sum(<<end.P (.) pow(e, 2), prf.a_tag (.) e, prf.b_tag>>)
        = Sum(<<end.G[1] (.) e (.) prf.r_prime, end.H[1] (.) e (.) prf.s_prime,
                g (.) prf.r_prime (.) prf.s_prime (.) y, h (.) prf.delta_prime>>)

\* The challenges of a proof, and the exponents that its halvings leave on the
\* generators: those of G carry a power of 1/y, those of H are inverted.
challenges(prf, g, h) == [k \in 1 .. Len(prf.L) |-> Hash(<<prf.L[k], prf.R[k], g, h>>)]
sg(xs, y) == LET s == IPA!Exponents(xs)
             IN  [i \in DOMAIN s |-> s[i] (.) pow(inverse(y), i - 1)]
sh(xs)    == LET s == IPA!Exponents(xs)
             IN  [i \in DOMAIN s |-> inverse(s[i])]

\* fast_verify: one multi-exponentiation instead of the halvings.
fast_verify(prf, g_vec, hi_tag, g, h, P, y) ==
  LET xs == challenges(prf, g, h)
      e  == Hash(<<prf.a_tag, prf.b_tag, g, h>>)
      minus_e_sq_x_sq     == [k \in DOMAIN xs |-> 0 (-) (pow(e, 2) (.) pow(xs[k], 2))]
      minus_e_sq_x_inv_sq == [k \in DOMAIN xs |-> 0 (-) (pow(e, 2) (.) pow(inverse(xs[k]), 2))]
  IN  Sum(<<h (.) prf.delta_prime,
            Dot(g_vec, Times(e (.) prf.r_prime, sg(xs, y))),
            Dot(hi_tag, Times(e (.) prf.s_prime, sh(xs))),
            Dot(prf.L, minus_e_sq_x_sq),
            Dot(prf.R, minus_e_sq_x_inv_sq),
            g (.) prf.r_prime (.) prf.s_prime (.) y>>)
        = Sum(<<P (.) pow(e, 2), prf.a_tag (.) e, prf.b_tag>>)
=============================================================================
