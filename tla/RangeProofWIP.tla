---------------------------- MODULE RangeProofWIP ----------------------------
(***************************************************************************)
(* bulletproofs/src/proofs/range_proof_wip.rs: the same statement as that  *)
(* of RangeProof, proved with the weighted inner product argument.         *)
(***************************************************************************)
EXTENDS Field

CONSTANT hash_to_curve  \* the point generated from a label

WIP == INSTANCE WeightedInnerProduct
RP  == INSTANCE RangeProof  \* the same code splits the secrets into bits

\* The statement of m proofs: the labels of h_vec start bit_length after those
\* of g_vec, so that with several secrets the two share points.
generate_bases(init_seed, m, n) ==
  [g_vec |-> [i \in 1 .. n * m |-> hash_to_curve[i - 1 + init_seed]],
   h_vec |-> [i \in 1 .. n * m |-> hash_to_curve[n + i - 1 + init_seed]],
   G |-> RP!generator,
   H |-> hash_to_curve[init_seed - 1],
   bit_length |-> n]

y_of(A) == Hash(<<A>>)
z_of(A) == Hash(<<A, RP!generator (.) y_of(A)>>)

\* z^2 2^k for the bits of the first secret, z^4 2^k for the second, ...
d_of(z, n, nm) == [i \in 1 .. nm |-> pow(2, (i - 1) % n) (.) pow(z, 2 + 2 * ((i - 1) \div n))]

\* The exponents of h_vec: d with the powers of y in falling order, and z.
scalars_h_vec(y, z, n, nm) ==
  [i \in 1 .. nm |-> (d_of(z, n, nm)[i] (.) pow(y, nm + 1 - i)) (+) z]

\* zeta(y, z), the exponent of G that the bits have whatever the secrets are.
zeta(y, z, n, nm) ==
  Sum([i \in 1 .. nm |-> ((z (-) pow(z, 2)) (.) pow(y, i))
                           (-) (d_of(z, n, nm)[i] (.) z (.) pow(y, nm + 1))])

\* The point A_hat that prove computes is handed to the argument, which never
\* reads it: its exponent of G and the order of the secrets there do not matter.
prove(pp, secret, blinding, random) ==
  LET n   == pp.bit_length
      nm  == Len(secret) * n
      aL  == RP!aL_of(secret, n)
      alpha == random[1]
      A   == RP!A_of(pp, aL, alpha)
      y   == y_of(A)
      z   == z_of(A)
      scalar_H == Sum([j \in DOMAIN secret |-> blinding[j] (.) pow(z, 2 * j)]) (.) pow(y, nm + 1)
      aL_hat == [i \in 1 .. nm |-> aL[i] (-) z]
      aR_hat == Plus(RP!aR_of(aL), scalars_h_vec(y, z, n, nm))
  IN  [A |-> A,
       weighted_inner_product_proof |->
         WIP!prove(pp.g_vec, pp.h_vec, pp.G, pp.H, aL_hat, aR_hat, alpha (+) scalar_H, y,
                   SubSeq(random, 2, Len(random)))]

----------------------------------------------------------------------------
\* The point about which the argument is checked.
A_hat(prf, pp, ped_com) ==
  LET n  == pp.bit_length
      nm == Len(ped_com) * n
      y  == y_of(prf.A)
      z  == z_of(prf.A)
  IN  Sum(<<prf.A,
            Sum([j \in DOMAIN ped_com |-> ped_com[j] (.) pow(y, nm + 1) (.) pow(z, 2 * j)]),
            Dot(pp.g_vec, [i \in 1 .. nm |-> 0 (-) z]),
            Dot(pp.h_vec, scalars_h_vec(y, z, n, nm)),
            pp.G (.) zeta(y, z, n, nm)>>)

verify(prf, pp, ped_com) ==
  WIP!fast_verify(prf.weighted_inner_product_proof, pp.g_vec, pp.h_vec, pp.G, pp.H,
                  A_hat(prf, pp, ped_com), y_of(prf.A))

\* One multi-exponentiation, in which the challenges, s, sg and sh of
\* fast_verify are repeated.
aggregated_verify(prf, pp, ped_com) ==
  LET n    == pp.bit_length
      m    == Len(ped_com)
      nm   == n * m
      wip  == prf.weighted_inner_product_proof
      y    == y_of(prf.A)
      z    == z_of(prf.A)
      e    == Hash(<<wip.a_tag, wip.b_tag, pp.G, pp.H>>)
      e_sq == pow(e, 2)
      xs   == WIP!challenges(wip, pp.G, pp.H)
      sg   == WIP!sg(xs, y)
      sh   == WIP!sh(xs)
      scalar_g == (wip.r_prime (.) wip.s_prime (.) y) (-) (zeta(y, z, n, nm) (.) e_sq)
      scalar_g_vec == [i \in 1 .. nm |-> (wip.r_prime (.) e (.) sg[i]) (+) (z (.) e_sq)]
      scalar_h_vec == [i \in 1 .. nm |->
        (wip.s_prime (.) e (.) sh[i]) (-) (scalars_h_vec(y, z, n, nm)[i] (.) e_sq)]
  IN  wip.b_tag = Sum(<<pp.H (.) wip.delta_prime,
                        Dot(pp.g_vec, scalar_g_vec),
                        Dot(pp.h_vec, scalar_h_vec),
                        pp.G (.) scalar_g,
                        Dot(wip.L, [k \in DOMAIN xs |-> 0 (-) (e_sq (.) pow(xs[k], 2))]),
                        Dot(wip.R, [k \in DOMAIN xs |-> 0 (-) (e_sq (.) pow(inverse(xs[k]), 2))]),
                        prf.A (.) (0 (-) e_sq),
                        Dot(ped_com, [j \in 1 .. m |-> pow(z, 2 * j) (.) (0 (-) e_sq)
                                                         (.) pow(y, nm + 1)]),
                        wip.a_tag (.) (0 (-) e)>>)
=============================================================================
