----------------------------- MODULE RangeProof -----------------------------
(***************************************************************************)
(* bulletproofs/src/proofs/range_proof.rs: a proof that the secrets in m   *)
(* Pedersen commitments lie in 0 .. 2^n - 1, aggregated over the secrets.  *)
(* The comparison scheme (bulletproofs.rs of its node) proves with it that *)
(* a share is short, and checks the proofs with aggregated_verify.         *)
(*                                                                         *)
(* pp holds what both sides take as arguments: g_vec, h_vec, G, H and      *)
(* bit_length.  random is the tape from which prove draws its nonces.      *)
(***************************************************************************)
EXTENDS Field

IPA == INSTANCE InnerProduct

generator == 1

\* The secrets side by side in one integer, the first one lowest: a secret
\* that does not fit in bit_length bits runs into the next one.
secret_agg(secret, n) ==
  LET agg[j \in 0 .. Len(secret)] ==
        IF j = 0 THEN 0 ELSE agg[j - 1] * 2 ^ n + secret[Len(secret) + 1 - j]
  IN  agg[Len(secret)]

\* Its bits, the lowest first.
aL_of(secret, n) == [i \in 1 .. Len(secret) * n |-> (secret_agg(secret, n) \div 2 ^ (i - 1)) % 2]
aR_of(aL)        == [i \in DOMAIN aL |-> aL[i] (-) 1]

\* The commitment to the bits.
A_of(pp, aL, alpha) ==
  (pp.H (.) alpha) (+) Sum([i \in DOMAIN aL |-> IF aL[i] = 1 THEN pp.g_vec[i]
                                                ELSE 0 (-) pp.h_vec[i]])

\* The challenges y and z; z hashes y only through the point y G.
y_of(prf) == Hash(<<prf.A, prf.S>>)
z_of(prf) == Hash(<<generator (.) y_of(prf)>>)
x_of(prf, pp) == Hash(<<prf.T1, prf.T2, pp.G, pp.H>>)

yi_of(y, nm) == [i \in 1 .. nm |-> pow(y, i - 1)]

\* The coefficient of bit i: z^2 2^k for the bit 2^k of the first secret, z^3
\* 2^k for the second, and so on.
d_of(z, n, nm) == [i \in 1 .. nm |-> pow(z, 2 + (i - 1) \div n) (.) pow(2, (i - 1) % n)]

hi_tag_of(pp, yi) == [i \in DOMAIN yi |-> pp.h_vec[i] (.) inverse(yi[i])]

\* The generator of the inner product argument.
Gx_of(prf, pp) == pp.G (.) Hash(<<prf.tau_x, prf.miu, prf.tx>>)

prove(pp, secret, blinding, random) ==
  LET n   == pp.bit_length
      nm  == Len(secret) * n
      aL  == aL_of(secret, n)
      aR  == aR_of(aL)
      SR  == SubSeq(random, 3, 2 + nm)
      SL  == SubSeq(random, 3 + nm, 2 + 2 * nm)
      tau1 == random[3 + 2 * nm]
      tau2 == random[4 + 2 * nm]
      AS  == [A |-> A_of(pp, aL, random[1]),
              S |-> Sum(<<pp.H (.) random[2], Dot(pp.g_vec, SL), Dot(pp.h_vec, SR)>>)]
      y   == y_of(AS)
      z   == z_of(AS)
      yi  == yi_of(y, nm)
      d   == d_of(z, n, nm)
      t1  == Sum([i \in 1 .. nm |->
               Sum(<<SL[i] (.) yi[i] (.) (aR[i] (+) z), (aL[i] (-) z) (.) SR[i] (.) yi[i],
                     d[i] (.) SL[i]>>)])
      t2  == Sum([i \in 1 .. nm |-> SR[i] (.) yi[i] (.) SL[i]])
      T   == [T1 |-> (pp.G (.) t1) (+) (pp.H (.) tau1),
              T2 |-> (pp.G (.) t2) (+) (pp.H (.) tau2)]
      x   == x_of(T, pp)
      Lp  == [i \in 1 .. nm |-> (SL[i] (.) x) (+) (aL[i] (-) z)]
      Rp  == [i \in 1 .. nm |-> (yi[i] (.) Sum(<<z, aR[i], SR[i] (.) x>>)) (+) d[i]]
      sc  == [tau_x |-> Sum(<<x (.) tau1, pow(x, 2) (.) tau2,
                              Sum([j \in DOMAIN secret |-> pow(z, 1 + j) (.) blinding[j]])>>),
              miu   |-> (random[2] (.) x) (+) random[1],
              tx    |-> Dot(Lp, Rp)]
  IN  [A |-> AS.A, S |-> AS.S, T1 |-> T.T1, T2 |-> T.T2,
       tau_x |-> sc.tau_x, miu |-> sc.miu, tx |-> sc.tx,
       inner_product_proof |-> IPA!prove(pp.g_vec, hi_tag_of(pp, yi), Gx_of(sc, pp), Lp, Rp)]

----------------------------------------------------------------------------
\* delta(y, z), as verify and fast_verify compute it.
delta_of(y, z, n, m) ==
  ((z (-) pow(z, 2)) (.) Sum(yi_of(y, n * m)))
    (-) Sum([j \in 1 .. m |-> pow(z, 2 + j) (.) Sum([k \in 1 .. n |-> pow(2, k - 1)])])

\* Wrong variants of eq65 and aggregated_delta, which the properties must
\* detect: not checked at all, and without the last factor z.
eq65Unchecked(prf, pp, ped_com) == TRUE
aggregated_deltaZ2(y, z, n, m) ==
  ((z (-) pow(z, 2)) (.) Sum(yi_of(y, n * m))) (-) Sum(d_of(z, n, n * m))

\* Equation 65 of the paper: tx is what the commitments say.
eq65(prf, pp, ped_com) ==
  LET z == z_of(prf)
      x == x_of(prf, pp)
  IN  (pp.G (.) prf.tx) (+) (pp.H (.) prf.tau_x)
        = Sum(<<Sum([j \in DOMAIN ped_com |-> ped_com[j] (.) pow(z, 1 + j)]),
                pp.G (.) delta_of(y_of(prf), z, pp.bit_length, Len(ped_com)),
                prf.T1 (.) x, prf.T2 (.) pow(x, 2)>>)

\* The point P about which the inner product argument is checked.
P_of(prf, pp, m) ==
  LET z  == z_of(prf)
      nm == m * pp.bit_length
      yi == yi_of(y_of(prf), nm)
      d  == d_of(z, pp.bit_length, nm)
  IN  Sum(<<pp.H (.) (0 (-) prf.miu), Gx_of(prf, pp) (.) prf.tx, prf.A, prf.S (.) x_of(prf, pp),
            Dot(hi_tag_of(pp, yi), [i \in 1 .. nm |-> (z (.) yi[i]) (+) d[i]]),
            Dot(pp.g_vec, [i \in 1 .. nm |-> 0 (-) z])>>)

hi_tag(prf, pp, m) == hi_tag_of(pp, yi_of(y_of(prf), m * pp.bit_length))

verify(prf, pp, ped_com) ==
  LET m == Len(ped_com)
  IN  /\ IPA!verify(prf.inner_product_proof, pp.g_vec, hi_tag(prf, pp, m), Gx_of(prf, pp),
                    P_of(prf, pp, m))
      /\ eq65(prf, pp, ped_com)

fast_verify(prf, pp, ped_com) ==
  LET m == Len(ped_com)
  IN  /\ IPA!fast_verify(prf.inner_product_proof, pp.g_vec, hi_tag(prf, pp, m), Gx_of(prf, pp),
                         P_of(prf, pp, m))
      /\ eq65(prf, pp, ped_com)

\* delta(y, z), as aggregated_verify computes it.
aggregated_delta(y, z, n, m) ==
  ((z (-) pow(z, 2)) (.) Sum(yi_of(y, n * m))) (-) (Sum(d_of(z, n, n * m)) (.) z)

\* aggregated_verify: one multi-exponentiation for both equations, the second
\* one weighted with a challenge of its own.
aggregated_verify(prf, pp, ped_com) ==
  LET n   == pp.bit_length
      m   == Len(ped_com)
      ipp == prf.inner_product_proof
      y   == y_of(prf)
      z   == z_of(prf)
      x   == x_of(prf, pp)
      d   == d_of(z, n, n * m)
      x_u == Hash(<<prf.tau_x, prf.miu, prf.tx>>)
      challenge_ver == Hash(<<prf.A, prf.S, prf.T1, prf.T2, pp.G, pp.H>>)
      xs  == [k \in 1 .. Len(ipp.L) |-> Hash(<<ipp.L[k], ipp.R[k], pp.G (.) x_u>>)]
      s   == IPA!Exponents(xs)
      scalar_g_vec == [i \in DOMAIN s |-> (s[i] (.) ipp.a_tag) (+) z]
      scalar_h_vec == [i \in DOMAIN s |->
        (pow(inverse(y), i - 1) (.) ((inverse(s[i]) (.) ipp.b_tag) (-) d[i])) (-) z]
      scalar_G == (x_u (.) ((ipp.a_tag (.) ipp.b_tag) (-) prf.tx))
                    (+) (challenge_ver (.) (aggregated_delta(y, z, n, m) (-) prf.tx))
      scalar_H == prf.miu (-) (challenge_ver (.) prf.tau_x)
  IN  prf.A = Sum(<<pp.H (.) scalar_H,
                    Dot(pp.g_vec, scalar_g_vec),
                    Dot(pp.h_vec, scalar_h_vec),
                    pp.G (.) scalar_G,
                    prf.S (.) (0 (-) x),
                    Dot(ipp.L, [k \in DOMAIN xs |-> 0 (-) pow(xs[k], 2)]),
                    Dot(ipp.R, [k \in DOMAIN xs |-> 0 (-) pow(inverse(xs[k]), 2)]),
                    Dot(ped_com, [j \in 1 .. m |-> challenge_ver (.) pow(z, 1 + j)]),
                    prf.T1 (.) challenge_ver (.) x,
                    prf.T2 (.) challenge_ver (.) pow(x, 2)>>)
=============================================================================
