------------------------------ MODULE Elgamal ------------------------------
(***************************************************************************)
(* elgamal/src/elgamal/elgamal.rs: additively homomorphic Elgamal          *)
(* ciphertexts, proofs that they and their decryption shares are well      *)
(* formed, one by one and in batches, and the Lagrange coefficients that   *)
(* combine the shares.                                                     *)
(*                                                                         *)
(* The random scalars that the code draws are arguments: sm, sr and so on. *)
(* A Result is TRUE for Ok(()).                                            *)
(***************************************************************************)
EXTENDS Field

CONSTANT base_point2  \* its discrete logarithm

ASSUME BasePointAssumption == base_point2 \in Scalar \ {0}

generator == 1

encrypt_with_randomness(pk, m, r) ==
  [c1 |-> generator (.) r, c2 |-> (pk (.) r) (+) (base_point2 (.) m)]

decrypt(c, sk) == c.c2 (-) (c.c1 (.) sk)

C1(cip_vec) == [j \in DOMAIN cip_vec |-> cip_vec[j].c1]
C2(cip_vec) == [j \in DOMAIN cip_vec |-> cip_vec[j].c2]

\* The homomorphic sum of ciphertexts: add, repeated.
add(cip_vec) == [c1 |-> Sum(C1(cip_vec)), c2 |-> Sum(C2(cip_vec))]

----------------------------------------------------------------------------
\* EncRightProof: c encrypts under pk something that the prover knows.
EncChallenge(pk, c, t) == Hash(<<pk, c.c1, c.c2, t.c1, t.c2>>)

EncRight_proof(pk, c, m, r, sm, sr) ==
  LET e == EncChallenge(pk, c, encrypt_with_randomness(pk, sm, sr))
  IN  [zm |-> (e (.) m) (+) sm, zr |-> (e (.) r) (+) sr, e |-> e]

\* c with e times d taken away.
Without(c, e, d) == [c1 |-> c.c1 (-) (d.c1 (.) e), c2 |-> c.c2 (-) (d.c2 (.) e)]

EncRight_verify(prf, pk, c) ==
  LET t == Without(encrypt_with_randomness(pk, prf.zm, prf.zr), prf.e, c)
  IN  EncChallenge(pk, c, t) = prf.e

\* EncEqualProof: two ciphertexts, under two keys, of the same amount.
EqualChallenge(pk1, pk2, c, d, t, u) ==
  Hash(<<pk1, pk2, c.c1, c.c2, d.c1, d.c2, t.c1, t.c2, u.c1, u.c2>>)

EncEqual_proof(pk1, pk2, c, d, m, r1, r2, sm, sr1, sr2) ==
  LET e == EqualChallenge(pk1, pk2, c, d, encrypt_with_randomness(pk1, sm, sr1),
                          encrypt_with_randomness(pk2, sm, sr2))
  IN  [zm |-> (e (.) m) (+) sm, zr1 |-> (e (.) r1) (+) sr1, zr2 |-> (e (.) r2) (+) sr2, e |-> e]

EncEqual_verify(prf, pk1, pk2, c, d) ==
  LET t == Without(encrypt_with_randomness(pk1, prf.zm, prf.zr1), prf.e, c)
      u == Without(encrypt_with_randomness(pk2, prf.zm, prf.zr2), prf.e, d)
  IN  EqualChallenge(pk1, pk2, c, d, t, u) = prf.e

----------------------------------------------------------------------------
\* BatchEncRightProof: the commitments are sent instead of the challenges, and
\* the responses to all of them are added up.
EncChallenges(pk, cip_vec, c1_vec, c2_vec) ==
  [j \in DOMAIN cip_vec |-> EncChallenge(pk, cip_vec[j], [c1 |-> c1_vec[j], c2 |-> c2_vec[j]])]

BatchEnc_proof(pk, cip_vec, m_vec, r_vec, sm, sr) ==
  LET t == [j \in DOMAIN cip_vec |-> encrypt_with_randomness(pk, sm[j], sr[j])]
      e == EncChallenges(pk, cip_vec, C1(t), C2(t))
  IN  [c1_vec   |-> C1(t),
       c2_vec   |-> C2(t),
       total_zm |-> Dot(e, m_vec) (+) Sum(sm),
       total_zr |-> Dot(e, r_vec) (+) Sum(sr)]

\* What the verifiers add up on the left of their two equations.
EncLeft(prf, pk, cip_vec) ==
  LET e == EncChallenges(pk, cip_vec, prf.c1_vec, prf.c2_vec)
  IN  [c1 |-> Sum(prf.c1_vec) (+) Dot(e, C1(cip_vec)),
       c2 |-> Sum(prf.c2_vec) (+) Dot(e, C2(cip_vec))]

BatchEnc_verify(prf, pk, cip_vec) ==
  EncLeft(prf, pk, cip_vec) = encrypt_with_randomness(pk, prf.total_zm, prf.total_zr)

\* Wrong variant of BatchEnc_batch_verify, which the properties must detect:
\* the equation of the second components is not checked.
BatchEnc_batch_verify_c1(batch_proof, pk, batch_cip_vec) ==
  Sum([i \in DOMAIN batch_proof |-> EncLeft(batch_proof[i], pk, batch_cip_vec[i]).c1])
    = Sum([i \in DOMAIN batch_proof |-> batch_proof[i].total_zr])

\* batch_verify: the equations of several proofs, added up.
BatchEnc_batch_verify(batch_proof, pk, batch_cip_vec) ==
  LET left == [i \in DOMAIN batch_proof |-> EncLeft(batch_proof[i], pk, batch_cip_vec[i])]
  IN  [c1 |-> Sum(C1(left)), c2 |-> Sum(C2(left))]
        = encrypt_with_randomness(pk, Sum([i \in DOMAIN batch_proof |-> batch_proof[i].total_zm]),
                                      Sum([i \in DOMAIN batch_proof |-> batch_proof[i].total_zr]))

----------------------------------------------------------------------------
\* DecRightProof: dec_c1 is c1 times the secret key of pk_share.
DecChallenge(pk_share, c1, dec_c1, t1, t2) == Hash(<<pk_share, c1, dec_c1, t1, t2>>)

DecRight_proof(pk_share, c1, dec_c1, sk, sm) ==
  LET e == DecChallenge(pk_share, c1, dec_c1, generator (.) sm, c1 (.) sm)
  IN  [zm |-> (e (.) sk) (+) sm, e |-> e]

DecRight_verify(prf, pk_share, c1, dec_c1) ==
  prf.e = DecChallenge(pk_share, c1, dec_c1,
                       (generator (.) prf.zm) (-) (pk_share (.) prf.e),
                       (c1 (.) prf.zm) (-) (dec_c1 (.) prf.e))

\* BatchDecRightProof: one challenge for the shares of a node of all amounts.
BatchDecChallenge(pk_share, t1, t2_vec, c1_vec, dec_c1_vec) ==
  Hash(<<pk_share, t1>> \o t2_vec \o c1_vec \o dec_c1_vec)

BatchDec_proof(pk_share, c1_vec, dec_c1_vec, sk, sm) ==
  LET t1 == generator (.) sm
      t2 == Times(sm, c1_vec)
      e  == BatchDecChallenge(pk_share, t1, t2, c1_vec, dec_c1_vec)
  IN  [t1 |-> t1, t2_vec |-> t2, zm |-> (e (.) sk) (+) sm]

DecLeft(prf, pk_share, c1_vec, dec_c1_vec) ==
  LET e == BatchDecChallenge(pk_share, prf.t1, prf.t2_vec, c1_vec, dec_c1_vec)
  IN  [t1 |-> prf.t1 (+) (pk_share (.) e),
       t2 |-> Sum(prf.t2_vec) (+) Sum(Times(e, dec_c1_vec))]

DecRight(zm, c1_vec) == [t1 |-> generator (.) zm, t2 |-> Sum(Times(zm, c1_vec))]

BatchDec_verify(prf, pk_share, c1_vec, dec_c1_vec) ==
  DecLeft(prf, pk_share, c1_vec, dec_c1_vec) = DecRight(prf.zm, c1_vec)

BatchDec_batch_verify(batch_proof, batch_pk_share, c1_vec, batch_dec_c1_vec) ==
  LET left == [i \in DOMAIN batch_proof |->
                 DecLeft(batch_proof[i], batch_pk_share[i], c1_vec, batch_dec_c1_vec[i])]
  IN  [t1 |-> Sum([i \in DOMAIN left |-> left[i].t1]), t2 |-> Sum([i \in DOMAIN left |-> left[i].t2])]
        = DecRight(Sum([i \in DOMAIN batch_proof |-> batch_proof[i].zm]), c1_vec)

----------------------------------------------------------------------------
\* Wrong variant of map_share_to_new_params, which the properties must detect:
\* the coefficient for the first nodes, whoever the shares are from.
map_share_to_first(index, s) ==
  Product([i \in DOMAIN s |-> IF i # index THEN i ELSE 1])
    (.) inverse(Product([i \in DOMAIN s |-> IF i # index THEN i (-) index ELSE 1]))

\* The Lagrange coefficient at zero of the share of node index, which is one of
\* the nodes s.
map_share_to_new_params(index, s) ==
  Product([i \in DOMAIN s |-> IF s[i] # index THEN s[i] ELSE 1])
    (.) inverse(Product([i \in DOMAIN s |-> IF s[i] # index THEN s[i] (-) index ELSE 1]))
============================================================================
