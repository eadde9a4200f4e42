----------------------------- MODULE RangeProofs -----------------------------
(***************************************************************************)
(* A prover commits to secrets and proves twice, with RangeProof and with  *)
(* RangeProofWIP, that they fit in bit_length bits.  The proofs reach the  *)
(* verifiers as they were made, or with one of their parts changed.        *)
(*                                                                         *)
(* The secrets are whatever the caller passes: nothing in prove checks     *)
(* that they are in range.                                                 *)
(***************************************************************************)
EXTENDS RangeProofWIP

CONSTANTS
  Tapes,    \* the tapes of random scalars the prover draws its nonces from
  Jobs      \* what is proved: [bit_length, secret, blinding]

VARIABLES
  job,      \* what the prover is asked to prove
  rp, wip,  \* the two proofs, << >> before
  ped_com,  \* the commitments the verifiers have
  tampered  \* a part has been changed

vars == <<oracle, job, rp, wip, ped_com, tampered>>

n == job.bit_length
m == Len(job.secret)

\* The generators: point_commitments of the node, bases of the statement.
pp == generate_bases(1, m, n)

Init ==
  /\ oracle \in Oracles
  /\ job \in Jobs
  /\ rp = << >>
  /\ wip = << >>
  /\ ped_com = << >>
  /\ tampered = FALSE

Prove(tape) ==
  /\ rp = << >>
  /\ rp' = RP!prove(pp, job.secret, job.blinding, tape)
  /\ wip' = prove(pp, job.secret, job.blinding, tape)
  /\ ped_com' = [j \in 1 .. m |-> (pp.G (.) job.secret[j]) (+) (pp.H (.) job.blinding[j])]
  /\ UNCHANGED <<oracle, job, tampered>>

\* A part is changed: a component of either proof, an L or R of either inner
\* product argument, or a commitment.
Tamper ==
  /\ rp # << >>
  /\ ~tampered
  /\ tampered' = TRUE
  /\ UNCHANGED <<oracle, job>>
  /\ \/ /\ \E f \in {"A", "S", "T1", "T2", "tau_x", "miu", "tx"} :
             rp' = [rp EXCEPT ![f] = @ (+) 1]
        /\ UNCHANGED <<wip, ped_com>>
     \/ /\ \E f \in {"a_tag", "b_tag"} :
             rp' = [rp EXCEPT !.inner_product_proof[f] = @ (+) 1]
        /\ UNCHANGED <<wip, ped_com>>
     \/ /\ \E f \in {"L", "R"} : \E k \in DOMAIN rp.inner_product_proof.L :
             rp' = [rp EXCEPT !.inner_product_proof[f][k] = @ (+) 1]
        /\ UNCHANGED <<wip, ped_com>>
     \/ /\ wip' = [wip EXCEPT !.A = @ (+) 1]
        /\ UNCHANGED <<rp, ped_com>>
     \/ /\ \E f \in {"a_tag", "b_tag", "r_prime", "s_prime", "delta_prime"} :
             wip' = [wip EXCEPT !.weighted_inner_product_proof[f] = @ (+) 1]
        /\ UNCHANGED <<rp, ped_com>>
     \/ /\ \E f \in {"L", "R"} : \E k \in DOMAIN wip.weighted_inner_product_proof.L :
             wip' = [wip EXCEPT !.weighted_inner_product_proof[f][k] = @ (+) 1]
        /\ UNCHANGED <<rp, ped_com>>
     \/ /\ \E j \in 1 .. m : ped_com' = [ped_com EXCEPT ![j] = @ (+) 1]
        /\ UNCHANGED <<rp, wip>>

Next == Tamper \/ \E tape \in Tapes : Prove(tape)

Spec == Init /\ [][Next]_vars

----------------------------------------------------------------------------
\* The verdicts of every verifier.
RPAccepts  == RP!verify(rp, pp, ped_com)
WIPAccepts == verify(wip, pp, ped_com)

\* The argument of wip checked by halving, which verify of
\* WeightedInnerProdArg does; the range proofs call its fast_verify.
WIPHalving == WIP!verify(wip.weighted_inner_product_proof, pp.g_vec, pp.h_vec, pp.G, pp.H,
                         A_hat(wip, pp, ped_com), y_of(wip.A))

InRange == \A j \in 1 .. m : job.secret[j] < 2 ^ n

\* A proof about secrets that are in range is accepted by every verifier,
\* whatever the secrets, the nonces and the challenges are.
InRangeAccepted ==
  rp # << >> /\ ~tampered /\ InRange =>
    /\ RPAccepts
    /\ RP!fast_verify(rp, pp, ped_com)
    /\ RP!aggregated_verify(rp, pp, ped_com)
    /\ WIPAccepts
    /\ WIPHalving
    /\ aggregated_verify(wip, pp, ped_com)

\* The n bits that the prover has committed to for each secret: those of the
\* secret, or of what ran over from the one before.
Window(j) == (RP!secret_agg(job.secret, n) \div 2 ^ ((j - 1) * n)) % 2 ^ n
Off(j)    == job.secret[j] (-) (Window(j) % q)

\* A secret that is out of range shows: its window differs from what is
\* committed to, and the proof is accepted only if the challenge z is a root of
\* the polynomial that has these differences as its coefficients.  With a
\* single secret there is no such root.
OutOfRangeRejected ==
  rp # << >> /\ ~tampered /\ ~InRange =>
    /\ \E j \in 1 .. m : Off(j) # 0
    /\ RPAccepts <=> Sum([j \in 1 .. m |-> Off(j) (.) pow(RP!z_of(rp), j - 1)]) = 0
    /\ WIPAccepts <=> Sum([j \in 1 .. m |-> Off(j) (.) pow(z_of(wip.A), 2 * (j - 1))]) = 0
    /\ m = 1 => ~RPAccepts /\ ~WIPAccepts

\* The verifiers of a proof are of one mind, whatever was changed.
\* aggregated_verify of RangeProof adds up the two equations of verify: it
\* accepts when both hold, and rejects when just one does.  Those of a weighted
\* inner product range proof decide alike.
VerifiersAgree ==
  rp # << >> =>
    LET ipa == RP!IPA!verify(rp.inner_product_proof, pp.g_vec, RP!hi_tag(rp, pp, m),
                             RP!Gx_of(rp, pp), RP!P_of(rp, pp, m))
        eq  == RP!eq65(rp, pp, ped_com)
        agg == RP!aggregated_verify(rp, pp, ped_com)
    IN  /\ RP!fast_verify(rp, pp, ped_com) <=> RPAccepts
        /\ ipa /\ eq => agg
        /\ ipa # eq => ~agg
        /\ WIPHalving <=> WIPAccepts
        /\ aggregated_verify(wip, pp, ped_com) <=> WIPAccepts
=============================================================================
