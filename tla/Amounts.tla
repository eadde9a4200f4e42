------------------------------ MODULE Amounts ------------------------------
(***************************************************************************)
(* What the phases of a decryption run compute: dec_phase_one,             *)
(* dec_phase_two and dec_phase_three of dec_phase.rs, and the sums of      *)
(* assemble_aggregated_tx, with the keys that keygen_phase_one and         *)
(* keygen_phase_two make.  Decrypt models when the phases run, and knows a *)
(* key by its name only; disk has the same names here.                     *)
(*                                                                         *)
(* Ciphertexts and shares are in the order of the nodes except where the   *)
(* order matters: dec_phase_three at the node me combines the first shares *)
(* that it has received.  The code encrypts one amount per node, 100; here *)
(* amounts differ, and there may be several.                               *)
(***************************************************************************)
EXTENDS Elgamal, FiniteSets, Functions

CONSTANTS
  share_counts, threshold,
  f,         \* the polynomial of a dealer in a run of key generation
  reg_sk,    \* the regulator's secret key in a run of key generation
  Receivers, \* the nodes considered as me
  Disks,     \* as in Decrypt: keypair.txt and pk_share.txt, by id
  Moneys,    \* what the nodes encrypt: sequences of amounts, by id
  tape       \* the random scalars that a node draws

VARIABLES
  me,              \* the node that combines the shares
  disk, money,
  phase_one_msgs,  \* what a node has broadcast, << >> before
  batch_total_money,  \* the sum of the ciphertexts, << >> before; the same at all
  phase_two_msgs,  \* the shares at me, as they came
  gm_vec,          \* the result of dec_phase_three, << >> before
  panicked,        \* the phases at which a node failed to verify
  changed          \* a part of a message has been changed

amountVars == <<oracle, me, disk, money, phase_one_msgs, batch_total_money, phase_two_msgs,
                gm_vec, panicked, changed>>

Ids == 1 .. share_counts

\* Node numbers are different scalars, none of them zero.  At most one key is
\* partial, as in Decrypt.  All nodes encrypt as many amounts, and draw for each
\* of them; what they encrypt with is not zero.
ASSUME AmountsAssumption ==
  /\ share_counts \in Nat \ {0} /\ share_counts < q
  /\ threshold \in Nat /\ threshold < share_counts
  /\ f \in [{"this", "earlier"} -> [Ids -> [1 .. threshold + 1 -> Scalar]]]
  /\ reg_sk \in [{"this", "earlier"} -> Scalar]
  /\ Receivers \subseteq Ids
  /\ \A d \in Disks :
       /\ d.keypair \in [Ids -> {"this", "earlier", "partial"}]
       /\ d.pk_share \in [Ids -> {"this", "earlier"}]
       /\ \A i, j \in Ids : d.keypair[i] = "partial" /\ d.keypair[j] = "partial" => i = j
  /\ tape \in [Ids -> [r : Seq(Scalar \ {0}), r_reg : Seq(Scalar), sm : Seq(Scalar),
                     sr : Seq(Scalar), sm_eq : Seq(Scalar), sr1 : Seq(Scalar),
                     sr2 : Seq(Scalar), s : Scalar]]
  /\ \A m \in Moneys :
       /\ m \in [Ids -> Seq(Nat)]
       /\ \A i \in Ids :
            /\ Len(m[i]) = Len(m[1]) /\ m[i] # << >>
            /\ \A x \in {"r", "r_reg", "sm", "sr", "sm_eq", "sr1", "sr2"} :
                 Len(m[i]) <= Len(tape[i][x])

AmountInit ==
  /\ oracle \in Oracles
  /\ me \in Receivers
  /\ disk \in Disks
  /\ money \in Moneys
  /\ phase_one_msgs = [i \in Ids |-> << >>]
  /\ batch_total_money = << >>
  /\ phase_two_msgs = << >>
  /\ gm_vec = << >>
  /\ panicked = {}
  /\ changed = FALSE

----------------------------------------------------------------------------
\* VerifiableSS::share: the value of a dealer's polynomial at the number of a
\* node.  Its commitment for that node is the same value, as a point.
Share(run, d, i) == Sum([k \in 1 .. threshold + 1 |-> f[run][d][k] (.) pow(i, k - 1)])

\* The run that a key is of, and the dealers that are summed in it.  A partial
\* key lacks the summand of its owner.
Run(key)        == IF key = "earlier" THEN "earlier" ELSE "this"
Summed(key, i)  == [d \in Ids |-> IF key = "partial" /\ d = i THEN 0 ELSE 1]

\* keypair.txt of node i.
Sk(i) == LET k == disk.keypair[i]
         IN  Dot(Summed(k, i), [d \in Ids |-> Share(Run(k), d, i)])
Pk(i) == LET k == disk.keypair[i]
         IN  Dot(Summed(k, i), [d \in Ids |-> Share(Run(k), d, 0)])

\* pk_share.txt of node i, at j.
PkShare(i, j) == Sum([d \in Ids |-> Share(Run(disk.pk_share[i]), d, j)])

\* The regulator's key, the first line of the same file: a run of key generation
\* makes a new one (the regulator's setup_phase_one), of which nobody keeps the
\* secret.
RegPk(i) == generator (.) reg_sk[Run(disk.keypair[i])]

\* The sum of everybody's vectors of ciphertexts.
Aggregate(vecs) == [j \in DOMAIN vecs[1] |-> add([i \in Ids |-> vecs[i][j]])]

----------------------------------------------------------------------------
\* The message that dec_phase_one broadcasts at i: the amounts under both keys,
\* and proofs.  (The range proof is a stub that accepts everything.)
FirstMsg(i) ==
  LET t   == tape[i]
      enc(pk, r) == [j \in DOMAIN money[i] |-> encrypt_with_randomness(pk, money[i][j], r[j])]
      c   == enc(Pk(i), t.r)
      reg == enc(RegPk(i), t.r_reg)
  IN  [mul_cipher_vec  |-> c,
       cipher_vec_reg  |-> reg,
       batch_enc_proof |-> BatchEnc_proof(Pk(i), c, money[i], [j \in DOMAIN c |-> t.r[j]],
                             [j \in DOMAIN c |-> t.sm[j]], [j \in DOMAIN c |-> t.sr[j]]),
       equal_proof_vec |-> [j \in DOMAIN c |->
         EncEqual_proof(Pk(i), RegPk(i), c[j], reg[j], money[i][j], t.r[j], t.r_reg[j],
                        t.sm_eq[j], t.sr1[j], t.sr2[j])]]

\* dec_phase_one at i.
DecPhaseOne(i) ==
  /\ phase_one_msgs[i] = << >>
  /\ phase_one_msgs' = [phase_one_msgs EXCEPT ![i] = FirstMsg(i)]
  /\ UNCHANGED <<oracle, me, disk, money, batch_total_money, phase_two_msgs, gm_vec,
                 panicked, changed>>

PhaseOneDone == \A i \in Ids : phase_one_msgs[i] # << >>

CipherVecs    == [i \in Ids |-> phase_one_msgs[i].mul_cipher_vec]
CipherVecsReg == [i \in Ids |-> phase_one_msgs[i].cipher_vec_reg]
EncProofs     == [i \in Ids |-> phase_one_msgs[i].batch_enc_proof]

c1_vec == C1(batch_total_money)

Shared == {phase_two_msgs[k].sender : k \in DOMAIN phase_two_msgs}

\* The message with the share of i of the sum of the ciphertexts.
ShareMsg(i, total) ==
  LET c1     == C1(total)
      sk     == Sk(i)
      dec_c1 == Times(sk, c1)
  IN  [sender       |-> i,
       batch_dec_c1 |-> dec_c1,
       dec_proof    |-> BatchDec_proof(generator (.) sk, c1, dec_c1, sk, tape[i].s)]

\* dec_phase_two at i, and the arrival of its share at me.
DecPhaseTwo(i) ==
  /\ PhaseOneDone
  /\ ~changed
  /\ i \notin Shared
  /\ <<i, 2>> \notin panicked
  /\ IF BatchEnc_batch_verify(EncProofs, Pk(i), CipherVecs)
       THEN /\ batch_total_money' = Aggregate(CipherVecs)
            /\ phase_two_msgs' = Append(phase_two_msgs, ShareMsg(i, Aggregate(CipherVecs)))
            /\ UNCHANGED panicked
       ELSE /\ panicked' = panicked \cup {<<i, 2>>}
            /\ UNCHANGED <<batch_total_money, phase_two_msgs>>
  /\ UNCHANGED <<oracle, me, disk, money, phase_one_msgs, gm_vec, changed>>

DecProofs == [k \in DOMAIN phase_two_msgs |-> phase_two_msgs[k].dec_proof]
DecC1Vecs == [k \in DOMAIN phase_two_msgs |-> phase_two_msgs[k].batch_dec_c1]

\* Wrong variant of PkShares, which the properties must detect: public key shares
\* in the order of the nodes, as in the file.
PkSharesOfFile == [k \in DOMAIN phase_two_msgs |-> PkShare(me, k)]

\* The lines of pk_share.txt for the senders of the shares, as these came.
PkShares == [k \in DOMAIN phase_two_msgs |-> PkShare(me, phase_two_msgs[k].sender)]

\* The amounts that the shares of msgs open, as points.
Opened(msgs) ==
  LET senders == [k \in DOMAIN msgs |-> msgs[k].sender]
      c1(j)   == Sum([k \in DOMAIN msgs |->
                   msgs[k].batch_dec_c1[j] (.) map_share_to_new_params(senders[k], senders)])
  IN  [j \in DOMAIN c1_vec |-> batch_total_money[j].c2 (-) c1(j)]

\* dec_phase_three at me, on all shares.
DecPhaseThree ==
  /\ Len(phase_two_msgs) = share_counts
  /\ ~changed
  /\ gm_vec = << >>
  /\ <<me, 3>> \notin panicked
  /\ IF BatchDec_batch_verify(DecProofs, PkShares, c1_vec, DecC1Vecs)
       THEN /\ gm_vec' = Opened(SubSeq(phase_two_msgs, 1, threshold + 1))
            /\ UNCHANGED panicked
       ELSE /\ panicked' = panicked \cup {<<me, 3>>}
            /\ UNCHANGED gm_vec
  /\ UNCHANGED <<oracle, me, disk, money, phase_one_msgs, batch_total_money, phase_two_msgs,
                 changed>>

\* A part of a message is changed on its way, and goes to the verifiers only: a
\* ciphertext or a part of its proof before the second phase, the last share (any
\* node's can be) or a part of its proof before the third.
TamperOne ==
  /\ PhaseOneDone /\ phase_two_msgs = << >> /\ panicked = {}
  /\ \E i \in Ids :
       \/ \E x \in {"total_zm", "total_zr"} :
            phase_one_msgs' = [phase_one_msgs EXCEPT ![i].batch_enc_proof[x] = @ (+) 1]
       \/ \E x \in {"c1_vec", "c2_vec"}, j \in DOMAIN money[i] :
            phase_one_msgs' = [phase_one_msgs EXCEPT ![i].batch_enc_proof[x][j] = @ (+) 1]
       \/ \E x \in {"c1", "c2"}, j \in DOMAIN money[i] :
            phase_one_msgs' = [phase_one_msgs EXCEPT ![i].mul_cipher_vec[j][x] = @ (+) 1]
  /\ UNCHANGED phase_two_msgs

TamperTwo ==
  /\ Len(phase_two_msgs) = share_counts /\ gm_vec = << >> /\ panicked = {}
  /\ \/ \E x \in {"t1", "zm"} :
          phase_two_msgs' = [phase_two_msgs EXCEPT ![share_counts].dec_proof[x] = @ (+) 1]
     \/ \E j \in DOMAIN money[1] :
          \/ phase_two_msgs' = [phase_two_msgs EXCEPT ![share_counts].dec_proof.t2_vec[j] = @ (+) 1]
          \/ phase_two_msgs' = [phase_two_msgs EXCEPT ![share_counts].batch_dec_c1[j] = @ (+) 1]
  /\ UNCHANGED phase_one_msgs

TamperMsg ==
  /\ ~changed /\ changed' = TRUE
  /\ TamperOne \/ TamperTwo
  /\ UNCHANGED <<oracle, me, disk, money, batch_total_money, gm_vec, panicked>>

AmountNext ==
  \/ \E i \in Ids : DecPhaseOne(i) \/ DecPhaseTwo(i)
  \/ DecPhaseThree
  \/ TamperMsg

AmountSpec == AmountInit /\ [][AmountNext]_amountVars

----------------------------------------------------------------------------
\* The sums of the amounts, as points.
Total == [j \in DOMAIN money[1] |-> base_point2 (.) Sum([i \in Ids |-> money[i][j]])]

\* Every keypair.txt is of the same run, and none is partial.
OneKey == \E key \in {"this", "earlier"} : \A i \in Ids : disk.keypair[i] = key

\* With one key, any threshold + 1 shares open the sum of the amounts, also from
\* what assemble_aggregated_tx records, and dec_phase_three does so with the
\* first ones, in whatever order shares come.  If all keys are of one run, with
\* a partial one among them or not, the secret that the regulator had in that
\* run would open the same sum from the regulator's aggregate.
QuorumOpensTotal ==
  PhaseOneDone /\ ~changed =>
    /\ \A run \in {"this", "earlier"} :
         (\A i \in Ids : Run(disk.keypair[i]) = run) =>
           [j \in DOMAIN Total |-> decrypt(Aggregate(CipherVecsReg)[j], reg_sk[run])] = Total
    /\ OneKey => /\ gm_vec # << >> => gm_vec = Total
                 /\ Len(phase_two_msgs) = share_counts =>
                      \A pos \in Injection(1 .. threshold + 1, DOMAIN phase_two_msgs) :
                        Opened([k \in 1 .. threshold + 1 |-> phase_two_msgs[pos[k]]]) = Total

\* The nodes whose key is not that of i.
OtherKeys(i) == {m \in Ids : disk.keypair[m] # disk.keypair[i]}

\* What the challenges of m and of i to the ciphertexts of m differ by.
ChallengesOff(m, i) ==
  LET prf == EncProofs[m]
      e(pk) == EncChallenges(pk, CipherVecs[m], prf.c1_vec, prf.c2_vec)
  IN  [j \in DOMAIN money[m] |-> e(Pk(i))[j] (-) e(Pk(m))[j]]

\* The challenges to a share: to its proof as me checks it, and as it was made.
ChallengeAt(k, pk_share) ==
  BatchDecChallenge(pk_share, DecProofs[k].t1, DecProofs[k].t2_vec, c1_vec, DecC1Vecs[k])

\* Keys show, as Decrypt has it that they are compared.  Nobody fails to verify
\* what is under its own key, in whatever order shares come.  Another key makes
\* other challenges: ciphertexts under several keys pass only if the differences
\* cancel out, which with a single amount under another key needs a collision
\* of the hash.  Shares of other keys than those of pk_share.txt pass exactly
\* if the challenges are a root of the two equations that are left.
WrongKeysShow ==
  ~changed /\ PhaseOneDone =>
    /\ \A i \in Ids : <<i, 2>> \in panicked => OtherKeys(i) # {}
    /\ phase_two_msgs # << >> =>
         LET i   == phase_two_msgs[Len(phase_two_msgs)].sender
             off == [m \in Ids |-> IF m \in OtherKeys(i) THEN ChallengesOff(m, i)
                                  ELSE [j \in DOMAIN money[m] |-> 0]]
         IN  /\ Sum([m \in Ids |-> Dot(tape[m].r, off[m])]) = 0
             /\ Len(money[i]) = 1 /\ Cardinality(OtherKeys(i)) = 1 => \A m \in Ids : off[m] = <<0>>
    /\ OneKey /\ disk.pk_share[me] = disk.keypair[me] => <<me, 3>> \notin panicked
    /\ gm_vec # << >> \/ <<me, 3>> \in panicked =>
         LET sk(k)   == Sk(phase_two_msgs[k].sender)
             here(k) == ChallengeAt(k, PkShares[k])
             made(k) == ChallengeAt(k, generator (.) sk(k))
             left1   == [k \in Ids |-> (here(k) (.) PkShares[k]) (-) (made(k) (.) sk(k))]
             left2   == [k \in Ids |-> (here(k) (-) made(k)) (.) sk(k)]
         IN  gm_vec # << >> <=> Sum(left1) = 0 /\ Sum(left2) (.) Sum(c1_vec) = 0

\* The verdict on a batch, from those on its parts.
FollowsFrom(batch, single) ==
  LET failing == {x \in DOMAIN single : ~single[x]}
  IN  /\ failing = {} => batch
      /\ Cardinality(failing) = 1 => ~batch

\* What i proves under its own keys, in a batch or singly, is accepted.
OwnProofsPass(i) ==
  LET msg == phase_one_msgs[i]
      t   == tape[i]
      P   == generator (.) Sk(i)
  IN  /\ BatchEnc_verify(msg.batch_enc_proof, Pk(i), msg.mul_cipher_vec)
      /\ \A j \in DOMAIN money[i] :
           LET c == msg.mul_cipher_vec[j]
               d == c.c1 (.) Sk(i)
           IN  /\ EncEqual_verify(msg.equal_proof_vec[j], Pk(i), RegPk(i), c, msg.cipher_vec_reg[j])
               /\ EncRight_verify(EncRight_proof(Pk(i), c, money[i][j], t.r[j], t.sm[j], t.sr[j]),
                                  Pk(i), c)
               /\ DecRight_verify(DecRight_proof(P, c.c1, d, Sk(i), t.s), P, c.c1, d)

\* A batch of proofs is judged as they are one by one: it passes if all of them
\* do, and not if just one fails, whatever was changed and whoever's key it is
\* checked with.  Unchanged proofs pass under the keys that they were made with.
BatchAgrees ==
  /\ PhaseOneDone /\ phase_two_msgs = << >> =>
       FollowsFrom(BatchEnc_batch_verify(EncProofs, Pk(me), CipherVecs),
                   [i \in Ids |-> BatchEnc_verify(EncProofs[i], Pk(me), CipherVecs[i])])
  /\ Len(phase_two_msgs) = share_counts =>
       FollowsFrom(BatchDec_batch_verify(DecProofs, PkShares, c1_vec, DecC1Vecs),
                   [k \in DOMAIN phase_two_msgs |->
                      BatchDec_verify(DecProofs[k], PkShares[k], c1_vec, DecC1Vecs[k])])
  /\ ~changed /\ PhaseOneDone /\ phase_two_msgs = << >> => \A i \in Ids : OwnProofsPass(i)
============================================================================
