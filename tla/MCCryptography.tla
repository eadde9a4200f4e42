--------------------------- MODULE MCCryptography ---------------------------
(***************************************************************************)
(* Small instances, for TLC, of the modules over Field: the range proofs,  *)
(* and the keys, ciphertexts and shares of a decryption.  The two schemes  *)
(* do not meet, so each behaviour uses the one it begins with.             *)
(***************************************************************************)
EXTENDS RangeProofs, Amounts, TLC

\* Generators and nonces: scalars that differ, none of them zero.
MCHashToCurve == [l \in 0 .. 12 |-> 1 + ((l * l * l + 17 * l + 5) % (q - 1))]
MCTape(s)     == [k \in 1 .. 20 |-> 1 + ((s * k * k + 11 * k + s) % (q - 1))]
MCTapes       == {MCTape(s) : s \in {3}}

\* bit_length and number of secrets: one to four bits in all.
Sizes == {<<1, 1>>, <<2, 1>>, <<4, 1>>, <<1, 2>>, <<2, 2>>, <<1, 4>>}

\* The secrets: both ends of the range, the first one out of it, and the
\* largest scalar (only the first three when there are four of them).
SecretOf(bits, count) ==
  LET some == {0, 2 ^ bits - 1, 2 ^ bits}
  IN  [1 .. count -> IF count = 4 THEN some ELSE some \cup {q - 1}]

MCJobs == UNION {{[bit_length |-> s[1], secret |-> v, blinding |-> [j \in 1 .. s[2] |-> 5 + 20 * j]] :
                    v \in SecretOf(s[1], s[2])} : s \in Sizes}

----------------------------------------------------------------------------
Disk(keypair, pk_share) == [keypair |-> keypair, pk_share |-> pk_share]
Everywhere(key) == [i \in Ids |-> key]

\* A complete run of key generation; one stopped before the last node has
\* written its files, or its pk_share.txt; one that left the key of the first
\* node partial; and one of which only the second node has written its key.
MCDisks ==
  {Disk(Everywhere("this"), Everywhere("this")),
   Disk([Everywhere("this") EXCEPT ![share_counts] = "earlier"],
        [Everywhere("this") EXCEPT ![share_counts] = "earlier"]),
   Disk(Everywhere("this"), [Everywhere("this") EXCEPT ![share_counts] = "earlier"]),
   Disk([Everywhere("this") EXCEPT ![1] = "partial"], [Everywhere("this") EXCEPT ![1] = "earlier"]),
   Disk([i \in Ids |-> IF i = 2 THEN "this" ELSE "earlier"], Everywhere("earlier"))}

MCReg == [this |-> 33, earlier |-> 71]

MCReceivers == {1, share_counts}

\* One amount per node, and two.
MCMoneys == {[i \in Ids |-> <<7 * i>>], [i \in Ids |-> <<7 * i, 90 - i * i>>]}

MCf == [run \in {"this", "earlier"} |->
          [d \in Ids |-> [k \in 1 .. threshold + 1 |->
             1 + ((13 * k * k + 29 * d * k + 7 * d + (IF run = "this" THEN 3 ELSE 40)) % (q - 1))]]]

Draw(i, s) == [j \in 1 .. 2 |-> 1 + ((i * i * s + 31 * i + 17 * s * j + 5 * j) % (q - 1))]
MCDraws == [i \in Ids |->
  [r |-> Draw(i, 1), r_reg |-> Draw(i, 2), sm |-> Draw(i, 3), sr |-> Draw(i, 4), sm_eq |-> Draw(i, 5),
   sr1 |-> Draw(i, 6), sr2 |-> Draw(i, 7), s |-> Draw(i, 8)[1]]]

----------------------------------------------------------------------------
\* A behaviour of the range proofs has no node that combines shares.
NoAmounts ==
  /\ me = 0 /\ disk = << >> /\ money = << >>
  /\ phase_one_msgs = [i \in Ids |-> << >>]
  /\ batch_total_money = << >> /\ phase_two_msgs = << >> /\ gm_vec = << >> /\ panicked = {} /\ changed = FALSE

NoProofs ==
  /\ job = << >> /\ rp = << >> /\ wip = << >> /\ ped_com = << >> /\ tampered = FALSE

MCInit == \/ Init /\ NoAmounts
          \/ AmountInit /\ NoProofs

Proofs  == me = 0 /\ Next /\ UNCHANGED amountVars
Amounts == me # 0 /\ AmountNext /\ UNCHANGED <<job, rp, wip, ped_com, tampered>>

MCVars == <<vars, me, disk, money, phase_one_msgs, batch_total_money, phase_two_msgs, gm_vec,
            panicked, changed>>

MCSpec == MCInit /\ [][Proofs \/ Amounts]_MCVars
=============================================================================
