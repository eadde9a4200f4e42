----------------------------- MODULE MCRecords -----------------------------
(***************************************************************************)
(* Small instances, for TLC, of the libraries that bring records into the  *)
(* form in which they go to a ledger: the checkpoint buffer, the off-chain *)
(* shares and the transaction.  Nothing calls two of them together yet, so *)
(* each behaviour uses the one it begins with.                             *)
(***************************************************************************)
EXTENDS Records, Wire, TLC

----------------------------------------------------------------------------
\* A hash: byte i depends on every 32nd byte of the string and on its length.
Keccak(s) ==
  LET h(i) == LET v[k \in 0 .. (Len(s) + 32 - i) \div 32] ==
                    IF k = 0 THEN Len(s) % 256 ELSE (31 * v[k - 1] + s[i + 32 * (k - 1)]) % 256
              IN  v[(Len(s) + 32 - i) \div 32]
  IN  [i \in 1 .. 32 |-> h(i)]
\* Signatures, and selectors.
Signature(hash) == hash \o Reverse(hash) \o <<1>>
Selector(f) == <<IF f[1] = "record" THEN 13 ELSE 200, 7, IF f[2] = "A" THEN 65 ELSE 66, 99>>

\* A field of w bytes, different for every seed.
Field(seed, w) == [i \in 1 .. w |-> (seed + 3 * i) % 256]

OurMpc(n) ==
  [type |-> "our_mpc",
   tx |-> [meta |-> Field(1, 32), sig |-> Field(2, 64),
           lenders |-> [i \in 1 .. n |->
             [group_c1 |-> Field(10 * i, 33), group_c2 |-> Field(10 * i + 1, 33),
              regulator_c1 |-> Field(10 * i + 2, 33), regulator_c2 |-> Field(10 * i + 4, 33),
              partial_dec_share |-> Field(10 * i + 5, 33)]]]]
Repayment == [type |-> "repayment", tx |-> [payload |-> Field(5, 32), sig |-> Field(7, 64)]]
Aggregated ==
  [type |-> "aggregated",
   tx |-> [meta |-> Field(1, 32), sig |-> Field(2, 64), c1_agg |-> Field(4, 33),
           c2_agg |-> Field(5, 33), reg_c1_agg |-> Field(7, 33), reg_c2_agg |-> Field(8, 33),
           shares_merkle_root |-> Field(10, 32)]]
CheckpointOf(k) ==
  [type |-> "checkpoint",
   tx |-> [meta |-> Field(1, 32), sig |-> Field(2, 64), records_merkle_root |-> Field(4, 32),
           batch_size |-> k]]
Plain(n) == [type |-> "plain", tx |-> [data |-> Field(6, n)]]

Payloads == {OurMpc(n) : n \in 0 .. 2} \cup {Repayment, Aggregated}
              \cup {CheckpointOf(k) : k \in {1, 100, 256, 70000, 16777216}}
              \cup {Plain(n) : n \in {0, 1, 31, 32, 33, 64}}

\* 64-bit integers at both ends of the widths in which they are written.
Wide(high, n) == high \o to_be_bytes(n, 4)
Low(n) == Wide(<<0, 0, 0, 0>>, n)
Integers64 ==
  {Low(n) : n \in {0, 1, 127, 128, 255, 256, 600, 32767, 32768, 65535, 65536, 2147483647}}
    \cup {<<0, 0, 0, 0, 128, 0, 0, 0>>, <<0, 0, 0, 1, 0, 0, 0, 0>>,
          <<127, 255, 255, 255, 255, 255, 255, 255>>}

\* A usual request, and those that differ from it in one respect.
Usual == [kind |-> "A", loan_id |-> Low(42), payload |-> Aggregated, chain_id |-> Field(1, 6),
          group_id |-> Field(2, 6), block_limit |-> Low(957), to |-> Field(3, 42)]
MCRequests ==
  {[Usual EXCEPT !.kind = k, !.payload = p] : k \in {"A", "B"}, p \in Payloads}
    \cup {[Usual EXCEPT !.loan_id = v] : v \in Integers64 \cup {[i \in 1 .. 8 |-> 255]}}
    \cup {[Usual EXCEPT !.block_limit = v] : v \in Integers64}
    \cup {[Usual EXCEPT !.chain_id = Field(1, n)] : n \in {0, 255, 256}}
    \cup {[Usual EXCEPT !.to = << >>, !.payload = p] : p \in {Plain(0), Plain(64), Plain(300)}}

MCnonce       == Field(48, 32)
MCimport_time == <<0, 0, 1, 145, 4, 67, 200, 17>>
MCpub_bytes   == Field(9, 64)
MCCuts        == {0, 1, 31, 32, 33, 64}

----------------------------------------------------------------------------
sharesVars == <<phase_two_msgs, on_chain_tx, entries>>

MCInit ==
  /\ Init
  /\ O!Init
  /\ request \in MCRequests \cup {<< >>}
  /\ tx = << >> /\ wire = << >> /\ fields = << >> /\ record = << >> /\ raw = << >> /\ result = << >>

Checkpoints == request = << >> /\ phase_two_msgs = << >> /\ Next /\ UNCHANGED <<sharesVars, wireVars>>
Shares      == request = << >> /\ records = << >> /\ batches = << >> /\ O!Next
                 /\ UNCHANGED <<vars, wireVars>>
Submissions == request # << >> /\ WireNext /\ UNCHANGED <<vars, sharesVars>>

MCSpec == MCInit /\ [][Checkpoints \/ Shares \/ Submissions]_<<vars, sharesVars, wireVars>>
=============================================================================
