------------------------------ MODULE Decrypt ------------------------------
(***************************************************************************)
(* The decryption run: decrypt() of regulator.rs and of the node*.rs       *)
(* files, over dec_phase_one, dec_phase_two and dec_phase_three.           *)
(*                                                                         *)
(* Every node encrypts an amount under the group's key and broadcasts it,  *)
(* sums all ciphertexts, broadcasts its decryption share of the sum, and   *)
(* combines the shares.  A vector of messages is the set of its senders,   *)
(* the node's own message included.                                        *)
(*                                                                         *)
(* The keys are those that key generation left on disk.  A key is known by *)
(* the run it is of, and verification of a proof compares those (what it   *)
(* computes is in Amounts, where WrongKeysShow is about this).             *)
(*                                                                         *)
(* RegSetupPhaseFinishFlag and RegDecPhaseStartFlag, which the regulator   *)
(* also broadcasts, change nothing at the nodes and are left out.          *)
(***************************************************************************)
EXTENDS Setup

\* "this" is the last run of key generation and "earlier" one before it (the
\* repository ships the files of one); "partial" is a key of the last run that
\* misses its owner's summand (see WrongKeyLeavesTrace of Dkg).
Keys == {"this", "earlier", "partial"}

Ids == 1 .. share_counts

\* What key generation, stopped at any point, leaves on disk.  At most one
\* key is partial (AtMostOneWrongKey of Dkg), and pk_share.txt is written
\* after a keypair.txt that is complete (PublishedSharesComplete).
LeftOnDisk ==
  {f \in [keypair : [Ids -> Keys], pk_share : [Ids -> Keys \ {"partial"}]] :
     /\ \A i, j \in Ids : f.keypair[i] = "partial" /\ f.keypair[j] = "partial" => i = j
     /\ \A i \in Ids : f.pk_share[i] = "this" => f.keypair[i] = "this"}

CONSTANT Disks  \* the initial disks considered

ASSUME DiskAssumption == Disks \subseteq LeftOnDisk

VARIABLES
  disk,             \* keypair.txt and pk_share.txt, by id
  finish_vec,       \* regulator: senders of the finish flags it has pushed
  dec_phase_one_msg_vec,  \* node: senders of the ciphertexts it has pushed
  dec_phase_two_msg_vec,  \* node: senders of the shares it has pushed
  batch_total_money,      \* node: whose ciphertexts are in the sum, {} for None
  decrypted,        \* node: dec_phase_three ended
  panicked          \* node: the verification that ended a task of it

decVars == <<disk, finish_vec, dec_phase_one_msg_vec, dec_phase_two_msg_vec,
             batch_total_money, decrypted, panicked>>
vars == <<setupVars, decVars>>

Init ==
  /\ SetupInit
  /\ disk \in Disks
  /\ finish_vec = {}
  /\ dec_phase_one_msg_vec = [n \in Node |-> {}]
  /\ dec_phase_two_msg_vec = [n \in Node |-> {}]
  /\ batch_total_money = [n \in Node |-> {}]
  /\ decrypted = [n \in Node |-> FALSE]
  /\ panicked = [n \in Node |-> {}]

----------------------------------------------------------------------------
\* The key that n has read from its file, under its number in this run.
Key(n) == disk.keypair[id[n]]

\* The public key shares that n checks decryption shares against.
PkShares(n) == disk.pk_share[id[n]]

Panic(n, phase) == panicked' = [panicked EXCEPT ![n] = @ \cup {phase}]

\* A message to every other node.
Broadcast(type, n) == {Msg(type, n, q) : q \in Peers(id[n])}

\* RegSetupPhaseBroadcastMsg at n: take the list, tell the regulator.
HandleSetupBroadcast(n) ==
  /\ TakeList(n, {Reg})
  /\ UNCHANGED decVars

\* Wrong variants of operators below, which the properties must detect: a
\* trigger one message early, a trigger that stays on, a phase two and a phase
\* three that do not verify.
IsAllButOne(vec)  == Cardinality(vec) = share_counts - 1
IsAllOrBefore(vec) == Cardinality(vec) >= share_counts - 1
AnyCiphers(n, vec) == TRUE
AnyShares(n, vec)  == TRUE

\* As many finish flags start the decryption, and a vector of this length at a
\* node triggers the next phase.
AllFinished(vec) == Cardinality(vec) = share_counts
IsAll(vec) == Cardinality(vec) = share_counts

\* BatchEncRightProof::batch_verify: the ciphertexts are under the public key
\* of n.  (The range proofs beside it are a stub that accepts everything.)
CiphersVerify(n, vec) == \A m \in vec : Key(m) = Key(n)

\* BatchDecRightProof::batch_verify: the shares are by the secret keys that
\* the pk_share.txt of n lists.
SharesVerify(n, vec) == \A m \in vec : Key(m) = PkShares(n)

\* NodeSetupPhaseFinishFlag from n at the regulator.  The last one starts the
\* decryption at every node of the list.
HandleFinishFlag(n) ==
  LET vec == finish_vec \cup {n}
  IN  /\ Handle(Msg("NodeSetupPhaseFinishFlag", n, Reg),
                IF AllFinished(vec)
                  THEN {Msg("RegDecPhaseOneBroadcastMsg", Reg, m) : m \in Listed(node_info_vec)}
                  ELSE {})
      /\ finish_vec' = vec
      /\ UNCHANGED <<regUp, started, setup_msg_vec, node_info_vec, id, disk,
                     dec_phase_one_msg_vec, dec_phase_two_msg_vec,
                     batch_total_money, decrypted, panicked>>

\* RegDecPhaseOneBroadcastMsg at n: read the key, push the own ciphertext and
\* broadcast it.  The length of the vector is not looked at.
HandleDecPhaseStart(n) ==
  /\ Handle(Msg("RegDecPhaseOneBroadcastMsg", Reg, n),
            Broadcast("NodeDecPhaseOneBroadcastMsg", n))
  /\ dec_phase_one_msg_vec' = [dec_phase_one_msg_vec EXCEPT ![n] = @ \cup {n}]
  /\ UNCHANGED <<regUp, started, setup_msg_vec, node_info_vec, id, disk, finish_vec,
                 dec_phase_two_msg_vec, batch_total_money, decrypted, panicked>>

\* dec_phase_two at n on the ciphertexts of vec, all of them: verify, sum, and
\* push the own share.
DecPhaseTwo(n, vec) ==
  IF CiphersVerify(n, vec)
    THEN /\ batch_total_money' = [batch_total_money EXCEPT ![n] = vec]
         /\ dec_phase_two_msg_vec' = [dec_phase_two_msg_vec EXCEPT ![n] = @ \cup {n}]
         /\ UNCHANGED panicked
    ELSE /\ Panic(n, "dec_phase_two")
         /\ UNCHANGED <<batch_total_money, dec_phase_two_msg_vec>>

\* dec_phase_three at n on the shares of vec, all of them: verify, and combine
\* the first threshold + 1, which are of different nodes.
DecPhaseThree(n, vec) ==
  IF SharesVerify(n, vec)
    THEN decrypted' = [decrypted EXCEPT ![n] = TRUE] /\ UNCHANGED panicked
    ELSE Panic(n, "dec_phase_three") /\ UNCHANGED decrypted

\* NodeDecPhaseOneBroadcastMsg from m at n.  The last one triggers
\* dec_phase_two, and the own share is broadcast.  The length of the vector it
\* was pushed to is not looked at.
HandleDecPhaseOne(n, m) ==
  LET vec == dec_phase_one_msg_vec[n] \cup {m}
  IN  /\ Handle(Msg("NodeDecPhaseOneBroadcastMsg", m, n),
                IF IsAll(vec) /\ CiphersVerify(n, vec)
                  THEN Broadcast("NodeDecPhaseTwoBroadcastMsg", n) ELSE {})
      /\ dec_phase_one_msg_vec' = [dec_phase_one_msg_vec EXCEPT ![n] = vec]
      /\ IF IsAll(vec)
           THEN DecPhaseTwo(n, vec)
           ELSE UNCHANGED <<batch_total_money, dec_phase_two_msg_vec, panicked>>
      /\ UNCHANGED <<regUp, started, setup_msg_vec, node_info_vec, id, disk,
                     finish_vec, decrypted>>

\* NodeDecPhaseTwoBroadcastMsg from m at n.  The last one triggers
\* dec_phase_three.
HandleDecPhaseTwo(n, m) ==
  LET vec == dec_phase_two_msg_vec[n] \cup {m}
  IN  /\ Handle(Msg("NodeDecPhaseTwoBroadcastMsg", m, n), {})
      /\ dec_phase_two_msg_vec' = [dec_phase_two_msg_vec EXCEPT ![n] = vec]
      /\ IF IsAll(vec) THEN DecPhaseThree(n, vec) ELSE UNCHANGED <<decrypted, panicked>>
      /\ UNCHANGED <<regUp, started, setup_msg_vec, node_info_vec, id, disk, finish_vec,
                     dec_phase_one_msg_vec, batch_total_money>>

----------------------------------------------------------------------------
Next ==
  \/ SetupNext /\ UNCHANGED decVars
  \/ \E n \in Node : HandleSetupBroadcast(n)
  \/ \E n \in Node : HandleFinishFlag(n)
  \/ \E n \in Node : HandleDecPhaseStart(n)
  \/ \E n, m \in Node : HandleDecPhaseOne(n, m)
  \/ \E n, m \in Node : HandleDecPhaseTwo(n, m)

Spec == Init /\ [][Next]_vars

\* See Fairness of Dkg: processes are started, and delivered messages handled.
Fairness ==
  /\ WF_vars(RegulatorStart /\ UNCHANGED decVars)
  /\ \A n \in Node :
       /\ WF_vars(NodeStart(n) /\ UNCHANGED decVars)
       /\ WF_vars(HandleRegistration(n) /\ UNCHANGED decVars)
       /\ WF_vars(HandleSetupBroadcast(n))
       /\ WF_vars(HandleFinishFlag(n))
       /\ WF_vars(HandleDecPhaseStart(n))
       /\ \A m \in Node : WF_vars(HandleDecPhaseOne(n, m)) /\ WF_vars(HandleDecPhaseTwo(n, m))

FairSpec == Spec /\ Fairness

----------------------------------------------------------------------------
Messages == [type : {"NodeToRegSetupPhaseP2PMsg", "RegSetupPhaseBroadcastMsg",
                     "NodeSetupPhaseFinishFlag", "RegDecPhaseOneBroadcastMsg",
                     "NodeDecPhaseOneBroadcastMsg", "NodeDecPhaseTwoBroadcastMsg"},
             from : Process, to : Process]

TypeOK ==
  /\ SetupTypeOK
  /\ msgs \subseteq Messages
  /\ disk \in LeftOnDisk
  /\ finish_vec \subseteq Node
  /\ dec_phase_one_msg_vec \in [Node -> SUBSET Node]
  /\ dec_phase_two_msg_vec \in [Node -> SUBSET Node]
  /\ batch_total_money \in [Node -> SUBSET Node]
  /\ decrypted \in [Node -> BOOLEAN]
  /\ panicked \in [Node -> SUBSET {"dec_phase_two", "dec_phase_three"}]

\* A decryption share is given out only for the sum of everybody's amounts
\* under one key of the whole group: one partial or stale keypair.txt and no
\* node at all reaches phase two (dec_phase.rs:72-79).
SharesUnderOneKey ==
  \A n \in Node : batch_total_money[n] # {} =>
    /\ batch_total_money[n] = Node
    /\ Key(n) # "partial"
    /\ \A m \in Node : id[m] # 0 /\ Key(m) = Key(n)

\* What a node decrypts was shared by every node, over the same sum, with the
\* secret keys that its own pk_share.txt lists: keys of different runs of key
\* generation on the disks end in a panic, never in a wrong amount.
DecryptsTheTotal ==
  \A n \in Node : decrypted[n] =>
    /\ \A m \in Node : batch_total_money[m] = Node /\ Key(m) = PkShares(n)
    /\ panicked[n] = {}

\* Nobody sends a message of a type twice to another process, so that a length
\* that is compared with == counts different senders.
SentOnce ==
  \A n, m \in Node :
    /\ Msg("NodeSetupPhaseFinishFlag", n, Reg) \in msgs => n \notin finish_vec
    /\ Msg("RegDecPhaseOneBroadcastMsg", Reg, n) \in msgs => n \notin dec_phase_one_msg_vec[n]
    /\ Msg("NodeDecPhaseOneBroadcastMsg", m, n) \in msgs => m \notin dec_phase_one_msg_vec[n]
    /\ Msg("NodeDecPhaseTwoBroadcastMsg", m, n) \in msgs => m \notin dec_phase_two_msg_vec[n]

\* The own message was the last of its vector, and the length was not looked
\* at when it was pushed.
MissedPhaseTwo(n)   == dec_phase_one_msg_vec[n] = Node /\ batch_total_money[n] = {}
MissedPhaseThree(n) == dec_phase_two_msg_vec[n] = Node /\ ~decrypted[n]

\* The only ways to stall: a node registered before the regulator listened; a
\* node failed to verify the ciphertexts or took its own for the last one, and
\* then nobody decrypts; or it did so with the shares, and it alone does not.
EventuallyDecrypted ==
  <>(\/ \E n \in Node : Lost(n) \/ MissedPhaseTwo(n)
     \/ \A n \in Node : decrypted[n] \/ MissedPhaseThree(n))

\* What the readme says of the run (readme.md:76, "Results are written to
\* ./node/node*/log/node.log"), started in the documented order: every node
\* decrypts.  Not so: see README.md.
EveryNodeDecrypts == <>(\E n \in Node : Lost(n)) \/ <>(\A n \in Node : decrypted[n])

----------------------------------------------------------------------------
\* The rounds of the abstract specification: the own ciphertext sent, the own
\* share sent, the sum decrypted.
Round(n) == IF decrypted[n] THEN 3
            ELSE IF n \in dec_phase_two_msg_vec[n] THEN 2
            ELSE IF n \in dec_phase_one_msg_vec[n] THEN 1
            ELSE 0

Barrier == INSTANCE Lockstep WITH Rounds <- 3, round <- [n \in Node |-> Round(n)]

\* Whatever the order of delivery, the phases are rounds with a barrier: no
\* share before everybody's ciphertext, no decryption before everybody's share.
PhasesInStep == Barrier!Spec
============================================================================
