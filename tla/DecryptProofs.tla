--------------------------- MODULE DecryptProofs ---------------------------
(***************************************************************************)
(* Theorems about the decryption run, for every set of at least two nodes  *)
(* and whatever key generation has left on disk.  The inductive invariant  *)
(* DecryptInv says what the lengths that the handlers compare stand for:   *)
(* who has shared had everybody's ciphertext, who has decrypted had        *)
(* everybody's share, and what was verified then still holds, since        *)
(* numbers and files do not change any more.                               *)
(***************************************************************************)
EXTENDS Decrypt, SetupProofs

FlagMsg(n)      == Msg("NodeSetupPhaseFinishFlag", n, Reg)
StartMsg(n)     == Msg("RegDecPhaseOneBroadcastMsg", Reg, n)
CipherMsg(m, n) == Msg("NodeDecPhaseOneBroadcastMsg", m, n)
ShareMsg(m, n)  == Msg("NodeDecPhaseTwoBroadcastMsg", m, n)

\* n has broadcast its ciphertext, and its decryption share.
Sent(n)   == n \in dec_phase_one_msg_vec[n]
Shared(n) == n \in dec_phase_two_msg_vec[n]

\* The decryption begins once, when everybody has a number.
StartInv ==
  \A n \in Node :
    /\ FlagMsg(n) \in msgs => id[n] # 0 /\ n \notin finish_vec
    /\ n \in finish_vec => id[n] # 0
    /\ StartMsg(n) \in msgs => finish_vec = Node /\ ~Sent(n)
    /\ Sent(n) => finish_vec = Node

\* Ciphertexts and shares come from nodes that have broadcast them, and are
\* handled once.
CipherInv ==
  \A m, n \in Node :
    /\ CipherMsg(m, n) \in msgs => m # n /\ Sent(m) /\ m \notin dec_phase_one_msg_vec[n]
    /\ m \in dec_phase_one_msg_vec[n] => Sent(m)

ShareInv ==
  \A m, n \in Node :
    /\ ShareMsg(m, n) \in msgs => m # n /\ Shared(m) /\ m \notin dec_phase_two_msg_vec[n]
    /\ m \in dec_phase_two_msg_vec[n] => Shared(m)

\* Phase two of n: who has a sum has shared it, had everybody's ciphertext, and
\* found them under its own key; a panic leaves no sum.
SumInv ==
  \A n \in Node :
    /\ batch_total_money[n] = IF Shared(n) THEN Node ELSE {}
    /\ Shared(n) => dec_phase_one_msg_vec[n] = Node /\ CiphersVerify(n, Node)
    /\ "dec_phase_two" \in panicked[n] => dec_phase_one_msg_vec[n] = Node /\ ~Shared(n)

\* Phase three of n: who has decrypted had everybody's share, by the secret
\* keys it expected.
EndInv ==
  \A n \in Node :
    /\ decrypted[n] => dec_phase_two_msg_vec[n] = Node /\ SharesVerify(n, Node)
    /\ "dec_phase_three" \in panicked[n] => dec_phase_two_msg_vec[n] = Node /\ ~decrypted[n]

DecryptInv ==
  /\ TypeOK
  /\ SetupInv
  /\ StartInv
  /\ CipherInv
  /\ ShareInv
  /\ SumInv
  /\ EndInv

----------------------------------------------------------------------------
\* Everybody is in a vector of nodes exactly when its length says so.
LEMMA AllIsEverybody ==
  ASSUME NEW D \in SUBSET Node
  PROVE  /\ IsAll(D) <=> D = Node
         /\ AllFinished(D) <=> D = Node
  BY NodeAssumption, FS_Subset DEF IsAll, AllFinished, share_counts

\* Once a node has broadcast its ciphertext everybody has a number, from 1 to
\* share_counts, that is nobody else's, and reaches everybody else.
LEMMA Numbered ==
  ASSUME DecryptInv, NEW m \in Node, Sent(m)
  PROVE  \A n \in Node : /\ id[n] # 0 /\ id[n] \in Ids
                         /\ Peers(id[n]) = Node \ {n}
                         /\ \A p \in Node : id[p] = id[n] => p = n
<1>1. \A n \in Node : id[n] # 0
  BY DEF DecryptInv, StartInv
<1>2. node_info_vec # << >>
  BY <1>1, EmptySeq DEF DecryptInv, SetupInv, IdsAgree
<1>3. NoRepeats(node_info_vec) /\ Listed(node_info_vec) = Node
  BY <1>2, ListFacts DEF DecryptInv
<1>4. \A n \in Node : id[n] \in DOMAIN node_info_vec /\ node_info_vec[id[n]] = n
  BY <1>1 DEF DecryptInv, SetupInv, IdsAgree
<1>5. \A n \in Node : Peers(id[n]) = Node \ {n}
  BY <1>3, <1>4, PeersAll DEF DecryptInv, SetupInv
<1>6. \A n \in Node : id[n] \in Ids
  BY <1>1, CountsType DEF DecryptInv, SetupInv, SetupTypeOK, Ids
<1> QED BY <1>1, <1>4, <1>5, <1>6

LEMMA InitInv == Init => DecryptInv
<1> SUFFICES ASSUME Init PROVE DecryptInv
  OBVIOUS
<1> USE DEF Init, SetupInit
<1>1. SetupInv
  BY SetupInitInv
<1>2. disk \in LeftOnDisk
  BY DiskAssumption
<1>3. TypeOK
  BY <1>1, <1>2 DEF TypeOK, SetupInv
<1>4. StartInv /\ CipherInv /\ ShareInv
  BY DEF StartInv, CipherInv, ShareInv, Sent, Shared
<1>5. SumInv /\ EndInv
  BY DEF SumInv, EndInv, Sent, Shared
<1> QED BY <1>1, <1>3, <1>4, <1>5 DEF DecryptInv

----------------------------------------------------------------------------
\* The messages of the run are of their type.
LEMMA MessageTypes ==
  ASSUME NEW p \in Process, NEW q \in Process
  PROVE  /\ RegMsg(p) \in Messages /\ ListMsg(p) \in Messages
         /\ FlagMsg(p) \in Messages /\ StartMsg(p) \in Messages
         /\ CipherMsg(p, q) \in Messages /\ ShareMsg(p, q) \in Messages
  BY DEF Messages, Msg, Process, RegMsg, ListMsg, FlagMsg, StartMsg, CipherMsg, ShareMsg

\* Registration leaves the decryption alone.
LEMMA RegistrationPreserves ==
  ASSUME DecryptInv, SetupNext, UNCHANGED decVars
  PROVE  DecryptInv'
<1>1. SetupInv'
  BY SetupStep DEF DecryptInv
<1>2. \A x \in msgs' : x \in msgs \/ \E n \in Process : x = RegMsg(n) \/ x = ListMsg(n)
  <2>1. CASE RegulatorStart
    BY <2>1 DEF RegulatorStart
  <2>2. ASSUME NEW n \in Node, NodeStart(n)
        PROVE  \A x \in msgs' : x \in msgs \/ x = RegMsg(n)
    BY <2>2 DEF NodeStart, RegMsg
  <2>3. ASSUME NEW n \in Node, HandleRegistration(n)
        PROVE  \A x \in msgs' : x \in msgs \/ \E k \in Process : x = ListMsg(k)
    <3>1. Append(setup_msg_vec, n) \in Seq(Node)
      BY AppendProperties DEF DecryptInv, SetupInv, SetupTypeOK
    <3>2. Listed(Append(setup_msg_vec, n)) \subseteq Process
      BY <3>1, LenProperties DEF Listed, Process
    <3> QED BY <2>3, <3>2 DEF HandleRegistration, Handle, ListMsg
  <2> QED BY <2>1, <2>2, <2>3 DEF SetupNext, Process
<1>3. msgs' \subseteq Messages
  BY <1>2, MessageTypes DEF DecryptInv, TypeOK
<1>4. \A m, n \in Node : /\ FlagMsg(n) \in msgs' => FlagMsg(n) \in msgs
                         /\ StartMsg(n) \in msgs' => StartMsg(n) \in msgs
                         /\ CipherMsg(m, n) \in msgs' => CipherMsg(m, n) \in msgs
                         /\ ShareMsg(m, n) \in msgs' => ShareMsg(m, n) \in msgs
  BY <1>2, MsgEqual DEF FlagMsg, StartMsg, CipherMsg, ShareMsg, RegMsg, ListMsg
<1>5. id' = id
  BY DEF SetupNext, RegulatorStart, NodeStart, HandleRegistration
<1>6. UNCHANGED <<disk, finish_vec, dec_phase_one_msg_vec, dec_phase_two_msg_vec,
                  batch_total_money, decrypted, panicked>>
  BY DEF decVars
<1>7. TypeOK'
  BY <1>1, <1>3, <1>6 DEF DecryptInv, TypeOK, SetupInv, LeftOnDisk, Ids, share_counts
<1>8. StartInv' /\ CipherInv' /\ ShareInv'
  BY <1>4, <1>5, <1>6
  DEF DecryptInv, StartInv, CipherInv, ShareInv, Sent, Shared,
      FlagMsg, StartMsg, CipherMsg, ShareMsg, Msg
<1>9. SumInv' /\ EndInv'
  BY <1>5, <1>6
  DEF DecryptInv, SumInv, EndInv, Shared, CiphersVerify, SharesVerify, Key, PkShares
<1> QED BY <1>1, <1>7, <1>8, <1>9 DEF DecryptInv

\* Taking the list: the flag of n, which had no number before, so that nothing
\* has been verified yet.
LEMMA SetupBroadcastPreserves ==
  ASSUME DecryptInv, NEW n \in Node, HandleSetupBroadcast(n)
  PROVE  DecryptInv'
<1>1. /\ TakeList(n, {Reg})
      /\ UNCHANGED <<disk, finish_vec, dec_phase_one_msg_vec, dec_phase_two_msg_vec,
                     batch_total_money, decrypted, panicked>>
  BY DEF HandleSetupBroadcast, decVars
<1>2. SetupInv' /\ id[n] = 0 /\ id'[n] # 0
  BY <1>1, TakeListStep DEF DecryptInv, Process
<1>3. /\ id' = [id EXCEPT ![n] = IdIn(node_info_vec, n)]
      /\ id \in [Node -> 0 .. share_counts]
      /\ \A x \in msgs' : x \in msgs \/ x = FlagMsg(n)
  BY <1>1 DEF TakeList, Handle, FlagMsg, DecryptInv, SetupInv, SetupTypeOK
<1>4. \A p, q \in Node : /\ FlagMsg(p) \in msgs' => FlagMsg(p) \in msgs \/ p = n
                         /\ StartMsg(p) \in msgs' => StartMsg(p) \in msgs
                         /\ CipherMsg(p, q) \in msgs' => CipherMsg(p, q) \in msgs
                         /\ ShareMsg(p, q) \in msgs' => ShareMsg(p, q) \in msgs
  BY <1>3, MsgEqual DEF FlagMsg, StartMsg, CipherMsg, ShareMsg
<1>5. TypeOK'
  <2>1. msgs' \subseteq Messages
    BY <1>3, MessageTypes DEF DecryptInv, TypeOK, Process
  <2> QED BY <1>1, <1>2, <2>1 DEF DecryptInv, TypeOK, SetupInv, LeftOnDisk, Ids, share_counts
<1>6. StartInv'
  <2>1. \A p \in Node : id[p] # 0 => id'[p] # 0
    BY <1>2, <1>3
  <2>2. n \notin finish_vec
    BY <1>2 DEF DecryptInv, StartInv
  <2> QED BY <1>1, <1>2, <1>4, <2>1, <2>2
          DEF DecryptInv, StartInv, Sent, FlagMsg, StartMsg, Msg
<1>7. CipherInv' /\ ShareInv'
  BY <1>1, <1>4 DEF DecryptInv, CipherInv, ShareInv, Sent, Shared, CipherMsg, ShareMsg, Msg
<1>8. \A p \in Node : ~Sent(p) /\ ~Shared(p) /\ ~decrypted[p]
  <2>1. \A p \in Node : ~Sent(p)
    BY <1>2 DEF DecryptInv, StartInv
  <2> QED BY <2>1 DEF DecryptInv, SumInv, EndInv, Sent, Shared
<1>9. SumInv' /\ EndInv'
  BY <1>1, <1>8 DEF DecryptInv, SumInv, EndInv, Shared
<1> QED BY <1>2, <1>5, <1>6, <1>7, <1>9 DEF DecryptInv

\* What every handler of a later message keeps of the registration.
LEMMA HandlerFrame ==
  ASSUME DecryptInv, UNCHANGED <<regUp, started, setup_msg_vec, node_info_vec, id>>,
         \A x \in msgs' : \/ x \in msgs
                          \/ \E p, q \in Node : x \in {StartMsg(p), CipherMsg(p, q), ShareMsg(p, q)}
  PROVE  SetupInv' /\ msgs' \subseteq Messages
<1>1. \A n \in Node : /\ RegMsg(n) \in msgs' => RegMsg(n) \in msgs
                      /\ ListMsg(n) \in msgs' => ListMsg(n) \in msgs
  BY MsgEqual DEF RegMsg, ListMsg, StartMsg, CipherMsg, ShareMsg
<1> QED BY <1>1, SetupFrame, MessageTypes DEF DecryptInv, TypeOK, Process

\* A step of the barrier, from the rounds.
LEMMA EnterRound ==
  ASSUME NEW n \in Node, Round(n) \in {0, 1, 2},
         \A m \in Node : Round(m) \in Nat /\ Round(m) >= Round(n),
         \A m \in Node : Round(m)' = IF m = n THEN Round(n) + 1 ELSE Round(m)
  PROVE  Barrier!Enter(n)
<1> DEFINE r == [m \in Node |-> Round(m)]
<1>1. r' = [m \in Node |-> Round(m)']
  BY DEF Round
<1>2. r' = [r EXCEPT ![n] = r[n] + 1]
  BY <1>1
<1>3. r[n] < 3 /\ \A m \in Node : r[m] >= r[n]
  OBVIOUS
<1> QED BY <1>2, <1>3 DEF Barrier!Enter

\* A flag at the regulator: the last one starts every node, none of which has
\* begun.
LEMMA FinishFlagPreserves ==
  ASSUME DecryptInv, NEW n \in Node, HandleFinishFlag(n)
  PROVE  DecryptInv'
<1> DEFINE vec == finish_vec \cup {n}
           out == IF AllFinished(vec) THEN {StartMsg(m) : m \in Listed(node_info_vec)} ELSE {}
<1>1. /\ FlagMsg(n) \in msgs
      /\ msgs' = (msgs \ {FlagMsg(n)}) \cup out
      /\ finish_vec' = vec
      /\ UNCHANGED <<regUp, started, setup_msg_vec, node_info_vec, id, disk,
                     dec_phase_one_msg_vec, dec_phase_two_msg_vec,
                     batch_total_money, decrypted, panicked>>
  BY DEF HandleFinishFlag, Handle, FlagMsg, StartMsg
<1>2. id[n] # 0 /\ n \notin finish_vec /\ vec \in SUBSET Node
  BY <1>1 DEF DecryptInv, StartInv, TypeOK
<1>3. AllFinished(vec) <=> vec = Node
  BY <1>2, AllIsEverybody
<1>4. Listed(node_info_vec) \subseteq Node
  BY LenProperties DEF DecryptInv, SetupInv, SetupTypeOK, Listed
<1>5. \A p, q \in Node : /\ FlagMsg(p) \in msgs' => FlagMsg(p) \in msgs /\ p # n
                         /\ StartMsg(p) \in msgs' => StartMsg(p) \in msgs \/ vec = Node
                         /\ CipherMsg(p, q) \in msgs' => CipherMsg(p, q) \in msgs
                         /\ ShareMsg(p, q) \in msgs' => ShareMsg(p, q) \in msgs
  BY <1>1, <1>3, MsgEqual DEF FlagMsg, StartMsg, CipherMsg, ShareMsg
<1>6. SetupInv' /\ msgs' \subseteq Messages
  BY <1>1, <1>4, HandlerFrame
<1>7. TypeOK'
  BY <1>1, <1>2, <1>6 DEF DecryptInv, TypeOK, SetupInv, LeftOnDisk, Ids, share_counts
<1>8. StartInv'
  <2>1. \A p \in Node : ~Sent(p) /\ StartMsg(p) \notin msgs
    BY <1>2 DEF DecryptInv, StartInv
  <2>2. ASSUME NEW p \in Node
        PROVE  /\ FlagMsg(p) \in msgs' => id[p] # 0 /\ p \notin vec
               /\ p \in vec => id[p] # 0
               /\ StartMsg(p) \in msgs' => vec = Node
    BY <1>2, <1>5, <2>1 DEF DecryptInv, StartInv
  <2> QED BY <1>1, <2>1, <2>2 DEF StartInv, Sent, FlagMsg, StartMsg, Msg
<1>9. CipherInv' /\ ShareInv'
  BY <1>1, <1>5 DEF DecryptInv, CipherInv, ShareInv, Sent, Shared, CipherMsg, ShareMsg, Msg
<1>10. SumInv' /\ EndInv'
  BY <1>1
  DEF DecryptInv, SumInv, EndInv, Shared, CiphersVerify, SharesVerify, Key, PkShares
<1> QED BY <1>6, <1>7, <1>8, <1>9, <1>10 DEF DecryptInv

\* The start at n: its own ciphertext is pushed and goes to everybody else.
LEMMA DecPhaseStartPreserves ==
  ASSUME DecryptInv, NEW n \in Node, HandleDecPhaseStart(n)
  PROVE  /\ DecryptInv'
         /\ Barrier!Enter(n)
<1>1. /\ StartMsg(n) \in msgs
      /\ msgs' = (msgs \ {StartMsg(n)}) \cup {CipherMsg(n, q) : q \in Peers(id[n])}
      /\ dec_phase_one_msg_vec' = [dec_phase_one_msg_vec EXCEPT ![n] = @ \cup {n}]
      /\ UNCHANGED <<regUp, started, setup_msg_vec, node_info_vec, id, disk, finish_vec,
                     dec_phase_two_msg_vec, batch_total_money, decrypted, panicked>>
  BY DEF HandleDecPhaseStart, Handle, Broadcast, StartMsg, CipherMsg
<1>2. /\ finish_vec = Node /\ ~Sent(n)
      /\ dec_phase_one_msg_vec \in [Node -> SUBSET Node]
  BY <1>1 DEF DecryptInv, StartInv, TypeOK
<1>3. Peers(id[n]) = Node \ {n}
  <2>1. \A p \in Node : id[p] # 0
    BY <1>2 DEF DecryptInv, StartInv
  <2>2. id[n] \in DOMAIN node_info_vec /\ node_info_vec[id[n]] = n
    BY <2>1 DEF DecryptInv, SetupInv, IdsAgree
  <2>3. node_info_vec # << >>
    BY <2>2, EmptySeq
  <2> QED BY <2>2, <2>3, ListFacts, PeersAll DEF DecryptInv, SetupInv
<1>4. \A p, q \in Node : /\ FlagMsg(p) \in msgs' => FlagMsg(p) \in msgs
                         /\ StartMsg(p) \in msgs' => StartMsg(p) \in msgs /\ p # n
                         /\ CipherMsg(p, q) \in msgs' => CipherMsg(p, q) \in msgs \/ (p = n /\ q # n)
                         /\ ShareMsg(p, q) \in msgs' => ShareMsg(p, q) \in msgs
  BY <1>1, <1>3, MsgEqual DEF FlagMsg, StartMsg, CipherMsg, ShareMsg
<1>5. SetupInv' /\ msgs' \subseteq Messages
  BY <1>1, <1>3, HandlerFrame
<1>6. TypeOK'
  BY <1>1, <1>2, <1>5 DEF DecryptInv, TypeOK, SetupInv, LeftOnDisk, Ids, share_counts
<1>7. /\ \A p \in Node : Sent(p)' <=> (Sent(p) \/ p = n)
      /\ \A p \in Node : Shared(p)' <=> Shared(p)
      /\ \A p \in Node : dec_phase_one_msg_vec[p] = Node => dec_phase_one_msg_vec'[p] = Node
  BY <1>1, <1>2 DEF Sent, Shared
<1>8. StartInv'
  BY <1>1, <1>2, <1>4, <1>7 DEF DecryptInv, StartInv, FlagMsg, StartMsg, Msg
<1>9. CipherInv'
  <2>1. \A q \in Node : n \notin dec_phase_one_msg_vec[q]
    BY <1>2 DEF DecryptInv, CipherInv
  <2>2. ASSUME NEW p \in Node, NEW q \in Node
        PROVE  /\ CipherMsg(p, q) \in msgs' => /\ p # q /\ (Sent(p) \/ p = n)
                                               /\ p \notin dec_phase_one_msg_vec'[q]
               /\ p \in dec_phase_one_msg_vec'[q] => Sent(p) \/ p = n
    BY <1>1, <1>2, <1>4, <2>1 DEF DecryptInv, CipherInv
  <2> QED BY <1>7, <2>2 DEF CipherInv, CipherMsg, Msg
<1>10. ShareInv'
  BY <1>1, <1>4, <1>7 DEF DecryptInv, ShareInv, ShareMsg, Msg
<1>11. SumInv' /\ EndInv'
  BY <1>1, <1>7
  DEF DecryptInv, SumInv, EndInv, CiphersVerify, SharesVerify, Key, PkShares
<1>12. Barrier!Enter(n)
  <2>1. ~Shared(n) /\ ~decrypted[n]
    BY <1>2 DEF DecryptInv, SumInv, EndInv, Sent, Shared
  <2>2. Round(n) = 0 /\ Round(n)' = 1
    BY <1>1, <1>2, <1>7, <2>1 DEF Round, Sent, Shared
  <2>3. \A p \in Node : p # n => Round(p)' = Round(p)
    BY <1>1, <1>2 DEF Round
  <2>4. \A p \in Node : Round(p) \in {0, 1, 2, 3}
    BY DEF Round
  <2> QED BY <2>2, <2>3, <2>4, EnterRound
<1> QED BY <1>5, <1>6, <1>8, <1>9, <1>10, <1>11, <1>12 DEF DecryptInv

\* A ciphertext of m at n: the last one lets n sum and share, for the first
\* time, or panic, if its own was not the last.
LEMMA DecPhaseOnePreserves ==
  ASSUME DecryptInv, NEW n \in Node, NEW m \in Node, HandleDecPhaseOne(n, m)
  PROVE  /\ DecryptInv'
         /\ Barrier!Enter(n) \/ \A p \in Node : Round(p)' = Round(p)
<1> DEFINE vec    == dec_phase_one_msg_vec[n] \cup {m}
           shares == vec = Node /\ CiphersVerify(n, Node)
           fails  == vec = Node /\ ~CiphersVerify(n, Node)
           out    == IF shares THEN {ShareMsg(n, q) : q \in Peers(id[n])} ELSE {}
<1>1. /\ CipherMsg(m, n) \in msgs
      /\ msgs' = (msgs \ {CipherMsg(m, n)})
                   \cup (IF IsAll(vec) /\ CiphersVerify(n, vec)
                         THEN {ShareMsg(n, q) : q \in Peers(id[n])} ELSE {})
      /\ dec_phase_one_msg_vec' = [dec_phase_one_msg_vec EXCEPT ![n] = vec]
      /\ IF IsAll(vec) THEN DecPhaseTwo(n, vec)
                       ELSE UNCHANGED <<batch_total_money, dec_phase_two_msg_vec, panicked>>
      /\ UNCHANGED <<regUp, started, setup_msg_vec, node_info_vec, id, disk,
                     finish_vec, decrypted>>
  BY DEF HandleDecPhaseOne, Handle, Broadcast, CipherMsg, ShareMsg
<1>2. /\ m # n /\ Sent(m) /\ m \notin dec_phase_one_msg_vec[n]
      /\ vec \in SUBSET Node
      /\ dec_phase_one_msg_vec \in [Node -> SUBSET Node]
      /\ dec_phase_two_msg_vec \in [Node -> SUBSET Node]
      /\ batch_total_money \in [Node -> SUBSET Node]
      /\ decrypted \in [Node -> BOOLEAN]
      /\ panicked \in [Node -> SUBSET {"dec_phase_two", "dec_phase_three"}]
  BY <1>1 DEF DecryptInv, CipherInv, TypeOK
<1>3. IsAll(vec) <=> vec = Node
  BY <1>2, AllIsEverybody
<1>4. /\ Peers(id[n]) = Node \ {n}
      /\ \A p \in Node : id[p] # 0
  BY <1>2, Numbered
<1>5. /\ msgs' = (msgs \ {CipherMsg(m, n)}) \cup out
      /\ batch_total_money' = [batch_total_money EXCEPT ![n] = IF shares THEN Node ELSE @]
      /\ dec_phase_two_msg_vec' =
           [dec_phase_two_msg_vec EXCEPT ![n] = IF shares THEN @ \cup {n} ELSE @]
      /\ panicked' = [panicked EXCEPT ![n] = IF fails THEN @ \cup {"dec_phase_two"} ELSE @]
  <2>1. CASE vec # Node
    BY <1>1, <1>2, <1>3, <2>1
  <2>2. CASE vec = Node
    <3>1. DecPhaseTwo(n, Node)
      BY <1>1, <1>3, <2>2
    <3> QED BY <1>1, <1>2, <1>3, <2>2, <3>1 DEF DecPhaseTwo, Panic
  <2> QED BY <2>1, <2>2
<1> HIDE DEF out
<1>6. /\ ~Shared(n) /\ ~decrypted[n]
      /\ "dec_phase_two" \notin panicked[n]
  BY <1>2 DEF DecryptInv, SumInv, EndInv, Shared
<1>7. \A p, q \in Node : /\ FlagMsg(p) \in msgs' => FlagMsg(p) \in msgs
                         /\ StartMsg(p) \in msgs' => StartMsg(p) \in msgs
                         /\ CipherMsg(p, q) \in msgs' =>
                              CipherMsg(p, q) \in msgs /\ <<p, q>> # <<m, n>>
                         /\ ShareMsg(p, q) \in msgs' =>
                              ShareMsg(p, q) \in msgs \/ (shares /\ p = n /\ q # n)
  BY <1>4, <1>5, MsgEqual DEF FlagMsg, StartMsg, CipherMsg, ShareMsg, out
<1>8. SetupInv' /\ msgs' \subseteq Messages
  BY <1>1, <1>4, <1>5, HandlerFrame DEF out
<1>9. TypeOK'
  <2>1. /\ dec_phase_one_msg_vec' \in [Node -> SUBSET Node]
        /\ dec_phase_two_msg_vec' \in [Node -> SUBSET Node]
        /\ batch_total_money' \in [Node -> SUBSET Node]
        /\ panicked' \in [Node -> SUBSET {"dec_phase_two", "dec_phase_three"}]
    BY <1>1, <1>2, <1>5
  <2> QED BY <1>1, <1>8, <2>1
          DEF DecryptInv, TypeOK, SetupInv, LeftOnDisk, Ids, share_counts
<1>10. /\ \A p \in Node : Sent(p)' <=> Sent(p)
       /\ \A p \in Node : Shared(p)' <=> (Shared(p) \/ (p = n /\ shares))
       /\ \A p \in Node : dec_phase_one_msg_vec[p] = Node => dec_phase_one_msg_vec'[p] = Node
       /\ \A p \in Node : dec_phase_two_msg_vec[p] = Node => dec_phase_two_msg_vec'[p] = Node
       /\ dec_phase_one_msg_vec'[n] = vec
       /\ UNCHANGED <<id, disk, finish_vec, decrypted>>
  BY <1>1, <1>2, <1>5 DEF Sent, Shared
<1>11. StartInv'
  BY <1>7, <1>10 DEF DecryptInv, StartInv, FlagMsg, StartMsg, Msg
<1>12. CipherInv'
  <2>1. \A p, q \in Node : p \in dec_phase_one_msg_vec'[q] <=>
                           p \in dec_phase_one_msg_vec[q] \/ <<p, q>> = <<m, n>>
    BY <1>1, <1>2
  <2>2. ASSUME NEW p \in Node, NEW q \in Node
        PROVE  /\ CipherMsg(p, q) \in msgs' => /\ p # q /\ Sent(p)
                                               /\ p \notin dec_phase_one_msg_vec'[q]
               /\ p \in dec_phase_one_msg_vec'[q] => Sent(p)
    BY <1>2, <1>7, <2>1 DEF DecryptInv, CipherInv
  <2> QED BY <1>10, <2>2 DEF CipherInv, CipherMsg, Msg
<1>13. ShareInv'
  <2>1. \A q \in Node : n \notin dec_phase_two_msg_vec[q]
    BY <1>6 DEF DecryptInv, ShareInv
  <2>2. ASSUME NEW p \in Node, NEW q \in Node
        PROVE  /\ ShareMsg(p, q) \in msgs' => /\ p # q /\ (Shared(p) \/ (p = n /\ shares))
                                              /\ p \notin dec_phase_two_msg_vec'[q]
               /\ p \in dec_phase_two_msg_vec'[q] => Shared(p) \/ (p = n /\ shares)
    BY <1>2, <1>5, <1>7, <2>1 DEF DecryptInv, ShareInv
  <2> QED BY <1>10, <2>2 DEF ShareInv, ShareMsg, Msg
<1>14. /\ \A p \in Node : CiphersVerify(p, Node)' = CiphersVerify(p, Node)
       /\ \A p \in Node : SharesVerify(p, Node)' = SharesVerify(p, Node)
  BY <1>1 DEF CiphersVerify, SharesVerify, Key, PkShares
<1>15. SumInv'
  <2>1. ASSUME NEW p \in Node, p # n
        PROVE  /\ batch_total_money'[p] = batch_total_money[p]
               /\ panicked'[p] = panicked[p]
               /\ dec_phase_one_msg_vec'[p] = dec_phase_one_msg_vec[p]
    BY <1>1, <1>2, <1>5, <2>1
  <2>2. /\ batch_total_money'[n] = IF shares THEN Node ELSE {}
        /\ "dec_phase_two" \in panicked'[n] => fails
    BY <1>2, <1>5, <1>6 DEF DecryptInv, SumInv
  <2> QED BY <1>6, <1>10, <1>14, <2>1, <2>2 DEF DecryptInv, SumInv
<1>16. EndInv'
  <2>1. \A p \in Node : "dec_phase_three" \in panicked'[p] => "dec_phase_three" \in panicked[p]
    BY <1>2, <1>5
  <2> QED BY <1>10, <1>14, <2>1 DEF DecryptInv, EndInv
<1>17. Barrier!Enter(n) \/ \A p \in Node : Round(p)' = Round(p)
  <2>1. CASE shares
    <3>1. \A p \in Node : Sent(p)
      BY <1>2, <2>1 DEF DecryptInv, CipherInv
    <3>2. /\ Round(n) = 1 /\ Round(n)' = 2
          /\ \A p \in Node : Round(p) \in {1, 2, 3}
          /\ \A p \in Node : p # n => Round(p)' = Round(p)
      BY <1>6, <1>10, <2>1, <3>1 DEF Round, Sent, Shared
    <3> QED BY <3>2, EnterRound
  <2>2. CASE ~shares
    BY <1>10, <2>2 DEF Round, Sent, Shared
  <2> QED BY <2>1, <2>2
<1> QED BY <1>8, <1>9, <1>11, <1>12, <1>13, <1>15, <1>16, <1>17 DEF DecryptInv

\* A share of m at n: the last one lets n decrypt, or panic, if its own was not
\* the last.
LEMMA DecPhaseTwoPreserves ==
  ASSUME DecryptInv, NEW n \in Node, NEW m \in Node, HandleDecPhaseTwo(n, m)
  PROVE  /\ DecryptInv'
         /\ Barrier!Enter(n) \/ \A p \in Node : Round(p)' = Round(p)
<1> DEFINE vec  == dec_phase_two_msg_vec[n] \cup {m}
           ends  == vec = Node /\ SharesVerify(n, Node)
           fails == vec = Node /\ ~SharesVerify(n, Node)
<1>1. /\ ShareMsg(m, n) \in msgs
      /\ msgs' = msgs \ {ShareMsg(m, n)}
      /\ dec_phase_two_msg_vec' = [dec_phase_two_msg_vec EXCEPT ![n] = vec]
      /\ IF IsAll(vec) THEN DecPhaseThree(n, vec) ELSE UNCHANGED <<decrypted, panicked>>
      /\ UNCHANGED <<regUp, started, setup_msg_vec, node_info_vec, id, disk, finish_vec,
                     dec_phase_one_msg_vec, batch_total_money>>
  BY DEF HandleDecPhaseTwo, Handle, ShareMsg
<1>2. /\ m # n /\ Shared(m) /\ m \notin dec_phase_two_msg_vec[n]
      /\ vec \in SUBSET Node
      /\ dec_phase_two_msg_vec \in [Node -> SUBSET Node]
      /\ decrypted \in [Node -> BOOLEAN]
      /\ panicked \in [Node -> SUBSET {"dec_phase_two", "dec_phase_three"}]
  BY <1>1 DEF DecryptInv, ShareInv, TypeOK
<1>3. IsAll(vec) <=> vec = Node
  BY <1>2, AllIsEverybody
<1>4. /\ decrypted' = [decrypted EXCEPT ![n] = IF ends THEN TRUE ELSE @]
      /\ panicked' = [panicked EXCEPT ![n] = IF fails THEN @ \cup {"dec_phase_three"} ELSE @]
  <2>1. CASE vec # Node
    BY <1>1, <1>2, <1>3, <2>1
  <2>2. CASE vec = Node
    <3>1. DecPhaseThree(n, Node)
      BY <1>1, <1>3, <2>2
    <3> QED BY <1>2, <2>2, <3>1 DEF DecPhaseThree, Panic
  <2> QED BY <2>1, <2>2
<1>5. ~decrypted[n] /\ "dec_phase_three" \notin panicked[n]
  BY <1>2 DEF DecryptInv, EndInv
<1>6. SetupInv' /\ msgs' \subseteq Messages
  BY <1>1, HandlerFrame
<1>7. TypeOK'
  <2>1. /\ dec_phase_two_msg_vec' \in [Node -> SUBSET Node]
        /\ decrypted' \in [Node -> BOOLEAN]
        /\ panicked' \in [Node -> SUBSET {"dec_phase_two", "dec_phase_three"}]
    BY <1>1, <1>2, <1>4
  <2> QED BY <1>1, <1>6, <2>1
          DEF DecryptInv, TypeOK, SetupInv, LeftOnDisk, Ids, share_counts
<1>8. /\ \A p \in Node : Sent(p)' <=> Sent(p)
      /\ \A p \in Node : Shared(p)' <=> Shared(p)
      /\ \A p \in Node : p # n => dec_phase_two_msg_vec'[p] = dec_phase_two_msg_vec[p]
      /\ dec_phase_two_msg_vec'[n] = vec
  BY <1>1, <1>2 DEF Sent, Shared
<1>9. StartInv' /\ CipherInv'
  <2>1. \A p, q \in Node : /\ FlagMsg(p) \in msgs' => FlagMsg(p) \in msgs
                           /\ StartMsg(p) \in msgs' => StartMsg(p) \in msgs
                           /\ CipherMsg(p, q) \in msgs' => CipherMsg(p, q) \in msgs
    BY <1>1
  <2> QED BY <1>1, <1>8, <2>1
          DEF DecryptInv, StartInv, CipherInv, FlagMsg, StartMsg, CipherMsg, Msg
<1>10. ShareInv'
  <2>1. ASSUME NEW p \in Node, NEW q \in Node
        PROVE  /\ ShareMsg(p, q) \in msgs' =>
                    p # q /\ Shared(p) /\ p \notin dec_phase_two_msg_vec'[q]
               /\ p \in dec_phase_two_msg_vec'[q] => Shared(p)
    <3>1. ShareMsg(p, q) \in msgs' => ShareMsg(p, q) \in msgs /\ <<p, q>> # <<m, n>>
      BY <1>1
    <3> QED BY <1>2, <1>8, <3>1 DEF DecryptInv, ShareInv
  <2> QED BY <1>8, <2>1 DEF ShareInv, ShareMsg, Msg
<1>11. \A p \in Node : /\ CiphersVerify(p, Node)' = CiphersVerify(p, Node)
                       /\ SharesVerify(p, Node)' = SharesVerify(p, Node)
  BY <1>1 DEF CiphersVerify, SharesVerify, Key, PkShares
<1>12. SumInv'
  <2>1. \A p \in Node : "dec_phase_two" \in panicked'[p] => "dec_phase_two" \in panicked[p]
    BY <1>2, <1>4
  <2> QED BY <1>1, <1>8, <1>11, <2>1 DEF DecryptInv, SumInv
<1>13. EndInv'
  <2>1. /\ \A p \in Node : p # n => decrypted'[p] = decrypted[p] /\ panicked'[p] = panicked[p]
        /\ decrypted'[n] = ends
        /\ "dec_phase_three" \in panicked'[n] => fails
    BY <1>2, <1>4, <1>5
  <2> QED BY <1>8, <1>11, <2>1 DEF DecryptInv, EndInv
<1>14. Barrier!Enter(n) \/ \A p \in Node : Round(p)' = Round(p)
  <2>1. CASE ends
    <3>1. \A p \in Node : Shared(p)
      BY <1>2, <2>1 DEF DecryptInv, ShareInv
    <3>2. /\ Round(n) = 2 /\ Round(n)' = 3
          /\ \A p \in Node : Round(p) \in {2, 3}
          /\ \A p \in Node : p # n => Round(p)' = Round(p)
      BY <1>1, <1>2, <1>4, <1>5, <1>8, <2>1, <3>1 DEF Round, Shared
    <3> QED BY <3>2, EnterRound
  <2>2. CASE ~ends
    <3>1. decrypted' = decrypted
      BY <1>2, <1>4, <2>2
    <3> QED BY <1>1, <1>8, <3>1 DEF Round, Shared
  <2> QED BY <2>1, <2>2
<1> QED BY <1>6, <1>7, <1>9, <1>10, <1>12, <1>13, <1>14 DEF DecryptInv

----------------------------------------------------------------------------
LEMMA StutterPreserves ==
  ASSUME DecryptInv, UNCHANGED vars
  PROVE  DecryptInv'
<1>1. UNCHANGED <<regUp, started, setup_msg_vec, node_info_vec, id, msgs, disk, finish_vec,
                  dec_phase_one_msg_vec, dec_phase_two_msg_vec, batch_total_money,
                  decrypted, panicked>>
  BY DEF vars, setupVars, decVars
<1>2. SetupInv'
  BY <1>1, SetupFrame DEF DecryptInv, RegMsg, ListMsg, Msg
<1>3. TypeOK'
  BY <1>1, <1>2 DEF DecryptInv, TypeOK, SetupInv, LeftOnDisk, Ids, share_counts
<1>4. StartInv' /\ CipherInv' /\ ShareInv'
  BY <1>1 DEF DecryptInv, StartInv, CipherInv, ShareInv, Sent, Shared,
              FlagMsg, StartMsg, CipherMsg, ShareMsg, Msg
<1>5. SumInv' /\ EndInv'
  BY <1>1 DEF DecryptInv, SumInv, EndInv, Shared, CiphersVerify, SharesVerify, Key, PkShares
<1> QED BY <1>2, <1>3, <1>4, <1>5 DEF DecryptInv

\* DecryptInv is inductive.
THEOREM DecryptInvariance == Spec => []DecryptInv
<1>1. DecryptInv /\ [Next]_vars => DecryptInv'
  <2> SUFFICES ASSUME DecryptInv, [Next]_vars PROVE DecryptInv'
    OBVIOUS
  <2>1. CASE SetupNext /\ UNCHANGED decVars
    BY <2>1, RegistrationPreserves
  <2>2. ASSUME NEW n \in Node, HandleSetupBroadcast(n) PROVE DecryptInv'
    BY <2>2, SetupBroadcastPreserves
  <2>3. ASSUME NEW n \in Node, HandleFinishFlag(n) PROVE DecryptInv'
    BY <2>3, FinishFlagPreserves
  <2>4. ASSUME NEW n \in Node, HandleDecPhaseStart(n) PROVE DecryptInv'
    BY <2>4, DecPhaseStartPreserves
  <2>5. ASSUME NEW n \in Node, NEW m \in Node, HandleDecPhaseOne(n, m) PROVE DecryptInv'
    BY <2>5, DecPhaseOnePreserves
  <2>6. ASSUME NEW n \in Node, NEW m \in Node, HandleDecPhaseTwo(n, m) PROVE DecryptInv'
    BY <2>6, DecPhaseTwoPreserves
  <2>7. CASE UNCHANGED vars
    BY <2>7, StutterPreserves
  <2> QED BY <2>1, <2>2, <2>3, <2>4, <2>5, <2>6, <2>7 DEF Next
<1> QED BY InitInv, <1>1, PTL DEF Spec

\* Every variable keeps its type; the files stay what key generation can leave.
THEOREM Types == Spec => []TypeOK
<1>1. DecryptInv => TypeOK
  BY DEF DecryptInv
<1> QED BY <1>1, DecryptInvariance, PTL

\* Whatever is on disk and in whatever order messages arrive, a decryption
\* share is of the sum of everybody's amounts, under one complete key.
THEOREM OneKey == Spec => []SharesUnderOneKey
<1>1. DecryptInv => SharesUnderOneKey
  <2> SUFFICES ASSUME DecryptInv, NEW n \in Node, batch_total_money[n] # {}
               PROVE  /\ batch_total_money[n] = Node
                      /\ Key(n) # "partial"
                      /\ \A m \in Node : id[m] # 0 /\ Key(m) = Key(n)
    BY DEF SharesUnderOneKey
  <2>1. Shared(n) /\ batch_total_money[n] = Node
    BY DEF DecryptInv, SumInv
  <2>2. Sent(n) /\ \A m \in Node : Key(m) = Key(n)
    BY <2>1 DEF DecryptInv, SumInv, CiphersVerify, Sent
  <2>3. PICK m \in Node : m # n
    BY TwoNodes
  <2>4. id[n] \in Ids /\ id[m] \in Ids /\ id[n] # id[m]
    BY <2>2, <2>3, Numbered
  <2>5. Key(n) # "partial"
    BY <2>2, <2>4 DEF DecryptInv, TypeOK, LeftOnDisk, Key
  <2> QED BY <2>1, <2>2, <2>5, Numbered
<1> QED BY <1>1, DecryptInvariance, PTL

\* Who decrypts has every node's share of that sum, by the secret keys its own
\* pk_share.txt lists, and no verification of its failed.
THEOREM TheTotal == Spec => []DecryptsTheTotal
<1>1. DecryptInv => DecryptsTheTotal
  <2> SUFFICES ASSUME DecryptInv, NEW n \in Node, decrypted[n]
               PROVE  /\ \A m \in Node : batch_total_money[m] = Node /\ Key(m) = PkShares(n)
                      /\ panicked[n] = {}
    BY DEF DecryptsTheTotal
  <2>1. /\ dec_phase_two_msg_vec[n] = Node
        /\ \A m \in Node : Key(m) = PkShares(n)
        /\ "dec_phase_three" \notin panicked[n]
    BY DEF DecryptInv, EndInv, SharesVerify
  <2>2. \A m \in Node : Shared(m)
    BY <2>1 DEF DecryptInv, ShareInv
  <2>3. "dec_phase_two" \notin panicked[n] /\ \A m \in Node : batch_total_money[m] = Node
    BY <2>2 DEF DecryptInv, SumInv
  <2>4. panicked[n] \in SUBSET {"dec_phase_two", "dec_phase_three"}
    BY DEF DecryptInv, TypeOK
  <2> QED BY <2>1, <2>3, <2>4
<1> QED BY <1>1, DecryptInvariance, PTL

\* No message is sent twice, so the vectors' lengths count senders.
THEOREM NothingTwice == Spec => []SentOnce
<1>1. DecryptInv => SentOnce
  BY DEF DecryptInv, StartInv, CipherInv, ShareInv, SentOnce, Sent,
         FlagMsg, StartMsg, CipherMsg, ShareMsg
<1> QED BY <1>1, DecryptInvariance, PTL

\* The run implements Lockstep: the phases are rounds with a barrier.
THEOREM Implements == Spec => PhasesInStep
<1> DEFINE r == [n \in Node |-> Round(n)]
<1>1. Init => Barrier!Init
  BY DEF Init, Round, Barrier!Init
<1>2. (\A p \in Node : Round(p)' = Round(p)) => r' = r
  <2>1. r' = [p \in Node |-> Round(p)']
    BY DEF Round
  <2> QED BY <2>1
<1>3. DecryptInv /\ [Next]_vars => [Barrier!Next]_r
  <2> SUFFICES ASSUME DecryptInv, [Next]_vars
               PROVE  (\E n \in Node : Barrier!Enter(n)) \/ \A p \in Node : Round(p)' = Round(p)
    BY <1>2 DEF Barrier!Next
  <2>1. CASE SetupNext /\ UNCHANGED decVars
    BY <2>1 DEF decVars, Round
  <2>2. ASSUME NEW n \in Node, HandleSetupBroadcast(n) \/ HandleFinishFlag(n)
        PROVE  \A p \in Node : Round(p)' = Round(p)
    BY <2>2 DEF HandleSetupBroadcast, HandleFinishFlag, decVars, Round
  <2>3. ASSUME NEW n \in Node, HandleDecPhaseStart(n)
        PROVE  Barrier!Enter(n)
    BY <2>3, DecPhaseStartPreserves
  <2>4. ASSUME NEW n \in Node, NEW m \in Node,
               HandleDecPhaseOne(n, m) \/ HandleDecPhaseTwo(n, m)
        PROVE  Barrier!Enter(n) \/ \A p \in Node : Round(p)' = Round(p)
    BY <2>4, DecPhaseOnePreserves, DecPhaseTwoPreserves
  <2>5. CASE UNCHANGED vars
    BY <2>5 DEF vars, decVars, Round
  <2> QED BY <2>1, <2>2, <2>3, <2>4, <2>5 DEF Next
<1> QED BY <1>1, <1>3, DecryptInvariance, PTL DEF Spec, PhasesInStep, Barrier!Spec
============================================================================
