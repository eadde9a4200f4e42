----------------------------- MODULE DkgProofs -----------------------------
(***************************************************************************)
(* Theorems about the key generation run, for every set of at least two    *)
(* nodes.  The inductive invariant DkgInv says of each node which of five  *)
(* situations it is in, from what it has pushed and dealt: the two         *)
(* vectors are the only memory of the protocol, and a key sums exactly     *)
(* what they hold.                                                         *)
(***************************************************************************)
EXTENDS Dkg, SetupProofs

FlagMsg(m, n) == Msg("NodeSetupPhaseFinishFlag", m, n)
VssMsg(m, n)  == Msg("NodeToNodeFeldmanVssParamMsg", m, n)

HasDealt(n) == pk_share_vec[n] # Zero
Full(n)     == feldman_vss_vec[n] = Node \ {n}
Failed(n)   == "pk_share_vec" \in panicked[n]
AllBut(n)   == Plus(Zero, Node \ {n})

\* The key files of n, once it has a number.
Files(n, kp, ps) == id[n] # 0 => keypair[id[n]] = kp /\ pk_share[id[n]] = ps

\* Nothing is handled twice, and what is handled or in flight was sent: flags
\* by nodes with a number, shares by nodes that have dealt.
FlagsInv ==
  \A m, n \in Node :
    /\ FlagMsg(m, n) \in msgs => m # n /\ id[m] # 0 /\ m \notin setup_finish_vec[n]
    /\ m \in setup_finish_vec[n] => m # n /\ id[m] # 0

SharesInv ==
  \A m, n \in Node :
    /\ VssMsg(m, n) \in msgs => m # n /\ HasDealt(m) /\ m \notin feldman_vss_vec[n]
    /\ m \in feldman_vss_vec[n] => m # n /\ HasDealt(m)

\* Who has dealt had its number and everybody's flag.
DealInv ==
  \A n \in Node : HasDealt(n) => /\ pk_share_vec[n] = One(n)
                                 /\ id[n] # 0
                                 /\ setup_finish_vec[n] = Node \ {n}

\* The key of n: nothing summed yet, everything summed, or the failure.
KeyInv ==
  \A n \in Node :
    /\ ~Full(n) => /\ ~Failed(n)
                   /\ key[n] = IF HasDealt(n) THEN One(n) ELSE Zero
                   /\ Files(n, Zero, Zero)
    /\ Full(n) /\ ~Failed(n) => /\ HasDealt(n)
                                /\ key[n] = Complete
                                /\ Files(n, Complete, Complete)
    /\ Full(n) /\ Failed(n) => /\ key[n] = IF HasDealt(n) THEN One(n) ELSE AllBut(n)
                               /\ Files(n, AllBut(n), Zero)

\* Who failed had everybody else's share before it dealt itself.
OneFailedInv == \A n, p \in Node : Failed(n) /\ Failed(p) => n = p

\* Files of numbers nobody has taken are not written.
UnownedInv ==
  \A i \in Ids : (\A n \in Node : id[n] # i) => keypair[i] = Zero /\ pk_share[i] = Zero

DkgInv ==
  /\ TypeOK
  /\ SetupInv
  /\ FlagsInv
  /\ SharesInv
  /\ DealInv
  /\ KeyInv
  /\ OneFailedInv
  /\ UnownedInv
  /\ \A n \in Node : "id" \notin panicked[n]

----------------------------------------------------------------------------
\* Sums of dealers.
LEMMA Coefficient ==
  /\ Zero \in Coefficients /\ Complete \in Coefficients /\ Complete # Zero
  /\ \A n \in Node : /\ One(n) \in Coefficients
                     /\ AllBut(n) \in Coefficients
                     /\ One(n) # Zero
                     /\ One(n) # Complete
                     /\ AllBut(n) # Zero
                     /\ AllBut(n) # Complete
                     /\ Plus(One(n), Node \ {n}) = Complete
  /\ \A k \in Coefficients : \A D \in SUBSET Node : Plus(k, D) \in Coefficients
<1>1. /\ Zero \in Coefficients /\ Complete \in Coefficients
      /\ \A n \in Node : One(n) \in Coefficients
      /\ \A k \in Coefficients : \A D \in SUBSET Node : Plus(k, D) \in Coefficients
  BY DEF Zero, Complete, One, Plus, Coefficients
<1>2. /\ \A n \in Node : \E m \in Node : m # n
      /\ \E n \in Node : TRUE
  BY TwoNodes
<1>3. ASSUME NEW n \in Node
      PROVE  /\ AllBut(n) \in Coefficients
             /\ One(n) # Zero
             /\ One(n) # Complete
             /\ AllBut(n) # Zero
             /\ AllBut(n) # Complete
             /\ Plus(One(n), Node \ {n}) = Complete
             /\ Complete # Zero
  <2>1. PICK m \in Node : m # n
    BY <1>2
  <2>2. /\ Zero[n] = 0 /\ Zero[m] = 0 /\ Complete[n] = 1 /\ Complete[m] = 1
        /\ One(n)[n] = 1 /\ One(n)[m] = 0
        /\ AllBut(n)[n] = 0 /\ AllBut(n)[m] = 1
    BY <2>1 DEF Zero, Complete, One, AllBut, Plus
  <2>3. Plus(One(n), Node \ {n}) = Complete
    BY DEF Plus, One, Complete
  <2>4. AllBut(n) \in Coefficients
    BY <1>1 DEF AllBut
  <2> QED BY <2>2, <2>3, <2>4
<1>4. Complete # Zero
  BY <1>2, <1>3
<1> QED BY <1>1, <1>3, <1>4

\* A vector of others triggers exactly when everybody else is in it.
LEMMA LastIsEverybodyElse ==
  ASSUME NEW n \in Node, NEW D \in SUBSET (Node \ {n})
  PROVE  IsLast(D) <=> D = Node \ {n}
<1>1. /\ IsFiniteSet(Node \ {n})
      /\ Cardinality(Node \ {n}) = share_counts - 1
  BY NodeAssumption, FS_RemoveElement DEF share_counts
<1> QED BY <1>1, FS_Subset DEF IsLast

LEMMA InitInv == Init => DkgInv
<1> SUFFICES ASSUME Init PROVE DkgInv
  OBVIOUS
<1> USE DEF Init, SetupInit
<1>1. SetupInv
  BY SetupInitInv
<1>2. TypeOK
  BY <1>1, Coefficient DEF TypeOK, SetupInv
<1>3. FlagsInv /\ SharesInv /\ DealInv /\ UnownedInv /\ OneFailedInv
  BY DEF FlagsInv, SharesInv, DealInv, UnownedInv, HasDealt, OneFailedInv, Failed
<1>4. KeyInv
  <2>1. ASSUME NEW n \in Node PROVE ~Full(n)
    <3>1. Node \ {n} # {} /\ feldman_vss_vec[n] = {}
      BY TwoNodes
    <3> QED BY <3>1 DEF Full
  <2> QED BY <2>1 DEF KeyInv, Failed, HasDealt, Files
<1> QED BY <1>1, <1>2, <1>3, <1>4 DEF DkgInv

----------------------------------------------------------------------------
\* The messages of both phases are of their type.
LEMMA MessageTypes ==
  ASSUME NEW p \in Process, NEW q \in Process
  PROVE  /\ Msg("NodeToRegSetupPhaseP2PMsg", p, q) \in Messages
         /\ Msg("RegSetupPhaseBroadcastMsg", p, q) \in Messages
         /\ FlagMsg(p, q) \in Messages
         /\ VssMsg(p, q) \in Messages
  BY DEF Messages, Msg, FlagMsg, VssMsg

\* A node that has everybody's share has a number: the dealers waited for its
\* flag.
LEMMA DealtNumber ==
  ASSUME DkgInv, NEW n \in Node, NEW m \in Node, m # n, HasDealt(m)
  PROVE  id[n] # 0
  BY DEF DkgInv, DealInv, FlagsInv

LEMMA NoNumberNotFull ==
  ASSUME DkgInv, NEW n \in Node, id[n] = 0
  PROVE  ~Full(n) /\ ~HasDealt(n)
<1>1. PICK m \in Node : m # n
  BY TwoNodes
<1>2. Full(n) => HasDealt(m)
  BY <1>1 DEF Full, DkgInv, SharesInv
<1> QED BY <1>1, <1>2, DealtNumber DEF DkgInv, DealInv

\* Registration leaves the key generation alone.
LEMMA RegistrationPreserves ==
  ASSUME DkgInv, SetupNext, UNCHANGED dkgVars
  PROVE  DkgInv'
<1>1. SetupInv'
  BY SetupStep DEF DkgInv
<1>2. /\ \A n \in Node : n \in Process
      /\ Reg \in Process
      /\ \A n \in Node : setup_msg_vec \in Seq(Node) => Listed(Append(setup_msg_vec, n)) \subseteq Process
  <2>1. ASSUME NEW n \in Node, setup_msg_vec \in Seq(Node)
        PROVE  Listed(Append(setup_msg_vec, n)) \subseteq Process
    <3>1. Append(setup_msg_vec, n) \in Seq(Node)
      BY <2>1, AppendProperties
    <3> QED BY <3>1, LenProperties DEF Listed, Process
  <2> QED BY <2>1 DEF Process
<1>3. msgs' \subseteq msgs \cup {RegMsg(n) : n \in Node} \cup {ListMsg(n) : n \in Process}
  <2>1. CASE RegulatorStart
    BY <2>1 DEF RegulatorStart
  <2>2. ASSUME NEW n \in Node, NodeStart(n)
        PROVE  msgs' \subseteq msgs \cup {RegMsg(k) : k \in Node}
    BY <2>2 DEF NodeStart, RegMsg
  <2>3. ASSUME NEW n \in Node, HandleRegistration(n)
        PROVE  msgs' \subseteq msgs \cup {ListMsg(k) : k \in Process}
    BY <1>2, <2>3 DEF HandleRegistration, Handle, ListMsg, DkgInv, SetupInv, SetupTypeOK
  <2> QED BY <2>1, <2>2, <2>3 DEF SetupNext
<1>4. msgs' \subseteq Messages
  BY <1>2, <1>3, MessageTypes DEF DkgInv, TypeOK, RegMsg, ListMsg
<1>5. \A m, n \in Node : /\ FlagMsg(m, n) \in msgs' => FlagMsg(m, n) \in msgs
                         /\ VssMsg(m, n) \in msgs' => VssMsg(m, n) \in msgs
  BY <1>3, MsgEqual DEF FlagMsg, VssMsg, RegMsg, ListMsg
<1>6. id' = id
  BY DEF SetupNext, RegulatorStart, NodeStart, HandleRegistration
<1>7. UNCHANGED <<setup_finish_vec, feldman_vss_vec, key, pk_share_vec, keypair, pk_share, panicked>>
  BY DEF dkgVars
<1>8. TypeOK'
  BY <1>1, <1>4, <1>7 DEF DkgInv, TypeOK, SetupInv, Ids, share_counts
<1>9. FlagsInv' /\ SharesInv' /\ DealInv'
  BY <1>5, <1>6, <1>7 DEF DkgInv, FlagsInv, SharesInv, DealInv, HasDealt, Zero, One, FlagMsg, VssMsg, Msg
<1>10. KeyInv' /\ UnownedInv'
  BY <1>6, <1>7 DEF DkgInv, KeyInv, UnownedInv, Files, Full, Failed, HasDealt, AllBut, Plus,
                    Zero, One, Complete, Ids, share_counts
<1>11. OneFailedInv'
  BY <1>7 DEF DkgInv, OneFailedInv, Failed
<1> QED BY <1>1, <1>7, <1>8, <1>9, <1>10, <1>11 DEF DkgInv

\* Taking the list: the first flags of n, and key files that nobody has
\* written become its own.
LEMMA SetupBroadcastPreserves ==
  ASSUME DkgInv, NEW n \in Node, HandleSetupBroadcast(n)
  PROVE  /\ DkgInv'
         /\ Dealt' = Dealt /\ Table' = Table
<1> DEFINE i == IdIn(node_info_vec, n)
<1>1. /\ SetupInv /\ SetupTypeOK
      /\ TakeList(n, Peers(i))
      /\ UNCHANGED <<setup_finish_vec, feldman_vss_vec, key, pk_share_vec, keypair,
                     pk_share, panicked>>
  BY DEF DkgInv, SetupInv, HandleSetupBroadcast, dkgVars
<1>2. node_info_vec # << >>
  BY <1>1 DEF TakeList, Handle, SetupInv, ListMsg
<1>3. /\ Peers(i) = Node \ {n}
      /\ i \in Ids /\ i # 0
      /\ node_info_vec[i] = n
  BY <1>1, <1>2, ListFacts, CountsType DEF Ids
<1>4. SetupInv' /\ id[n] = 0
  BY <1>1, <1>3, TakeListStep DEF Process
<1>5. /\ id' = [id EXCEPT ![n] = i]
      /\ id \in [Node -> 0 .. share_counts]
      /\ msgs' \subseteq msgs \cup {FlagMsg(n, p) : p \in Node \ {n}}
  BY <1>1, <1>3 DEF TakeList, Handle, FlagMsg, SetupTypeOK
<1>6. TypeOK'
  <2>1. msgs' \subseteq Messages
    BY <1>5, MessageTypes DEF DkgInv, TypeOK, Process
  <2> QED BY <1>1, <1>4, <2>1 DEF DkgInv, TypeOK, SetupInv, Ids, share_counts
<1>7. ~Full(n) /\ ~HasDealt(n)
  BY <1>4, NoNumberNotFull
<1>8. \A m \in Node : n \notin setup_finish_vec[m]
  BY <1>4 DEF DkgInv, FlagsInv
<1>9. FlagsInv'
  <2>1. \A p, q \in Node : FlagMsg(p, q) \in msgs' => FlagMsg(p, q) \in msgs \/ (p = n /\ q # n)
    BY <1>5, MsgEqual DEF FlagMsg
  <2>2. \A p \in Node : (id[p] # 0 => id'[p] # 0) /\ id'[n] # 0
    BY <1>3, <1>4, <1>5
  <2>3. ASSUME NEW p \in Node, NEW q \in Node
        PROVE  /\ FlagMsg(p, q) \in msgs' => p # q /\ id'[p] # 0 /\ p \notin setup_finish_vec[q]
               /\ p \in setup_finish_vec[q] => p # q /\ id'[p] # 0
    BY <1>8, <2>1, <2>2 DEF DkgInv, FlagsInv
  <2> QED BY <1>1, <2>3 DEF FlagsInv, FlagMsg, Msg
<1>10. SharesInv' /\ DealInv'
  <2>1. \A p, q \in Node : VssMsg(p, q) \in msgs' => VssMsg(p, q) \in msgs
    BY <1>5, MsgEqual DEF FlagMsg, VssMsg
  <2> QED BY <1>1, <1>5, <1>7, <2>1
          DEF DkgInv, SharesInv, DealInv, HasDealt, Zero, One, VssMsg, Msg
<1>11. \A m \in Node : id[m] # i
  BY <1>1, <1>3, <1>4 DEF SetupInv, IdsAgree
<1>12. keypair[i] = Zero /\ pk_share[i] = Zero
  BY <1>3, <1>11 DEF DkgInv, UnownedInv
<1>13. KeyInv'
  <2>1. \A m \in Node : /\ Full(m)' = Full(m)
                        /\ Failed(m)' = Failed(m)
                        /\ HasDealt(m)' = HasDealt(m)
    BY <1>1 DEF Full, Failed, HasDealt, Zero
  <2>2. /\ Zero' = Zero /\ Complete' = Complete
        /\ \A m \in Node : One(m)' = One(m) /\ AllBut(m)' = AllBut(m)
    BY DEF Zero, Complete, One, AllBut, Plus
  <2>3. ASSUME NEW m \in Node, m # n, NEW kp, NEW ps, Files(m, kp, ps)
        PROVE  id'[m] # 0 => keypair'[id'[m]] = kp /\ pk_share'[id'[m]] = ps
    BY <1>1, <1>5, <2>3 DEF Files
  <2>4. id'[n] # 0 => keypair'[id'[n]] = Zero /\ pk_share'[id'[n]] = Zero
    BY <1>1, <1>5, <1>12
  <2> QED BY <1>1, <1>7, <2>1, <2>2, <2>3, <2>4 DEF DkgInv, KeyInv, Files
<1>14. UnownedInv'
  <2>1. /\ Ids' = Ids /\ Zero' = Zero
        /\ 0 \notin Ids
    BY CountsType DEF Ids, share_counts, Zero
  <2>2. ASSUME NEW k \in Ids, \A m \in Node : id'[m] # k
        PROVE  \A m \in Node : id[m] # k
    BY <1>4, <1>5, <2>1, <2>2
  <2> QED BY <1>1, <2>1, <2>2 DEF DkgInv, UnownedInv
<1>15. Dealt' = Dealt /\ Table' = Table
  BY <1>1, <1>3, <1>4, <1>5, <1>12 DEF Dealt, Table, Zero
<1>16. OneFailedInv'
  BY <1>1 DEF DkgInv, OneFailedInv, Failed
<1> QED BY <1>1, <1>4, <1>6, <1>9, <1>10, <1>13, <1>14, <1>15, <1>16 DEF DkgInv

\* What every handler of a flag or a share keeps of the registration.
LEMMA HandlerFrame ==
  ASSUME DkgInv, UNCHANGED <<regUp, started, setup_msg_vec, node_info_vec, id>>,
         \A x \in msgs' : x \in msgs \/ \E p, q \in Node : x = FlagMsg(p, q) \/ x = VssMsg(p, q)
  PROVE  SetupInv' /\ msgs' \subseteq Messages
<1>1. \A n \in Node : /\ RegMsg(n) \in msgs' => RegMsg(n) \in msgs
                      /\ ListMsg(n) \in msgs' => ListMsg(n) \in msgs
  BY MsgEqual DEF RegMsg, ListMsg, FlagMsg, VssMsg
<1> QED BY <1>1, SetupFrame, MessageTypes DEF DkgInv, TypeOK, Process

\* A flag: pushed, and when it is the last one n deals, or panics for want of
\* a list.
LEMMA FinishFlagPreserves ==
  ASSUME DkgInv, NEW n \in Node, NEW m \in Node, HandleFinishFlag(n, m)
  PROVE  /\ DkgInv'
         /\ Dealt' = Dealt \/ (n \notin Dealt /\ Dealt' = Dealt \cup {n})
         /\ Table' = Table
<1> DEFINE vec    == setup_finish_vec[n] \cup {m}
           deals  == IsLast(vec) /\ id[n] # 0
           panics == IsLast(vec) /\ id[n] = 0
           out    == IF deals THEN {VssMsg(n, q) : q \in Peers(id[n])} ELSE {}
<1>1. /\ FlagMsg(m, n) \in msgs
      /\ msgs' = (msgs \ {FlagMsg(m, n)}) \cup out
      /\ setup_finish_vec' = [setup_finish_vec EXCEPT ![n] = vec]
      /\ IF deals THEN KeygenPhaseOne(n) ELSE UNCHANGED <<key, pk_share_vec>>
      /\ IF panics THEN Panic(n, "node_info_vec") ELSE UNCHANGED panicked
      /\ UNCHANGED <<regUp, started, setup_msg_vec, node_info_vec, id,
                     feldman_vss_vec, keypair, pk_share>>
  BY DEF HandleFinishFlag, Handle, FlagMsg, VssMsg
<1>2. /\ m # n /\ id[m] # 0 /\ m \notin setup_finish_vec[n]
      /\ vec \in SUBSET (Node \ {n})
      /\ setup_finish_vec \in [Node -> SUBSET Node]
      /\ pk_share_vec \in [Node -> Coefficients]
      /\ key \in [Node -> Coefficients]
      /\ panicked \in [Node -> SUBSET Unwrap]
  BY <1>1 DEF DkgInv, FlagsInv, TypeOK
<1>3. ~HasDealt(n)
  BY <1>2 DEF DkgInv, DealInv
<1>4. IsLast(vec) <=> vec = Node \ {n}
  BY <1>2, LastIsEverybodyElse
<1>5. deals => Peers(id[n]) = Node \ {n}
  BY ListFacts, PeersAll DEF DkgInv, SetupInv, IdsAgree
<1>6. /\ \A p, q \in Node : VssMsg(p, q) \in msgs' =>
                              VssMsg(p, q) \in msgs \/ (deals /\ p = n /\ q # n)
      /\ \A p, q \in Node : FlagMsg(p, q) \in msgs' =>
                              FlagMsg(p, q) \in msgs /\ <<p, q>> # <<m, n>>
      /\ \A x \in msgs' : x \in msgs \/ \E q \in Node : x = VssMsg(n, q)
  BY <1>1, <1>5, MsgEqual DEF FlagMsg, VssMsg
<1>7. SetupInv' /\ msgs' \subseteq Messages
  BY <1>1, <1>6, HandlerFrame
<1>8. /\ pk_share_vec' = IF deals THEN [pk_share_vec EXCEPT ![n] = One(n)] ELSE pk_share_vec
      /\ key' = IF deals THEN [key EXCEPT ![n] = One(n)] ELSE key
      /\ panicked' = IF panics THEN [panicked EXCEPT ![n] = @ \cup {"node_info_vec"}]
                               ELSE panicked
  BY <1>1 DEF KeygenPhaseOne, Panic
<1>9. TypeOK'
  BY <1>1, <1>2, <1>7, <1>8, Coefficient
  DEF DkgInv, TypeOK, SetupInv, Ids, share_counts, Unwrap, Coefficients
<1>10. \A p \in Node : HasDealt(p)' <=> HasDealt(p) \/ (deals /\ p = n)
  BY <1>2, <1>8, Coefficient DEF HasDealt, Zero
<1>11. FlagsInv'
  <2>1. ASSUME NEW p \in Node, NEW q \in Node
        PROVE  /\ FlagMsg(p, q) \in msgs' => p # q /\ id[p] # 0 /\ p \notin setup_finish_vec'[q]
               /\ p \in setup_finish_vec'[q] => p # q /\ id[p] # 0
    <3>1. /\ FlagMsg(p, q) \in msgs => p # q /\ id[p] # 0 /\ p \notin setup_finish_vec[q]
          /\ p \in setup_finish_vec[q] => p # q /\ id[p] # 0
      BY DEF DkgInv, FlagsInv
    <3>2. setup_finish_vec'[q] = IF q = n THEN setup_finish_vec[n] \cup {m} ELSE setup_finish_vec[q]
      BY <1>1, <1>2
    <3>3. FlagMsg(p, q) \in msgs' => FlagMsg(p, q) \in msgs /\ <<p, q>> # <<m, n>>
      BY <1>6
    <3> QED BY ONLY <1>2, <3>1, <3>2, <3>3
  <2>2. id' = id
    BY <1>1
  <2> QED BY ONLY <2>1, <2>2 DEF FlagsInv, FlagMsg, Msg
<1>12. SharesInv'
  <2>1. ASSUME NEW p \in Node, NEW q \in Node
        PROVE  /\ VssMsg(p, q) \in msgs' =>
                    p # q /\ HasDealt(p)' /\ p \notin feldman_vss_vec[q]
               /\ p \in feldman_vss_vec[q] => p # q /\ HasDealt(p)'
    BY <1>3, <1>6, <1>10 DEF DkgInv, SharesInv
  <2> QED BY <1>1, <2>1 DEF SharesInv, VssMsg, Msg
<1>13. DealInv'
  <2>1. ASSUME NEW p \in Node, HasDealt(p)'
        PROVE  pk_share_vec'[p] = One(p) /\ id[p] # 0 /\ setup_finish_vec'[p] = Node \ {p}
    BY <1>1, <1>2, <1>3, <1>4, <1>8, <1>10, <2>1 DEF DkgInv, DealInv
  <2> QED BY <1>1, <2>1 DEF DealInv, One
<1>14. \A p \in Node : /\ Full(p)' = Full(p)
                       /\ Failed(p)' = Failed(p)
  BY <1>1, <1>2, <1>8 DEF Full, Failed
<1>15. KeyInv'
  <2>1. /\ Zero' = Zero /\ Complete' = Complete
        /\ \A p \in Node : One(p)' = One(p) /\ AllBut(p)' = AllBut(p)
    BY DEF Zero, Complete, One, AllBut, Plus
  <2>2. \A p \in Node : \A kp, ps : Files(p, kp, ps) =>
          (id'[p] # 0 => keypair'[id'[p]] = kp /\ pk_share'[id'[p]] = ps)
    BY <1>1 DEF Files
  <2>3. \A p \in Node : key'[p] = IF deals /\ p = n THEN One(p) ELSE key[p]
    BY <1>2, <1>8
  <2> SUFFICES ASSUME NEW p \in Node
               PROVE  /\ ~Full(p)' => /\ ~Failed(p)'
                                      /\ key'[p] = IF HasDealt(p)' THEN One(p)' ELSE Zero'
                                      /\ Files(p, Zero, Zero)'
                      /\ Full(p)' /\ ~Failed(p)' => /\ HasDealt(p)'
                                                    /\ key'[p] = Complete'
                                                    /\ Files(p, Complete, Complete)'
                      /\ Full(p)' /\ Failed(p)' =>
                           /\ key'[p] = IF HasDealt(p)' THEN One(p)' ELSE AllBut(p)'
                           /\ Files(p, AllBut(p), Zero)'
    BY DEF KeyInv
  <2>4. /\ Files(p, Zero, Zero) => Files(p, Zero, Zero)'
        /\ Files(p, Complete, Complete) => Files(p, Complete, Complete)'
        /\ Files(p, AllBut(p), Zero) => Files(p, AllBut(p), Zero)'
    BY <2>1, <2>2 DEF Files
  <2>5. /\ ~Full(p) => /\ ~Failed(p)
                       /\ key[p] = IF HasDealt(p) THEN One(p) ELSE Zero
                       /\ Files(p, Zero, Zero)
        /\ Full(p) /\ ~Failed(p) => /\ HasDealt(p)
                                    /\ key[p] = Complete
                                    /\ Files(p, Complete, Complete)
        /\ Full(p) /\ Failed(p) => /\ key[p] = IF HasDealt(p) THEN One(p) ELSE AllBut(p)
                                   /\ Files(p, AllBut(p), Zero)
    BY DEF DkgInv, KeyInv
  <2> QED BY <1>3, <1>10, <1>14, <2>1, <2>3, <2>4, <2>5
<1>16. UnownedInv'
  BY <1>1 DEF DkgInv, UnownedInv, Ids, share_counts, Zero
<1>17. \A p \in Node : "id" \notin panicked'[p]
  BY <1>2, <1>8 DEF DkgInv
<1>18. Dealt' = Dealt \/ (n \notin Dealt /\ Dealt' = Dealt \cup {n})
  BY <1>3, <1>10 DEF Dealt, HasDealt, Zero
<1>19. Table' = Table
  BY <1>1 DEF Table, Zero
<1>20. OneFailedInv'
  BY <1>14 DEF DkgInv, OneFailedInv
<1> QED BY <1>7, <1>9, <1>11, <1>12, <1>13, <1>15, <1>16, <1>17, <1>18, <1>19, <1>20
        DEF DkgInv

\* A share: pushed, and when it is the last one n sums, with or without its
\* own summand.
LEMMA VssPreserves ==
  ASSUME DkgInv, NEW n \in Node, NEW m \in Node, HandleVss(n, m)
  PROVE  /\ DkgInv'
         /\ \A i \in Ids : /\ keypair[i] # Zero => keypair'[i] = keypair[i]
                           /\ pk_share[i] # Zero => pk_share'[i] = pk_share[i]
         /\ Dealt' = Dealt
         /\ Table' = Table \/ (Dealt = Node /\ Table[n] = Zero
                               /\ Table' = [Table EXCEPT ![n] = Complete])
<1> DEFINE vec  == feldman_vss_vec[n] \cup {m}
           last == vec = Node \ {n}
           sum  == IF HasDealt(n) THEN Complete ELSE AllBut(n)
           kp   == IF last THEN sum ELSE Zero
           ps   == IF last /\ HasDealt(n) THEN Complete ELSE Zero
           k    == IF last THEN sum ELSE key[n]
           fail == IF last /\ ~HasDealt(n) THEN {"pk_share_vec"} ELSE {}
<1>1. /\ VssMsg(m, n) \in msgs
      /\ msgs' = msgs \ {VssMsg(m, n)}
      /\ feldman_vss_vec' = [feldman_vss_vec EXCEPT ![n] = vec]
      /\ IF IsLast(vec) THEN KeygenPhaseTwo(n, vec)
                        ELSE UNCHANGED <<key, keypair, pk_share, panicked>>
      /\ UNCHANGED <<regUp, started, setup_msg_vec, node_info_vec, id,
                     setup_finish_vec, pk_share_vec>>
  BY DEF HandleVss, Handle, VssMsg
<1>2. /\ m # n /\ HasDealt(m) /\ m \notin feldman_vss_vec[n]
      /\ vec \in SUBSET (Node \ {n})
      /\ feldman_vss_vec \in [Node -> SUBSET Node]
      /\ key \in [Node -> Coefficients]
      /\ keypair \in [Ids -> Coefficients]
      /\ pk_share \in [Ids -> Coefficients]
      /\ panicked \in [Node -> SUBSET Unwrap]
  BY <1>1 DEF DkgInv, SharesInv, TypeOK
<1>3. /\ ~Full(n)
      /\ IsLast(vec) <=> vec = Node \ {n}
  BY <1>2, LastIsEverybodyElse DEF Full
<1>4. id[n] # 0 /\ id[n] \in Ids
  <2>1. id[n] # 0
    BY <1>2, DealtNumber
  <2> QED BY <2>1, CountsType DEF DkgInv, SetupInv, SetupTypeOK, Ids
<1>5. /\ ~Failed(n)
      /\ key[n] = IF HasDealt(n) THEN One(n) ELSE Zero
      /\ keypair[id[n]] = Zero /\ pk_share[id[n]] = Zero
      /\ HasDealt(n) => pk_share_vec[n] = One(n)
  BY <1>3, <1>4 DEF DkgInv, KeyInv, Files, DealInv
<1>6. /\ key' = [key EXCEPT ![n] = k]
      /\ keypair' = [keypair EXCEPT ![id[n]] = kp]
      /\ pk_share' = [pk_share EXCEPT ![id[n]] = ps]
      /\ panicked' = [panicked EXCEPT ![n] = @ \cup fail]
  <2>1. CASE ~last
    BY <1>1, <1>2, <1>3, <1>4, <1>5, <2>1
  <2>2. CASE last /\ HasDealt(n)
    <3>1. KeygenPhaseTwo(n, vec) /\ pk_share_vec[n] # Zero
      BY <1>1, <1>3, <2>2 DEF HasDealt
    <3>2. Plus(One(n), vec) = Complete
      BY <2>2, Coefficient
    <3> QED BY <1>2, <1>4, <1>5, <2>2, <3>1, <3>2 DEF KeygenPhaseTwo
  <2>3. CASE last /\ ~HasDealt(n)
    <3>1. KeygenPhaseTwo(n, vec) /\ pk_share_vec[n] = Zero
      BY <1>1, <1>3, <2>3 DEF HasDealt
    <3>2. Plus(Zero, vec) = AllBut(n)
      BY <2>3 DEF AllBut
    <3> QED BY <1>2, <1>4, <1>5, <2>3, <3>1, <3>2 DEF KeygenPhaseTwo, Panic
  <2> QED BY <2>1, <2>2, <2>3
<1>7. /\ k \in Coefficients /\ kp \in Coefficients /\ ps \in Coefficients
      /\ fail \in SUBSET Unwrap /\ "id" \notin fail
  BY <1>2, Coefficient DEF Unwrap
<1>8. SetupInv' /\ msgs' \subseteq Messages
  BY <1>1, HandlerFrame
<1>9. TypeOK'
  <2>1. /\ key' \in [Node -> Coefficients]
        /\ keypair' \in [Ids -> Coefficients]
        /\ pk_share' \in [Ids -> Coefficients]
        /\ panicked' \in [Node -> SUBSET Unwrap]
        /\ feldman_vss_vec' \in [Node -> SUBSET Node]
    BY <1>1, <1>2, <1>4, <1>6, <1>7
  <2> QED BY <1>1, <1>8, <2>1
          DEF DkgInv, TypeOK, SetupInv, Ids, share_counts, Unwrap, Coefficients
<1>10. FlagsInv'
  <2>1. \A p, q \in Node : FlagMsg(p, q) \in msgs' => FlagMsg(p, q) \in msgs
    BY <1>1
  <2> QED BY <1>1, <2>1 DEF DkgInv, FlagsInv, FlagMsg, Msg
<1>11. \A p \in Node : HasDealt(p)' = HasDealt(p)
  BY <1>1 DEF HasDealt, Zero
<1>12. SharesInv'
  <2>1. ASSUME NEW p \in Node, NEW q \in Node
        PROVE  /\ VssMsg(p, q) \in msgs' =>
                    p # q /\ HasDealt(p) /\ p \notin feldman_vss_vec'[q]
               /\ p \in feldman_vss_vec'[q] => p # q /\ HasDealt(p)
    <3>1. VssMsg(p, q) \in msgs' => VssMsg(p, q) \in msgs /\ <<p, q>> # <<m, n>>
      BY <1>1
    <3> QED BY <1>1, <1>2, <3>1 DEF DkgInv, SharesInv
  <2> QED BY <1>11, <2>1 DEF SharesInv, VssMsg, Msg
<1>13. DealInv'
  BY <1>1, <1>11 DEF DkgInv, DealInv, One
<1>14. \A p \in Node \ {n} : id[p] # 0 => id[p] # id[n]
  BY <1>4 DEF DkgInv, SetupInv, IdsAgree
<1>15. KeyInv'
  <2>1. /\ Zero' = Zero /\ Complete' = Complete
        /\ \A p \in Node : One(p)' = One(p) /\ AllBut(p)' = AllBut(p)
    BY DEF Zero, Complete, One, AllBut, Plus
  <2>2. /\ Full(n)' = last
        /\ Failed(n)' = (last /\ ~HasDealt(n))
        /\ key'[n] = k /\ keypair'[id[n]] = kp /\ pk_share'[id[n]] = ps
    BY <1>1, <1>2, <1>4, <1>5, <1>6 DEF Full, Failed
  <2>3. ASSUME NEW p \in Node, p # n
        PROVE  /\ Full(p)' = Full(p) /\ Failed(p)' = Failed(p) /\ key'[p] = key[p]
               /\ \A x, y : Files(p, x, y) =>
                    (id[p] # 0 => keypair'[id[p]] = x /\ pk_share'[id[p]] = y)
    BY <1>1, <1>2, <1>6, <1>14, <2>3 DEF Full, Failed, Files
  <2>4. ASSUME NEW p \in Node
        PROVE  /\ ~Full(p)' => /\ ~Failed(p)'
                               /\ key'[p] = IF HasDealt(p) THEN One(p) ELSE Zero
                               /\ Files(p, Zero, Zero)'
               /\ Full(p)' /\ ~Failed(p)' => /\ HasDealt(p)
                                             /\ key'[p] = Complete
                                             /\ Files(p, Complete, Complete)'
               /\ Full(p)' /\ Failed(p)' =>
                    /\ key'[p] = IF HasDealt(p) THEN One(p) ELSE AllBut(p)
                    /\ Files(p, AllBut(p), Zero)'
    <3>1. CASE p = n
      BY <1>1, <1>5, <2>1, <2>2, <3>1 DEF Files
    <3>2. CASE p # n
      BY <1>1, <2>1, <2>3, <3>2 DEF DkgInv, KeyInv, Files
    <3> QED BY <3>1, <3>2
  <2> QED BY <1>11, <2>1, <2>4 DEF KeyInv
<1>16. UnownedInv'
  <2>1. \A i \in Ids : i # id[n] => keypair'[i] = keypair[i] /\ pk_share'[i] = pk_share[i]
    BY <1>2, <1>6
  <2>2. Ids' = Ids /\ Zero' = Zero
    BY DEF Ids, share_counts, Zero
  <2> QED BY <1>1, <2>1, <2>2 DEF DkgInv, UnownedInv
<1>17. \A p \in Node : "id" \notin panicked'[p]
  BY <1>2, <1>6, <1>7 DEF DkgInv
<1>18. OneFailedInv'
  <2>1. ASSUME NEW p \in Node, p # n, Failed(p) PROVE HasDealt(n)
    <3>1. Full(p)
      BY <2>1 DEF DkgInv, KeyInv
    <3> QED BY <2>1, <3>1 DEF DkgInv, SharesInv, Full
  <2>2. \A p \in Node : Failed(p)' => Failed(p) \/ (p = n /\ ~HasDealt(n))
    BY <1>2, <1>6 DEF Failed
  <2> QED BY <2>1, <2>2 DEF DkgInv, OneFailedInv
<1>19. DkgInv'
  BY <1>8, <1>9, <1>10, <1>12, <1>13, <1>15, <1>16, <1>17, <1>18 DEF DkgInv
<1>20. \A i \in Ids : /\ keypair[i] # Zero => keypair'[i] = keypair[i]
                      /\ pk_share[i] # Zero => pk_share'[i] = pk_share[i]
  BY <1>2, <1>4, <1>5, <1>6
<1>21. last /\ HasDealt(n) => \A p \in Node : HasDealt(p)
  BY <1>2 DEF DkgInv, SharesInv
<1>22. Dealt' = Dealt
  BY <1>1 DEF Dealt, Zero
<1>23. Table[n] = Zero
  BY <1>4, <1>5 DEF Table
<1>24. Table' = [Table EXCEPT ![n] = ps]
  <2>1. \A p \in Node : Table'[p] = IF p = n THEN ps ELSE Table[p]
    BY <1>1, <1>2, <1>4, <1>6, <1>14 DEF Table, Zero
  <2> QED BY <2>1 DEF Table
<1>25. Table' = Table \/ (Dealt = Node /\ Table[n] = Zero
                          /\ Table' = [Table EXCEPT ![n] = Complete])
  <2>1. CASE last /\ HasDealt(n)
    BY <1>21, <1>23, <1>24, <2>1 DEF Dealt, HasDealt
  <2>2. CASE ~(last /\ HasDealt(n))
    BY <1>23, <1>24, <2>2 DEF Table
  <2> QED BY <2>1, <2>2
<1> QED BY <1>19, <1>20, <1>22, <1>25

----------------------------------------------------------------------------
\* DkgInv is inductive.
THEOREM DkgInvariance == Spec => []DkgInv
<1>1. DkgInv /\ [Next]_vars => DkgInv'
  <2> SUFFICES ASSUME DkgInv, [Next]_vars PROVE DkgInv'
    OBVIOUS
  <2>1. CASE SetupNext /\ UNCHANGED dkgVars
    BY <2>1, RegistrationPreserves
  <2>2. ASSUME NEW n \in Node, HandleSetupBroadcast(n) PROVE DkgInv'
    BY <2>2, SetupBroadcastPreserves
  <2>3. ASSUME NEW n \in Node, NEW m \in Node, HandleFinishFlag(n, m) PROVE DkgInv'
    BY <2>3, FinishFlagPreserves
  <2>4. ASSUME NEW n \in Node, NEW m \in Node, HandleVss(n, m) PROVE DkgInv'
    BY <2>4, VssPreserves
  <2>5. CASE UNCHANGED vars
    <3>1. UNCHANGED <<regUp, started, setup_msg_vec, node_info_vec, id, msgs,
                      setup_finish_vec, feldman_vss_vec, key, pk_share_vec, keypair,
                      pk_share, panicked>>
      BY <2>5 DEF vars, setupVars, dkgVars
    <3>2. SetupInv'
      BY <3>1, SetupFrame DEF DkgInv, RegMsg, ListMsg, Msg
    <3>3. TypeOK'
      BY <3>1, <3>2 DEF DkgInv, TypeOK, SetupInv, Ids, share_counts
    <3>4. FlagsInv' /\ SharesInv' /\ DealInv'
      BY <3>1 DEF DkgInv, FlagsInv, SharesInv, DealInv, HasDealt, Zero, One, FlagMsg, VssMsg, Msg
    <3>5. KeyInv' /\ UnownedInv'
      BY <3>1 DEF DkgInv, KeyInv, UnownedInv, Files, Full, Failed, HasDealt, AllBut, Plus,
                  Zero, One, Complete, Ids, share_counts
    <3>6. OneFailedInv'
      BY <3>1 DEF DkgInv, OneFailedInv, Failed
    <3> QED BY <3>1, <3>2, <3>3, <3>4, <3>5, <3>6 DEF DkgInv
  <2> QED BY <2>1, <2>2, <2>3, <2>4, <2>5 DEF Next
<1> QED BY InitInv, <1>1, PTL DEF Spec

\* Every variable keeps its type.
THEOREM Types == Spec => []TypeOK
<1>1. DkgInv => TypeOK
  BY DEF DkgInv
<1> QED BY <1>1, DkgInvariance, PTL

\* Numbers are unique and point at their nodes: setup_phase_two agrees with
\* the list that setup_phase_one of the regulator numbered.
THEOREM Numbering == Spec => []IdsAgree
<1>1. DkgInv => IdsAgree
  BY DEF DkgInv, SetupInv
<1> QED BY <1>1, DkgInvariance, PTL

\* In every order of delivery, a pk_share.txt on disk and the keypair.txt
\* beside it sum every dealer exactly once.
THEOREM SharesComplete == Spec => []PublishedSharesComplete
<1>1. DkgInv => PublishedSharesComplete
  <2> SUFFICES ASSUME DkgInv, NEW i \in Ids, pk_share[i] # Zero
               PROVE  pk_share[i] = Complete /\ keypair[i] = Complete
    BY DEF PublishedSharesComplete
  <2>1. PICK n \in Node : id[n] = i
    BY DEF DkgInv, UnownedInv
  <2>2. i # 0
    BY CountsType DEF Ids
  <2> QED BY <2>1, <2>2 DEF DkgInv, KeyInv, Files
<1> QED BY <1>1, DkgInvariance, PTL

\* A keypair.txt that misses a summand misses its owner's, and its owner
\* panicked before it wrote pk_share.txt.
THEOREM WrongKeyTraced == Spec => []WrongKeyLeavesTrace
<1>1. DkgInv => WrongKeyLeavesTrace
  <2> SUFFICES ASSUME DkgInv, NEW n \in Node, id[n] # 0,
                      keypair[id[n]] \notin {Zero, Complete}
               PROVE  /\ keypair[id[n]] = Plus(Zero, Node \ {n})
                      /\ pk_share[id[n]] = Zero
                      /\ "pk_share_vec" \in panicked[n]
                      /\ key[n] # Complete
    BY DEF WrongKeyLeavesTrace
  <2>1. Full(n) /\ Failed(n)
    BY DEF DkgInv, KeyInv, Files
  <2>2. key[n] \in {One(n), AllBut(n)} /\ Files(n, AllBut(n), Zero)
    BY <2>1 DEF DkgInv, KeyInv
  <2> QED BY <2>1, <2>2, Coefficient DEF Files, Failed, AllBut
<1> QED BY <1>1, DkgInvariance, PTL

\* At most one keypair.txt of the group is incomplete.
THEOREM OneWrongKey == Spec => []AtMostOneWrongKey
<1>1. DkgInv => AtMostOneWrongKey
  <2> SUFFICES ASSUME DkgInv, NEW i \in Ids, NEW j \in Ids,
                      keypair[i] \notin {Zero, Complete}, keypair[j] \notin {Zero, Complete}
               PROVE  i = j
    BY DEF AtMostOneWrongKey
  <2>1. PICK n \in Node : id[n] = i
    BY DEF DkgInv, UnownedInv
  <2>2. PICK m \in Node : id[m] = j
    BY DEF DkgInv, UnownedInv
  <2>3. i # 0 /\ j # 0
    BY CountsType DEF Ids
  <2>4. Failed(n) /\ Failed(m)
    BY <2>1, <2>2, <2>3 DEF DkgInv, KeyInv, Files
  <2> QED BY <2>1, <2>2, <2>4 DEF DkgInv, OneFailedInv
<1> QED BY <1>1, DkgInvariance, PTL

\* No message is sent twice, so the vectors' lengths count senders.
THEOREM NothingTwice == Spec => []SentOnce
<1>1. DkgInv => SentOnce
  BY DEF DkgInv, FlagsInv, SharesInv, SentOnce, FlagMsg, VssMsg
<1> QED BY <1>1, DkgInvariance, PTL

\* Nobody deals before every node has its number, and no share is handled by
\* a node without one.
THEOREM Barrier == Spec => []DealingBarrier
<1>1. DkgInv => DealingBarrier
  BY DealtNumber DEF DkgInv, DealInv, DealingBarrier, HasDealt
<1> QED BY <1>1, DkgInvariance, PTL

\* Key files are not rewritten.
THEOREM WrittenOnce == Spec => KeyFilesWrittenOnce
<1>1. DkgInv /\ [Next]_vars =>
        [\A i \in Ids : /\ keypair[i] # Zero => keypair'[i] = keypair[i]
                        /\ pk_share[i] # Zero => pk_share'[i] = pk_share[i]]_vars
  <2> SUFFICES ASSUME DkgInv, Next, NEW i \in Ids
               PROVE  /\ keypair[i] # Zero => keypair'[i] = keypair[i]
                      /\ pk_share[i] # Zero => pk_share'[i] = pk_share[i]
    OBVIOUS
  <2>1. ASSUME NEW n \in Node, NEW m \in Node, HandleVss(n, m)
        PROVE  /\ keypair[i] # Zero => keypair'[i] = keypair[i]
               /\ pk_share[i] # Zero => pk_share'[i] = pk_share[i]
    BY <2>1, VssPreserves
  <2> QED BY <2>1 DEF Next, dkgVars, HandleSetupBroadcast, HandleFinishFlag
<1> QED BY <1>1, DkgInvariance, PTL DEF Spec, KeyFilesWrittenOnce

\* The run implements KeyGenPromise: a table is published once, after every
\* node has dealt, and sums every dealer.
THEOREM Implements == Spec => PromiseSpec
<1>1. Init => Promise!Init
  BY Coefficient DEF Init, SetupInit, Promise!Init, Promise!Unpublished, Dealt, Table, Zero
<1>2. DkgInv /\ [Next]_vars => [Promise!Next]_<<Dealt, Table>>
  <2> SUFFICES ASSUME DkgInv, [Next]_vars
               PROVE  Promise!Next \/ UNCHANGED <<Dealt, Table>>
    OBVIOUS
  <2>1. CASE SetupNext /\ UNCHANGED dkgVars
    <3>1. UNCHANGED <<id, pk_share_vec, pk_share>>
      BY <2>1 DEF SetupNext, RegulatorStart, NodeStart, HandleRegistration, dkgVars
    <3> QED BY <3>1 DEF Dealt, Table, Zero
  <2>2. ASSUME NEW n \in Node, HandleSetupBroadcast(n)
        PROVE  UNCHANGED <<Dealt, Table>>
    BY <2>2, SetupBroadcastPreserves
  <2>3. ASSUME NEW n \in Node, NEW m \in Node, HandleFinishFlag(n, m)
        PROVE  Promise!Deal(n) \/ UNCHANGED <<Dealt, Table>>
    BY <2>3, FinishFlagPreserves DEF Promise!Deal
  <2>4. ASSUME NEW n \in Node, NEW m \in Node, HandleVss(n, m)
        PROVE  Promise!Publish(n) \/ UNCHANGED <<Dealt, Table>>
    BY <2>4, VssPreserves
    DEF Promise!Publish, Promise!Unpublished, Promise!AllDealers, Zero, Complete
  <2>5. CASE UNCHANGED vars
    BY <2>5 DEF vars, setupVars, dkgVars, Dealt, Table, Zero
  <2> QED BY <2>1, <2>2, <2>3, <2>4, <2>5 DEF Next, Promise!Next
<1> QED BY <1>1, <1>2, DkgInvariance, PTL DEF Spec, PromiseSpec, Promise!Spec
============================================================================
