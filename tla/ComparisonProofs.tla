-------------------------- MODULE ComparisonProofs --------------------------
(***************************************************************************)
(* Theorems about the key generation of the comparison scheme, for every   *)
(* set of at least two nodes.  The inductive invariant KeygenInv says what *)
(* the length of each vector stands for: who deals has everybody's         *)
(* commitments, its own among them, and who sums has everybody's share.    *)
(***************************************************************************)
EXTENDS Comparison, SetupProofs

FlagMsg(n)     == Msg("NodeSetupPhaseFinishFlag", n, Reg)
StartMsg(n)    == Msg("RegulatorKeyGenPhaseOneBroadcastMsg", Reg, n)
ComMsg(m, n)   == Msg("NodeKeyGenPhaseOneBroadcastMsg", m, n)
ShareMsg(m, n) == Msg("NodeToNodeKeyGenPhaseTwoP2PMsg", m, n)
SumMsg(n)      == Msg("NodeToRegulatorKeyGenPhaseFiveP2PMsg", n, Reg)

HasDealt(n) == share[n] # Zero
Full(n)     == vec_B[n] = Node \ {n}

TypeInv ==
  /\ finish_vec \in SUBSET Node /\ vec_five \in SUBSET Node /\ panicked \in SUBSET Node
  /\ vec_A \in [Node -> SUBSET Node] /\ vec_B \in [Node -> SUBSET Node]
  /\ M \in [Node -> SUBSET Node]
  /\ share \in [Node -> [Node -> Nat]] /\ xi \in [Node -> [Node -> Nat]]

\* The key generation begins once, when everybody has a number.
StartInv ==
  \A n \in Node :
    /\ FlagMsg(n) \in msgs => id[n] # 0 /\ n \notin finish_vec
    /\ n \in finish_vec => id[n] # 0
    /\ StartMsg(n) \in msgs => finish_vec = Node /\ n \notin vec_A[n]
    /\ n \in vec_A[n] => finish_vec = Node

\* Commitments come from nodes that have begun, and are handled once.
CommitInv ==
  \A m, n \in Node :
    /\ ComMsg(m, n) \in msgs => m # n /\ m \in vec_A[m] /\ m \notin vec_A[n]
    /\ m \in vec_A[n] => m \in vec_A[m]

\* Shares come from nodes that have dealt, and are handled once; who has dealt
\* had everybody's commitments.
ShareInv ==
  /\ \A m, n \in Node :
       /\ ShareMsg(m, n) \in msgs => m # n /\ HasDealt(m) /\ m \notin vec_B[n]
       /\ m \in vec_B[n] => m # n /\ HasDealt(m)
  /\ \A n \in Node : /\ HasDealt(n) => vec_A[n] = Node
                     /\ M[n] = IF HasDealt(n) THEN Node ELSE {}

\* The sum of n: its own share at most, everybody's share, or the panic.
SumInv ==
  \A n \in Node :
    /\ share[n] \in {Zero, One(n), Complete}
    /\ n \in panicked => Full(n)
    /\ ~Full(n) \/ n \in panicked => share[n] # Complete /\ xi[n] = Zero
    /\ Full(n) /\ n \notin panicked => share[n] = Complete /\ xi[n] = Complete

\* The regulator has the sums of nodes that have finished.
VerdictInv ==
  /\ \A n \in Node : /\ SumMsg(n) \in msgs => xi[n] = Complete /\ n \notin vec_five
                     /\ n \in vec_five => xi[n] = Complete
  /\ verdict = IF vec_five = Node THEN "equal" ELSE ""

KeygenInv == SetupInv /\ TypeInv /\ StartInv /\ CommitInv /\ ShareInv /\ SumInv /\ VerdictInv

----------------------------------------------------------------------------
\* Sums of dealers.
LEMMA Sums ==
  /\ Zero \in [Node -> Nat] /\ Complete \in [Node -> Nat] /\ Complete # Zero
  /\ \A n \in Node : /\ One(n) \in [Node -> Nat]
                     /\ One(n) # Zero /\ One(n) # Complete
                     /\ Plus(One(n), Node \ {n}) = Complete
<1>1. /\ Zero \in [Node -> Nat] /\ Complete \in [Node -> Nat]
      /\ \A n \in Node : One(n) \in [Node -> Nat]
  BY DEF Zero, Complete, One
<1>2. ASSUME NEW n \in Node
      PROVE  /\ One(n) # Zero /\ One(n) # Complete /\ Complete # Zero
             /\ Plus(One(n), Node \ {n}) = Complete
  <2>1. PICK m \in Node : m # n
    BY TwoNodes
  <2>2. /\ Zero[n] = 0 /\ Complete[n] = 1 /\ Complete[m] = 1
        /\ One(n)[n] = 1 /\ One(n)[m] = 0
    BY <2>1 DEF Zero, Complete, One
  <2>3. Plus(One(n), Node \ {n}) = Complete
    BY DEF Plus, One, Complete
  <2> QED BY <2>2, <2>3
<1> QED BY <1>1, <1>2, TwoNodes

\* The lengths that trigger: everybody, and everybody else.
LEMMA Triggers ==
  /\ \A D \in SUBSET Node : Cardinality(D) = share_counts <=> D = Node
  /\ \A n \in Node : \A D \in SUBSET (Node \ {n}) : LastShare(D) <=> D = Node \ {n}
<1>1. \A D \in SUBSET Node : Cardinality(D) = share_counts <=> D = Node
  BY NodeAssumption, FS_Subset DEF share_counts
<1>2. ASSUME NEW n \in Node, NEW D \in SUBSET (Node \ {n})
      PROVE  LastShare(D) <=> D = Node \ {n}
  <2>1. /\ IsFiniteSet(Node \ {n})
        /\ Cardinality(Node \ {n}) = share_counts - 1
    BY NodeAssumption, FS_RemoveElement DEF share_counts
  <2> QED BY <2>1, FS_Subset DEF LastShare
<1> QED BY <1>1, <1>2

\* A node with a number reaches everybody else.
LEMMA PeersOfNumbered ==
  ASSUME SetupInv, NEW n \in Node, id[n] # 0
  PROVE  Peers(id[n]) = Node \ {n}
<1>1. id[n] \in DOMAIN node_info_vec /\ node_info_vec[id[n]] = n /\ SetupTypeOK
  BY DEF SetupInv, IdsAgree
<1>2. node_info_vec # << >>
  BY <1>1, EmptySeq
<1> QED BY <1>1, <1>2, ListFacts, PeersAll

LEMMA InitInv == Init => KeygenInv
<1> SUFFICES ASSUME Init PROVE KeygenInv
  OBVIOUS
<1> USE DEF Init, SetupInit
<1>1. SetupInv
  BY SetupInitInv
<1>2. TypeInv
  BY Sums DEF TypeInv
<1>3. StartInv /\ CommitInv /\ ShareInv
  BY DEF StartInv, CommitInv, ShareInv, HasDealt
<1>4. SumInv
  <2>1. ASSUME NEW n \in Node PROVE ~Full(n)
    <3>1. Node \ {n} # {} /\ vec_B[n] = {}
      BY TwoNodes
    <3> QED BY <3>1 DEF Full
  <2> QED BY <2>1, Sums DEF SumInv
<1>5. VerdictInv
  BY TwoNodes DEF VerdictInv
<1> QED BY <1>1, <1>2, <1>3, <1>4, <1>5 DEF KeygenInv

----------------------------------------------------------------------------
\* Registration leaves the key generation alone.
LEMMA RegistrationPreserves ==
  ASSUME KeygenInv, SetupNext, UNCHANGED keygenVars
  PROVE  KeygenInv'
<1>1. SetupInv'
  BY SetupStep DEF KeygenInv
<1>2. \A x \in msgs' : x \in msgs \/ \E n : x = RegMsg(n) \/ x = ListMsg(n)
  <2>1. CASE RegulatorStart
    BY <2>1 DEF RegulatorStart
  <2>2. ASSUME NEW n \in Node, NodeStart(n)
        PROVE  \A x \in msgs' : x \in msgs \/ x = RegMsg(n)
    BY <2>2 DEF NodeStart, RegMsg
  <2>3. ASSUME NEW n \in Node, HandleRegistration(n)
        PROVE  \A x \in msgs' : x \in msgs \/ \E k : x = ListMsg(k)
    BY <2>3 DEF HandleRegistration, Handle, ListMsg
  <2> QED BY <2>1, <2>2, <2>3 DEF SetupNext
<1>3. \A m, n \in Node : /\ FlagMsg(n) \in msgs' => FlagMsg(n) \in msgs
                         /\ StartMsg(n) \in msgs' => StartMsg(n) \in msgs
                         /\ ComMsg(m, n) \in msgs' => ComMsg(m, n) \in msgs
                         /\ ShareMsg(m, n) \in msgs' => ShareMsg(m, n) \in msgs
                         /\ SumMsg(n) \in msgs' => SumMsg(n) \in msgs
  BY <1>2, MsgEqual DEF FlagMsg, StartMsg, ComMsg, ShareMsg, SumMsg, RegMsg, ListMsg
<1>4. id' = id
  BY DEF SetupNext, RegulatorStart, NodeStart, HandleRegistration
<1>5. UNCHANGED <<finish_vec, vec_A, vec_B, M, share, xi, vec_five, verdict, panicked>>
  BY DEF keygenVars
<1>6. TypeInv' /\ SumInv'
  BY <1>5 DEF KeygenInv, TypeInv, SumInv, Full, Zero, One, Complete
<1>7. StartInv' /\ CommitInv'
  BY <1>3, <1>4, <1>5 DEF KeygenInv, StartInv, CommitInv, FlagMsg, StartMsg, ComMsg, Msg
<1>8. ShareInv' /\ VerdictInv'
  BY <1>3, <1>5 DEF KeygenInv, ShareInv, VerdictInv, HasDealt, Zero, Complete, ShareMsg, SumMsg, Msg
<1> QED BY <1>1, <1>6, <1>7, <1>8 DEF KeygenInv

\* Taking the list: the flag of n, which had no number before.
LEMMA SetupBroadcastPreserves ==
  ASSUME KeygenInv, NEW n \in Node, HandleSetupBroadcast(n)
  PROVE  KeygenInv'
<1>1. /\ TakeList(n, {Reg})
      /\ UNCHANGED <<finish_vec, vec_A, vec_B, M, share, xi, vec_five, verdict, panicked>>
  BY DEF HandleSetupBroadcast, keygenVars
<1>2. SetupInv' /\ id[n] = 0 /\ id'[n] # 0
  BY <1>1, TakeListStep DEF KeygenInv, Process
<1>3. /\ id' = [id EXCEPT ![n] = IdIn(node_info_vec, n)]
      /\ id \in [Node -> 0 .. share_counts]
      /\ \A x \in msgs' : x \in msgs \/ x = FlagMsg(n)
  BY <1>1 DEF TakeList, Handle, FlagMsg, KeygenInv, SetupInv, SetupTypeOK
<1>4. \A p, q \in Node : /\ FlagMsg(p) \in msgs' => FlagMsg(p) \in msgs \/ p = n
                         /\ StartMsg(p) \in msgs' => StartMsg(p) \in msgs
                         /\ ComMsg(p, q) \in msgs' => ComMsg(p, q) \in msgs
                         /\ ShareMsg(p, q) \in msgs' => ShareMsg(p, q) \in msgs
                         /\ SumMsg(p) \in msgs' => SumMsg(p) \in msgs
  BY <1>3, MsgEqual DEF FlagMsg, StartMsg, ComMsg, ShareMsg, SumMsg
<1>5. TypeInv' /\ SumInv'
  BY <1>1 DEF KeygenInv, TypeInv, SumInv, Full, Zero, One, Complete
<1>6. StartInv'
  <2>1. \A p \in Node : id[p] # 0 => id'[p] # 0
    BY <1>2, <1>3
  <2>2. n \notin finish_vec
    BY <1>2 DEF KeygenInv, StartInv
  <2>3. ASSUME NEW p \in Node
        PROVE  /\ FlagMsg(p) \in msgs' => id'[p] # 0 /\ p \notin finish_vec
               /\ p \in finish_vec => id'[p] # 0
               /\ StartMsg(p) \in msgs' => finish_vec = Node /\ p \notin vec_A[p]
               /\ p \in vec_A[p] => finish_vec = Node
    BY <1>2, <1>4, <2>1, <2>2 DEF KeygenInv, StartInv
  <2> QED BY <1>1, <2>3 DEF StartInv, FlagMsg, StartMsg, Msg
<1>7. CommitInv'
  BY <1>1, <1>4 DEF KeygenInv, CommitInv, ComMsg, Msg
<1>8. ShareInv' /\ VerdictInv'
  BY <1>1, <1>4 DEF KeygenInv, ShareInv, VerdictInv, HasDealt, Zero, Complete, ShareMsg, SumMsg, Msg
<1> QED BY <1>2, <1>5, <1>6, <1>7, <1>8 DEF KeygenInv

\* A flag at the regulator: the last one starts every node, none of which has
\* begun.
LEMMA FinishFlagPreserves ==
  ASSUME KeygenInv, NEW n \in Node, HandleFinishFlag(n)
  PROVE  KeygenInv'
<1> DEFINE vec == finish_vec \cup {n}
           out == IF Cardinality(vec) = share_counts
                  THEN {StartMsg(m) : m \in Listed(node_info_vec)} ELSE {}
<1>1. /\ FlagMsg(n) \in msgs
      /\ msgs' = (msgs \ {FlagMsg(n)}) \cup out
      /\ finish_vec' = vec
      /\ UNCHANGED <<regUp, started, setup_msg_vec, node_info_vec, id,
                     vec_A, vec_B, M, share, xi, vec_five, verdict, panicked>>
  BY DEF HandleFinishFlag, Handle, FlagMsg, StartMsg
<1>2. id[n] # 0 /\ n \notin finish_vec /\ vec \in SUBSET Node
  BY <1>1 DEF KeygenInv, StartInv, TypeInv
<1>3. Cardinality(vec) = share_counts <=> vec = Node
  BY <1>2, Triggers
<1>4. \A p, q \in Node : /\ FlagMsg(p) \in msgs' => FlagMsg(p) \in msgs /\ p # n
                         /\ StartMsg(p) \in msgs' => StartMsg(p) \in msgs \/ vec = Node
                         /\ ComMsg(p, q) \in msgs' => ComMsg(p, q) \in msgs
                         /\ ShareMsg(p, q) \in msgs' => ShareMsg(p, q) \in msgs
                         /\ SumMsg(p) \in msgs' => SumMsg(p) \in msgs
                         /\ RegMsg(p) \in msgs' => RegMsg(p) \in msgs
                         /\ ListMsg(p) \in msgs' => ListMsg(p) \in msgs
  BY <1>1, <1>3, MsgEqual
  DEF FlagMsg, StartMsg, ComMsg, ShareMsg, SumMsg, RegMsg, ListMsg
<1>5. SetupInv'
  BY <1>1, <1>4, SetupFrame DEF KeygenInv
<1>6. TypeInv' /\ SumInv'
  BY <1>1, <1>2 DEF KeygenInv, TypeInv, SumInv, Full, Zero, One, Complete
<1>7. StartInv'
  <2>1. \A p \in Node : p \notin vec_A[p] /\ StartMsg(p) \notin msgs
    BY <1>2 DEF KeygenInv, StartInv
  <2>2. ASSUME NEW p \in Node
        PROVE  /\ FlagMsg(p) \in msgs' => id[p] # 0 /\ p \notin vec
               /\ p \in vec => id[p] # 0
               /\ StartMsg(p) \in msgs' => vec = Node /\ p \notin vec_A[p]
    BY <1>2, <1>4, <2>1 DEF KeygenInv, StartInv
  <2> QED BY <1>1, <2>1, <2>2 DEF StartInv, FlagMsg, StartMsg, Msg
<1>8. CommitInv'
  BY <1>1, <1>4 DEF KeygenInv, CommitInv, ComMsg, Msg
<1>9. ShareInv' /\ VerdictInv'
  BY <1>1, <1>4 DEF KeygenInv, ShareInv, VerdictInv, HasDealt, Zero, Complete, ShareMsg, SumMsg, Msg
<1> QED BY <1>5, <1>6, <1>7, <1>8, <1>9 DEF KeygenInv

\* The start at n, which pushes its own commitments.
LEMMA StartPreserves ==
  ASSUME KeygenInv, NEW n \in Node, HandleStart(n)
  PROVE  KeygenInv'
<1>1. /\ StartMsg(n) \in msgs
      /\ msgs' = (msgs \ {StartMsg(n)}) \cup {ComMsg(n, q) : q \in Peers(id[n])}
      /\ vec_A' = [vec_A EXCEPT ![n] = @ \cup {n}]
      /\ UNCHANGED <<regUp, started, setup_msg_vec, node_info_vec, id,
                     finish_vec, vec_B, M, share, xi, vec_five, verdict, panicked>>
  BY DEF HandleStart, Handle, keygen_phase_one, StartMsg, ComMsg
<1>2. /\ finish_vec = Node /\ n \notin vec_A[n]
      /\ vec_A \in [Node -> SUBSET Node]
  BY <1>1 DEF KeygenInv, StartInv, TypeInv
<1>3. Peers(id[n]) = Node \ {n}
  BY <1>2, PeersOfNumbered DEF KeygenInv, StartInv
<1>4. \A p, q \in Node : /\ FlagMsg(p) \in msgs' => FlagMsg(p) \in msgs
                         /\ StartMsg(p) \in msgs' => StartMsg(p) \in msgs /\ p # n
                         /\ ComMsg(p, q) \in msgs' => ComMsg(p, q) \in msgs \/ (p = n /\ q # n)
                         /\ ShareMsg(p, q) \in msgs' => ShareMsg(p, q) \in msgs
                         /\ SumMsg(p) \in msgs' => SumMsg(p) \in msgs
                         /\ RegMsg(p) \in msgs' => RegMsg(p) \in msgs
                         /\ ListMsg(p) \in msgs' => ListMsg(p) \in msgs
  BY <1>1, <1>3, MsgEqual
  DEF FlagMsg, StartMsg, ComMsg, ShareMsg, SumMsg, RegMsg, ListMsg
<1>5. SetupInv'
  BY <1>1, <1>4, SetupFrame DEF KeygenInv
<1>6. TypeInv' /\ SumInv'
  BY <1>1, <1>2 DEF KeygenInv, TypeInv, SumInv, Full, Zero, One, Complete
<1>7. StartInv'
  BY <1>1, <1>2, <1>4 DEF KeygenInv, StartInv, FlagMsg, StartMsg, Msg
<1>8. CommitInv'
  <2>1. \A q \in Node : n \notin vec_A[q]
    BY <1>2 DEF KeygenInv, CommitInv
  <2>2. ASSUME NEW p \in Node, NEW q \in Node
        PROVE  /\ ComMsg(p, q) \in msgs' => p # q /\ p \in vec_A'[p] /\ p \notin vec_A'[q]
               /\ p \in vec_A'[q] => p \in vec_A'[p]
    BY <1>1, <1>2, <1>4, <2>1 DEF KeygenInv, CommitInv
  <2> QED BY <2>2 DEF CommitInv, ComMsg, Msg
<1>9. ShareInv'
  <2>1. \A p \in Node : vec_A[p] = Node => vec_A'[p] = Node
    BY <1>1, <1>2
  <2> QED BY <1>1, <1>4, <2>1 DEF KeygenInv, ShareInv, HasDealt, Zero, ShareMsg, Msg
<1>10. VerdictInv'
  BY <1>1, <1>4 DEF KeygenInv, VerdictInv, Complete, SumMsg, Msg
<1> QED BY <1>5, <1>6, <1>7, <1>8, <1>9, <1>10 DEF KeygenInv

\* Commitments of m at n: the last ones let n deal, for the first time, if its
\* own were not the last.
LEMMA PhaseOnePreserves ==
  ASSUME KeygenInv, NEW n \in Node, NEW m \in Node, HandlePhaseOne(n, m)
  PROVE  KeygenInv'
<1> DEFINE vec   == vec_A[n] \cup {m}
           deals == Cardinality(vec) = share_counts
           out   == IF deals THEN {ShareMsg(n, q) : q \in Peers(id[n])} ELSE {}
<1>1. /\ ComMsg(m, n) \in msgs
      /\ msgs' = (msgs \ {ComMsg(m, n)}) \cup out
      /\ vec_A' = [vec_A EXCEPT ![n] = vec]
      /\ M' = IF deals THEN [M EXCEPT ![n] = vec] ELSE M
      /\ share' = IF deals THEN [share EXCEPT ![n] = One(n)] ELSE share
      /\ UNCHANGED <<regUp, started, setup_msg_vec, node_info_vec, id,
                     finish_vec, vec_B, xi, vec_five, verdict, panicked>>
  BY DEF HandlePhaseOne, Handle, Dealt, keygen_phase_two, ComMsg, ShareMsg
<1>2. /\ m # n /\ m \in vec_A[m] /\ m \notin vec_A[n]
      /\ vec_A \in [Node -> SUBSET Node] /\ vec \in SUBSET Node
      /\ M \in [Node -> SUBSET Node]
      /\ share \in [Node -> [Node -> Nat]]
  BY <1>1 DEF KeygenInv, CommitInv, TypeInv
<1>3. /\ deals <=> vec = Node
      /\ ~HasDealt(n)
      /\ Full(n) => n \in panicked
  <2>1. ~HasDealt(n)
    BY <1>2 DEF KeygenInv, ShareInv
  <2> QED BY <1>2, <2>1, Triggers, Sums DEF KeygenInv, SumInv, HasDealt
<1>4. deals => n \in vec_A[n] /\ Peers(id[n]) = Node \ {n}
  <2>1. deals => n \in vec_A[n]
    BY <1>2, <1>3
  <2> QED BY <2>1, PeersOfNumbered DEF KeygenInv, StartInv
<1>5. \A p, q \in Node :
        /\ FlagMsg(p) \in msgs' => FlagMsg(p) \in msgs
        /\ StartMsg(p) \in msgs' => StartMsg(p) \in msgs
        /\ ComMsg(p, q) \in msgs' => ComMsg(p, q) \in msgs /\ <<p, q>> # <<m, n>>
        /\ ShareMsg(p, q) \in msgs' => ShareMsg(p, q) \in msgs \/ (deals /\ p = n /\ q # n)
        /\ SumMsg(p) \in msgs' => SumMsg(p) \in msgs
        /\ RegMsg(p) \in msgs' => RegMsg(p) \in msgs
        /\ ListMsg(p) \in msgs' => ListMsg(p) \in msgs
  BY <1>1, <1>4, MsgEqual
  DEF FlagMsg, StartMsg, ComMsg, ShareMsg, SumMsg, RegMsg, ListMsg
<1>6. SetupInv'
  BY <1>1, <1>5, SetupFrame DEF KeygenInv
<1>7. TypeInv'
  BY <1>1, <1>2, Sums DEF KeygenInv, TypeInv
<1>8. StartInv'
  BY <1>1, <1>2, <1>5 DEF KeygenInv, StartInv, FlagMsg, StartMsg, Msg
<1>9. CommitInv'
  <2>1. \A p \in Node : p \in vec_A[p] => p \in vec_A'[p]
    BY <1>1, <1>2
  <2>2. ASSUME NEW p \in Node, NEW q \in Node
        PROVE  /\ ComMsg(p, q) \in msgs' => p # q /\ p \in vec_A'[p] /\ p \notin vec_A'[q]
               /\ p \in vec_A'[q] => p \in vec_A'[p]
    BY <1>1, <1>2, <1>5, <2>1 DEF KeygenInv, CommitInv
  <2> QED BY <2>2 DEF CommitInv, ComMsg, Msg
<1>10. \A p \in Node : HasDealt(p)' <=> HasDealt(p) \/ (deals /\ p = n)
  BY <1>1, <1>2, Sums DEF HasDealt, Zero
<1>11. ShareInv'
  <2>1. ASSUME NEW p \in Node, NEW q \in Node
        PROVE  /\ ShareMsg(p, q) \in msgs' => p # q /\ HasDealt(p)' /\ p \notin vec_B[q]
               /\ p \in vec_B[q] => p # q /\ HasDealt(p)'
    <3>1. /\ ShareMsg(p, q) \in msgs => p # q /\ HasDealt(p) /\ p \notin vec_B[q]
          /\ p \in vec_B[q] => p # q /\ HasDealt(p)
      BY DEF KeygenInv, ShareInv
    <3> QED BY <1>3, <1>5, <1>10, <3>1
  <2>2. ASSUME NEW p \in Node
        PROVE  /\ HasDealt(p)' => vec_A'[p] = Node
               /\ M'[p] = IF HasDealt(p)' THEN Node ELSE {}
    BY <1>1, <1>2, <1>3, <1>10 DEF KeygenInv, ShareInv
  <2> QED BY <1>1, <2>1, <2>2 DEF ShareInv, ShareMsg, Msg
<1>12. SumInv'
  <2>1. ASSUME NEW p \in Node
        PROVE  /\ share'[p] \in {Zero, One(p), Complete}
               /\ p \in panicked => Full(p)
               /\ ~Full(p) \/ p \in panicked => share'[p] # Complete /\ xi[p] = Zero
               /\ Full(p) /\ p \notin panicked => share'[p] = Complete /\ xi[p] = Complete
    BY <1>1, <1>2, <1>3, Sums DEF KeygenInv, SumInv
  <2> QED BY <1>1, <2>1 DEF SumInv, Full, Zero, One, Complete
<1>13. VerdictInv'
  BY <1>1, <1>5 DEF KeygenInv, VerdictInv, Complete, SumMsg, Msg
<1> QED BY <1>6, <1>7, <1>8, <1>9, <1>11, <1>12, <1>13 DEF KeygenInv

\* A share of m at n: the last one lets n sum, or ends in a panic.
LEMMA SharePreserves ==
  ASSUME KeygenInv, NEW n \in Node, NEW m \in Node, HandleShare(n, m)
  PROVE  KeygenInv'
<1> DEFINE vec  == vec_B[n] \cup {m}
           last == vec = Node \ {n}
           sums == last /\ HasDealt(n)
           out  == IF sums THEN {SumMsg(n)} ELSE {}
<1>1. /\ ShareMsg(m, n) \in msgs
      /\ m # n /\ HasDealt(m) /\ m \notin vec_B[n]
      /\ vec \in SUBSET (Node \ {n}) /\ ~Full(n)
      /\ vec_B \in [Node -> SUBSET Node]
      /\ share \in [Node -> [Node -> Nat]] /\ xi \in [Node -> [Node -> Nat]]
      /\ panicked \in SUBSET Node
  <2>1. ShareMsg(m, n) \in msgs
    BY DEF HandleShare, Handle, ShareMsg
  <2> QED BY <2>1 DEF KeygenInv, ShareInv, TypeInv, Full
<1>2. LastShare(vec) <=> last
  BY <1>1, Triggers
<1>3. /\ n \notin panicked /\ share[n] \in {Zero, One(n)} /\ xi[n] = Zero
      /\ n \notin vec_five /\ SumMsg(n) \notin msgs
  BY <1>1, Sums DEF KeygenInv, SumInv, VerdictInv
<1>4. /\ msgs' = (msgs \ {ShareMsg(m, n)}) \cup out
      /\ vec_B' = [vec_B EXCEPT ![n] = vec]
      /\ share' = IF sums THEN [share EXCEPT ![n] = Plus(@, vec)] ELSE share
      /\ xi' = IF sums THEN [xi EXCEPT ![n] = share'[n]] ELSE xi
      /\ panicked' = IF last /\ ~sums THEN panicked \cup {n} ELSE panicked
      /\ UNCHANGED <<regUp, started, setup_msg_vec, node_info_vec, id,
                     finish_vec, vec_A, M, vec_five, verdict>>
  <2>1. CASE ~LastShare(vec)
    BY <1>2, <2>1 DEF HandleShare, Handle, ShareMsg, SumMsg
  <2>2. CASE LastShare(vec) /\ ~Unwraps(share[n])
    BY <1>2, <2>2 DEF HandleShare, Handle, Unwraps, HasDealt, ShareMsg, SumMsg
  <2>3. CASE LastShare(vec) /\ Unwraps(share[n])
    BY <1>2, <2>3 DEF HandleShare, Handle, Unwraps, HasDealt, keygen_phase_four, ShareMsg, SumMsg
  <2> QED BY <2>1, <2>2, <2>3
<1>5. sums => share'[n] = Complete /\ xi'[n] = Complete
  <2>1. sums => share[n] = One(n) /\ vec = Node \ {n}
    BY <1>3 DEF HasDealt
  <2> QED BY <1>1, <1>4, <2>1, Sums
<1>6. \A p \in Node : p # n \/ ~sums => share'[p] = share[p] /\ xi'[p] = xi[p]
  BY <1>1, <1>4
<1>7. \A p, q \in Node :
        /\ FlagMsg(p) \in msgs' => FlagMsg(p) \in msgs
        /\ StartMsg(p) \in msgs' => StartMsg(p) \in msgs
        /\ ComMsg(p, q) \in msgs' => ComMsg(p, q) \in msgs
        /\ ShareMsg(p, q) \in msgs' => ShareMsg(p, q) \in msgs /\ <<p, q>> # <<m, n>>
        /\ SumMsg(p) \in msgs' => SumMsg(p) \in msgs \/ (sums /\ p = n)
        /\ RegMsg(p) \in msgs' => RegMsg(p) \in msgs
        /\ ListMsg(p) \in msgs' => ListMsg(p) \in msgs
  BY <1>4, MsgEqual
  DEF FlagMsg, StartMsg, ComMsg, ShareMsg, SumMsg, RegMsg, ListMsg
<1>8. SetupInv'
  BY <1>4, <1>7, SetupFrame DEF KeygenInv
<1>9. TypeInv'
  <2>1. share' \in [Node -> [Node -> Nat]] /\ xi' \in [Node -> [Node -> Nat]]
    BY <1>1, <1>4, <1>5, Sums
  <2>2. vec_B' \in [Node -> SUBSET Node] /\ panicked' \in SUBSET Node
    BY <1>1, <1>4
  <2> QED BY <1>4, <2>1, <2>2 DEF KeygenInv, TypeInv
<1>10. StartInv' /\ CommitInv'
  BY <1>4, <1>7 DEF KeygenInv, StartInv, CommitInv, FlagMsg, StartMsg, ComMsg, Msg
<1>11. \A p \in Node : HasDealt(p)' <=> HasDealt(p)
  <2>1. Zero' = Zero
    BY DEF Zero
  <2> QED BY <1>5, <1>6, <2>1, Sums DEF HasDealt
<1>12. ShareInv'
  <2>1. ASSUME NEW p \in Node, NEW q \in Node
        PROVE  /\ ShareMsg(p, q) \in msgs' => p # q /\ HasDealt(p)' /\ p \notin vec_B'[q]
               /\ p \in vec_B'[q] => p # q /\ HasDealt(p)'
    <3>1. /\ ShareMsg(p, q) \in msgs => p # q /\ HasDealt(p) /\ p \notin vec_B[q]
          /\ p \in vec_B[q] => p # q /\ HasDealt(p)
      BY DEF KeygenInv, ShareInv
    <3> QED BY <1>1, <1>4, <1>7, <1>11, <3>1
  <2> QED BY <1>4, <1>11, <2>1 DEF KeygenInv, ShareInv, ShareMsg, Msg
<1>13. SumInv'
  <2>1. \A p \in Node : Full(p)' <=> IF p = n THEN last ELSE Full(p)
    BY <1>1, <1>4 DEF Full
  <2>2. \A p \in Node : p \in panicked' <=> p \in panicked \/ (p = n /\ last /\ ~sums)
    BY <1>4
  <2>3. ASSUME NEW p \in Node, p # n
        PROVE  /\ share'[p] \in {Zero, One(p), Complete}
               /\ p \in panicked' => Full(p)'
               /\ ~Full(p)' \/ p \in panicked' => share'[p] # Complete /\ xi'[p] = Zero
               /\ Full(p)' /\ p \notin panicked' => share'[p] = Complete /\ xi'[p] = Complete
    BY <1>6, <2>1, <2>2, <2>3 DEF KeygenInv, SumInv
  <2>4. /\ share'[n] \in {Zero, One(n), Complete}
        /\ n \in panicked' => Full(n)'
        /\ ~Full(n)' \/ n \in panicked' => share'[n] # Complete /\ xi'[n] = Zero
        /\ Full(n)' /\ n \notin panicked' => share'[n] = Complete /\ xi'[n] = Complete
    BY <1>3, <1>5, <1>6, <2>1, <2>2, Sums
  <2>5. Zero' = Zero /\ Complete' = Complete /\ \A p \in Node : One(p)' = One(p)
    BY DEF Zero, Complete, One
  <2> QED BY <2>3, <2>4, <2>5 DEF SumInv
<1>14. VerdictInv'
  <2>1. Complete' = Complete
    BY DEF Complete
  <2>2. \A p \in Node : xi[p] = Complete => xi'[p] = Complete
    BY <1>5, <1>6
  <2>3. ASSUME NEW p \in Node
        PROVE  /\ SumMsg(p) \in msgs' => xi'[p] = Complete /\ p \notin vec_five
               /\ p \in vec_five => xi'[p] = Complete
    BY <1>3, <1>5, <1>7, <2>2 DEF KeygenInv, VerdictInv
  <2> QED BY <1>4, <2>1, <2>3 DEF KeygenInv, VerdictInv, SumMsg, Msg
<1> QED BY <1>8, <1>9, <1>10, <1>12, <1>13, <1>14 DEF KeygenInv

\* A sum at the regulator: on the last one it compares.
LEMMA PhaseFivePreserves ==
  ASSUME KeygenInv, NEW n \in Node, HandlePhaseFive(n)
  PROVE  KeygenInv'
<1> DEFINE vec == vec_five \cup {n}
<1>1. /\ SumMsg(n) \in msgs
      /\ msgs' = msgs \ {SumMsg(n)}
      /\ vec_five' = vec
      /\ verdict' = IF Cardinality(vec) = share_counts THEN keygen_phase_five(vec) ELSE verdict
      /\ UNCHANGED <<regUp, started, setup_msg_vec, node_info_vec, id,
                     finish_vec, vec_A, vec_B, M, share, xi, panicked>>
  BY DEF HandlePhaseFive, Handle, SumMsg
<1>2. /\ n \notin vec_five /\ xi[n] = Complete
      /\ vec \in SUBSET Node
      /\ \A p \in vec : xi[p] = Complete
  BY <1>1 DEF KeygenInv, VerdictInv, TypeInv
<1>3. verdict' = IF vec = Node THEN "equal" ELSE ""
  <2>1. Cardinality(vec) = share_counts <=> vec = Node
    BY <1>2, Triggers
  <2>2. verdict = ""
    BY <1>2 DEF KeygenInv, VerdictInv
  <2> QED BY <1>1, <1>2, <2>1, <2>2 DEF keygen_phase_five
<1>4. SetupInv'
  BY <1>1, SetupFrame DEF KeygenInv
<1>5. TypeInv' /\ SumInv'
  BY <1>1, <1>2 DEF KeygenInv, TypeInv, SumInv, Full, Zero, One, Complete
<1>6. StartInv' /\ CommitInv'
  BY <1>1 DEF KeygenInv, StartInv, CommitInv, FlagMsg, StartMsg, ComMsg, Msg
<1>7. ShareInv'
  BY <1>1 DEF KeygenInv, ShareInv, HasDealt, Zero, ShareMsg, Msg
<1>8. VerdictInv'
  <2>1. Complete' = Complete /\ \A p \in Node : SumMsg(p) \in msgs' => p # n
    BY <1>1 DEF Complete
  <2> QED BY <1>1, <1>2, <1>3, <2>1 DEF KeygenInv, VerdictInv, SumMsg, Msg
<1> QED BY <1>4, <1>5, <1>6, <1>7, <1>8 DEF KeygenInv

----------------------------------------------------------------------------
LEMMA Inductive == KeygenInv /\ [Next]_vars => KeygenInv'
<1> SUFFICES ASSUME KeygenInv, [Next]_vars PROVE KeygenInv'
  OBVIOUS
<1>1. CASE SetupNext /\ UNCHANGED keygenVars
  BY <1>1, RegistrationPreserves
<1>2. ASSUME NEW n \in Node,
             HandleSetupBroadcast(n) \/ HandleFinishFlag(n) \/ HandleStart(n) \/ HandlePhaseFive(n)
      PROVE  KeygenInv'
  BY <1>2, SetupBroadcastPreserves, FinishFlagPreserves, StartPreserves, PhaseFivePreserves
<1>3. ASSUME NEW n \in Node, NEW m \in Node, HandlePhaseOne(n, m) \/ HandleShare(n, m)
      PROVE  KeygenInv'
  BY <1>3, PhaseOnePreserves, SharePreserves
<1>4. CASE UNCHANGED vars
  <2>1. UNCHANGED <<regUp, started, setup_msg_vec, node_info_vec, id, msgs, finish_vec,
                    vec_A, vec_B, M, share, xi, vec_five, verdict, panicked>>
    BY <1>4 DEF vars, setupVars, keygenVars
  <2>2. SetupInv'
    BY <2>1, SetupFrame DEF KeygenInv, RegMsg, ListMsg, Msg
  <2> QED BY <2>1, <2>2
          DEF KeygenInv, TypeInv, StartInv, CommitInv, ShareInv, SumInv, VerdictInv,
              FlagMsg, StartMsg, ComMsg, ShareMsg, SumMsg, Msg, HasDealt, Full, Zero, One, Complete
<1> QED BY <1>1, <1>2, <1>3, <1>4 DEF Next

\* The inductive invariant of the comparison scheme's key generation holds for
\* any group of at least two nodes.
THEOREM Invariance == Spec => []KeygenInv
<1> QED BY InitInv, Inductive, PTL DEF Spec

\* What the regulator verifies in keygen_phase_five is so for any number of
\* nodes and any order of the messages (KeyReconstructs).
THEOREM Reconstruction == Spec => []KeyReconstructs
<1>1. KeygenInv => KeyReconstructs
  BY DEF KeygenInv, ShareInv, SumInv, VerdictInv, KeyReconstructs
<1> QED BY <1>1, Invariance, PTL

\* No node finishes before all have dealt, whatever the number of nodes: one
\* that missed its trigger holds up all others, and one that panicked holds up
\* the regulator (FinishAfterAllDealt).
THEOREM DealingBarrier == Spec => []FinishAfterAllDealt
<1>1. ASSUME KeygenInv PROVE FinishAfterAllDealt
  <2>1. ASSUME NEW n \in Node, xi[n] # Zero, NEW m \in Node
        PROVE  M[m] = Node
    <3>1. Full(n) /\ share[n] = Complete
      BY <1>1, <2>1 DEF KeygenInv, SumInv
    <3>2. m # n => m \in vec_B[n]
      BY <3>1 DEF Full
    <3> QED BY <1>1, <3>1, <3>2, Sums DEF KeygenInv, ShareInv, HasDealt
  <2>2. (\E n \in Node : Missed(n)) => \A n \in Node : xi[n] = Zero
    BY <2>1, TwoNodes DEF Missed
  <2>3. panicked # {} => verdict = ""
    <3>1. ASSUME NEW n \in panicked PROVE n \in Node /\ n \notin vec_five
      BY <1>1, Sums DEF KeygenInv, TypeInv, SumInv, VerdictInv
    <3> QED BY <1>1, <3>1 DEF KeygenInv, VerdictInv
  <2> QED BY <2>1, <2>2, <2>3 DEF FinishAfterAllDealt
<1> QED BY <1>1, Invariance, PTL
=============================================================================
