---------------------------- MODULE SetupProofs ----------------------------
(***************************************************************************)
(* Facts about registration, proved for every set of nodes: what the list  *)
(* and the numbers look like, and an invariant of the registration actions *)
(* that the proofs about both runs build on.                               *)
(***************************************************************************)
EXTENDS Setup, FiniteSetTheorems, SequenceTheorems, TLAPS

NoRepeats(list) == \A i, j \in DOMAIN list : list[i] = list[j] => i = j

RegMsg(n)  == Msg("NodeToRegSetupPhaseP2PMsg", n, Reg)
ListMsg(n) == Msg("RegSetupPhaseBroadcastMsg", Reg, n)

\* Nobody registers twice; the list is what was counted, once that is
\* everybody; a number is taken from the list, and by nobody whose copy of the
\* list is still in flight.
SetupInv ==
  /\ SetupTypeOK
  /\ NoRepeats(setup_msg_vec)
  /\ \A n \in Node : RegMsg(n) \in msgs => n \in started /\ n \notin Listed(setup_msg_vec)
  /\ \A n \in Node : n \in Listed(setup_msg_vec) => n \in started
  /\ node_info_vec = IF Len(setup_msg_vec) = share_counts THEN setup_msg_vec ELSE << >>
  /\ IdsAgree
  /\ \A n \in Node : ListMsg(n) \in msgs => id[n] = 0 /\ node_info_vec # << >>

----------------------------------------------------------------------------
LEMMA CountsType == share_counts \in Nat /\ share_counts >= 2
  BY NodeAssumption, FS_CardinalityType DEF share_counts

\* Every node has somebody to wait for.
LEMMA TwoNodes ==
  /\ \A n \in Node : \E m \in Node : m # n
  /\ \E n \in Node : TRUE
<1>1. ASSUME NEW n \in Node, \A m \in Node : m = n
      PROVE  FALSE
  <2>1. Node = {n}
    BY <1>1
  <2>2. Cardinality({n}) = 1
    BY FS_Singleton
  <2> QED BY <2>1, <2>2, NodeAssumption
<1>2. Node # {}
  BY NodeAssumption, FS_EmptySet
<1> QED BY <1>1, <1>2

\* Messages differ when their types or their ends do.
LEMMA MsgEqual ==
  ASSUME NEW s, NEW p, NEW q, NEW t, NEW x, NEW y, Msg(s, p, q) = Msg(t, x, y)
  PROVE  s = t /\ p = x /\ q = y
<1>1. /\ Msg(s, p, q).type = s /\ Msg(s, p, q).from = p /\ Msg(s, p, q).to = q
      /\ Msg(t, x, y).type = t /\ Msg(t, x, y).from = x /\ Msg(t, x, y).to = y
  BY DEF Msg
<1> QED BY <1>1

\* Appending somebody new keeps a list free of repetitions.
LEMMA AppendNoRepeats ==
  ASSUME NEW list \in Seq(Node), NoRepeats(list), NEW n \in Node, n \notin Listed(list)
  PROVE  /\ Append(list, n) \in Seq(Node)
         /\ NoRepeats(Append(list, n))
         /\ Listed(Append(list, n)) = Listed(list) \cup {n}
         /\ Len(Append(list, n)) = Len(list) + 1
<1> DEFINE new == Append(list, n)
<1>1. /\ new \in Seq(Node) /\ Len(new) = Len(list) + 1
      /\ \A i \in 1 .. Len(list) : new[i] = list[i]
      /\ new[Len(list) + 1] = n
      /\ Len(list) \in Nat
      /\ DOMAIN list = 1 .. Len(list) /\ DOMAIN new = 1 .. Len(list) + 1
  BY LenProperties, AppendProperties
<1>2. NoRepeats(new)
  <2> SUFFICES ASSUME NEW i \in 1 .. Len(list) + 1, NEW j \in 1 .. Len(list) + 1,
                      new[i] = new[j]
               PROVE  i = j
    BY <1>1 DEF NoRepeats
  <2>1. CASE i \in 1 .. Len(list) /\ j \in 1 .. Len(list)
    BY <1>1, <2>1 DEF NoRepeats
  <2>2. CASE i = Len(list) + 1 /\ j \in 1 .. Len(list)
    BY <1>1, <2>2 DEF Listed
  <2>3. CASE j = Len(list) + 1 /\ i \in 1 .. Len(list)
    BY <1>1, <2>3 DEF Listed
  <2> QED BY <1>1, <2>1, <2>2, <2>3
<1>3. Listed(new) = Listed(list) \cup {n}
  <2>1. ASSUME NEW x \in Listed(new) PROVE x \in Listed(list) \cup {n}
    <3>1. PICK i \in 1 .. Len(list) + 1 : x = new[i]
      BY <1>1, <2>1 DEF Listed
    <3> QED BY <1>1, <3>1 DEF Listed
  <2>2. ASSUME NEW x \in Listed(list) PROVE x \in Listed(new)
    BY <1>1, <2>2 DEF Listed
  <2>3. n \in Listed(new)
    BY <1>1 DEF Listed
  <2> QED BY <2>1, <2>2, <2>3
<1> QED BY <1>1, <1>2, <1>3

\* A list of share_counts different nodes lists every node, and a list that
\* misses one is shorter.
LEMMA FullList ==
  ASSUME NEW list \in Seq(Node), NoRepeats(list)
  PROVE  /\ Len(list) = share_counts => Listed(list) = Node
         /\ Len(list) <= share_counts
<1>1. /\ Len(list) \in Nat /\ DOMAIN list = 1 .. Len(list)
      /\ list \in [1 .. Len(list) -> Node]
  BY LenProperties
<1>2. list \in Injection(1 .. Len(list), Node)
  BY <1>1 DEF NoRepeats, Injection, IsInjective
<1>3. IsFiniteSet(1 .. Len(list)) /\ Cardinality(1 .. Len(list)) = Len(list)
  <2>1. Len(list) \in Int /\ 1 \in Int /\ (1 <= Len(list) \/ Len(list) = 0)
    BY <1>1
  <2>2. /\ IsFiniteSet(1 .. Len(list))
        /\ Cardinality(1 .. Len(list)) = IF 1 > Len(list) THEN 0 ELSE Len(list) - 1 + 1
    BY <2>1, FS_Interval, Zenon
  <2> QED BY <2>1, <2>2
<1>4. /\ Len(list) <= share_counts
      /\ Len(list) = share_counts => list \in Surjection(1 .. Len(list), Node)
  BY <1>2, <1>3, FS_Injection, NodeAssumption DEF share_counts
<1>5. ASSUME list \in Surjection(1 .. Len(list), Node)
      PROVE  Listed(list) = Node
  BY <1>1, <1>5 DEF Surjection, Listed
<1> QED BY <1>4, <1>5

\* The number that setup_phase_two takes is the place of the node.
LEMMA IdInPlace ==
  ASSUME NEW list \in Seq(Node), NoRepeats(list), NEW n \in Listed(list)
  PROVE  IdIn(list, n) \in DOMAIN list /\ list[IdIn(list, n)] = n
<1>1. PICK i \in DOMAIN list : list[i] = n
  BY DEF Listed
<1>2. \A j \in DOMAIN list : list[j] = n => j <= i
  BY <1>1, LenProperties DEF NoRepeats
<1> QED BY <1>1, <1>2 DEF IdIn

\* broadcast and to_node reach everybody else.
LEMMA PeersAll ==
  ASSUME SetupTypeOK, NoRepeats(node_info_vec), Listed(node_info_vec) = Node,
         NEW n \in Node, NEW i \in DOMAIN node_info_vec, node_info_vec[i] = n
  PROVE  Peers(i) = Node \ {n}
<1>1. ASSUME NEW m \in Node \ {n} PROVE m \in Peers(i)
  <2>1. PICK j \in DOMAIN node_info_vec : node_info_vec[j] = m
    BY DEF Listed
  <2> QED BY <2>1 DEF Peers
<1>2. ASSUME NEW m \in Peers(i) PROVE m \in Node \ {n}
  <2>1. PICK j \in DOMAIN node_info_vec \ {i} : node_info_vec[j] = m
    BY <1>2 DEF Peers
  <2>2. m \in Node
    BY <2>1 DEF Listed
  <2> QED BY <2>1, <2>2 DEF NoRepeats
<1> QED BY <1>1, <1>2

----------------------------------------------------------------------------
\* What SetupInv says when the list has gone out.
LEMMA ListFacts ==
  ASSUME SetupInv, node_info_vec # << >>
  PROVE  /\ node_info_vec = setup_msg_vec
         /\ NoRepeats(node_info_vec)
         /\ Listed(node_info_vec) = Node
         /\ \A n \in Node : /\ IdIn(node_info_vec, n) \in DOMAIN node_info_vec
                            /\ node_info_vec[IdIn(node_info_vec, n)] = n
                            /\ Peers(IdIn(node_info_vec, n)) = Node \ {n}
                            /\ IdIn(node_info_vec, n) \in 1 .. share_counts
<1>1. /\ node_info_vec = setup_msg_vec /\ Len(node_info_vec) = share_counts
      /\ NoRepeats(node_info_vec) /\ node_info_vec \in Seq(Node)
  BY DEF SetupInv, SetupTypeOK
<1>2. Listed(node_info_vec) = Node
  BY <1>1, FullList
<1>3. \A n \in Node : /\ IdIn(node_info_vec, n) \in DOMAIN node_info_vec
                      /\ node_info_vec[IdIn(node_info_vec, n)] = n
  BY <1>1, <1>2, IdInPlace
<1>4. \A n \in Node : Peers(IdIn(node_info_vec, n)) = Node \ {n}
  BY <1>1, <1>2, <1>3, PeersAll DEF SetupInv
<1>5. DOMAIN node_info_vec = 1 .. share_counts
  BY <1>1, LenProperties
<1> QED BY <1>1, <1>2, <1>3, <1>4, <1>5

LEMMA SetupInitInv == SetupInit => SetupInv
<1> SUFFICES ASSUME SetupInit PROVE SetupInv
  OBVIOUS
<1>1. << >> \in Seq(Node) /\ Len(<< >>) = 0 /\ DOMAIN << >> = {}
  BY EmptySeq
<1>2. Listed(setup_msg_vec) = {}
  BY <1>1 DEF SetupInit, Listed
<1>3. SetupTypeOK
  <2>1. 0 \in 0 .. share_counts
    BY CountsType
  <2>2. id \in [Node -> 0 .. share_counts]
    BY <2>1 DEF SetupInit
  <2> QED BY <1>1, <2>2 DEF SetupInit, SetupTypeOK
<1>4. 0 # share_counts
  BY CountsType
<1> QED BY <1>1, <1>2, <1>3, <1>4 DEF SetupInit, SetupInv, NoRepeats, IdsAgree

\* Steps that leave the registration alone, but for messages of other types.
LEMMA SetupFrame ==
  ASSUME SetupInv, UNCHANGED <<regUp, started, setup_msg_vec, node_info_vec, id>>,
         \A n \in Node : /\ RegMsg(n) \in msgs' => RegMsg(n) \in msgs
                         /\ ListMsg(n) \in msgs' => ListMsg(n) \in msgs
  PROVE  SetupInv'
<1>1. SetupTypeOK' /\ IdsAgree'
  BY DEF SetupInv, SetupTypeOK, IdsAgree, share_counts
<1> QED BY <1>1 DEF SetupInv, share_counts, RegMsg, ListMsg, Msg, Listed, NoRepeats

LEMMA RegistrationStep ==
  ASSUME SetupInv, NEW n \in Node, HandleRegistration(n)
  PROVE  SetupInv'
<1> DEFINE vec == Append(setup_msg_vec, n)
<1> USE DEF RegMsg, ListMsg
<1>1. /\ vec \in Seq(Node) /\ NoRepeats(vec)
      /\ Listed(vec) = Listed(setup_msg_vec) \cup {n}
      /\ Len(vec) = Len(setup_msg_vec) + 1
      /\ Len(setup_msg_vec) \in Nat
      /\ n \in started /\ n \notin Listed(setup_msg_vec)
      /\ RegMsg(n) \in msgs
  BY AppendNoRepeats, LenProperties
  DEF SetupInv, SetupTypeOK, HandleRegistration, Handle
<1>2. Len(setup_msg_vec) # share_counts
  BY <1>1, FullList DEF SetupInv, SetupTypeOK
<1>3. node_info_vec = << >> /\ id = [m \in Node |-> 0]
  <2>1. node_info_vec = << >> /\ DOMAIN << >> = {}
    BY <1>2, EmptySeq DEF SetupInv
  <2> QED BY <2>1 DEF SetupInv, SetupTypeOK, IdsAgree
<1>4. /\ setup_msg_vec' = vec
      /\ node_info_vec' = IF Len(vec) = share_counts THEN vec ELSE << >>
      /\ UNCHANGED <<regUp, started, id>>
  BY <1>3 DEF HandleRegistration
<1>5. \A m \in Node : RegMsg(m) \in msgs' => RegMsg(m) \in msgs /\ m # n
  <2>1. msgs' \subseteq (msgs \ {RegMsg(n)}) \cup {ListMsg(m) : m \in Node}
    BY <1>1 DEF HandleRegistration, Handle, Listed
  <2> QED BY <2>1, MsgEqual
<1>6. \A m \in Node : ListMsg(m) \in msgs' => Len(vec) = share_counts
  <2>1. Len(vec) # share_counts => msgs' \subseteq msgs
    BY DEF HandleRegistration, Handle
  <2> QED BY <2>1, <1>3 DEF SetupInv
<1>7. SetupTypeOK'
  <2>1. << >> \in Seq(Node)
    BY EmptySeq
  <2> QED BY <1>1, <1>4, <2>1 DEF SetupInv, SetupTypeOK, share_counts
<1>8. IdsAgree'
  BY <1>3, <1>4 DEF IdsAgree
<1>9. Len(vec) = share_counts => vec # << >>
  BY <1>1, EmptySeq
<1> QED BY <1>1, <1>3, <1>4, <1>5, <1>6, <1>7, <1>8, <1>9
  DEF SetupInv, share_counts

LEMMA SetupStep ==
  ASSUME SetupInv, SetupNext
  PROVE  SetupInv'
<1>1. CASE RegulatorStart
  BY <1>1 DEF RegulatorStart, SetupInv, SetupTypeOK, IdsAgree, share_counts,
              NoRepeats, RegMsg, ListMsg, Listed
<1>2. ASSUME NEW n \in Node, NodeStart(n)
      PROVE  SetupInv'
  <2>1. \A m \in Node : RegMsg(m) \in msgs' => RegMsg(m) \in msgs \/ m = n
    BY <1>2, MsgEqual DEF NodeStart, RegMsg
  <2>2. \A m \in Node : ListMsg(m) \in msgs' => ListMsg(m) \in msgs
    BY <1>2, MsgEqual DEF NodeStart, ListMsg
  <2>3. SetupTypeOK' /\ IdsAgree'
    BY <1>2 DEF NodeStart, SetupInv, SetupTypeOK, IdsAgree, share_counts
  <2>4. /\ started' = started \cup {n} /\ n \notin started
        /\ UNCHANGED <<setup_msg_vec, node_info_vec, id>>
    BY <1>2 DEF NodeStart
  <2>5. /\ \A m \in Node : RegMsg(m) \in msgs' =>
                             m \in started' /\ m \notin Listed(setup_msg_vec)'
        /\ \A m \in Node : m \in Listed(setup_msg_vec)' => m \in started'
    BY <2>1, <2>4 DEF SetupInv, Listed
  <2>6. \A m \in Node : ListMsg(m) \in msgs' => id'[m] = 0 /\ node_info_vec' # << >>
    BY <2>2, <2>4 DEF SetupInv
  <2> QED BY <2>3, <2>4, <2>5, <2>6
    DEF SetupInv, share_counts, RegMsg, ListMsg, Msg, NoRepeats
<1>3. ASSUME NEW n \in Node, HandleRegistration(n)
      PROVE  SetupInv'
  BY <1>3, RegistrationStep
<1> QED BY <1>1, <1>2, <1>3 DEF SetupNext

\* A node that takes the list gets its place as its number, for the first
\* time; its flags are the only new messages.
LEMMA TakeListStep ==
  ASSUME SetupInv, NEW n \in Node, NEW dest \in SUBSET Process, TakeList(n, dest)
  PROVE  SetupInv' /\ id[n] = 0 /\ node_info_vec # << >> /\ id'[n] # 0
<1>1. id[n] = 0 /\ node_info_vec # << >> /\ ListMsg(n) \in msgs
  BY DEF TakeList, Handle, SetupInv, ListMsg
<1>2. /\ IdIn(node_info_vec, n) \in DOMAIN node_info_vec
      /\ node_info_vec[IdIn(node_info_vec, n)] = n
      /\ IdIn(node_info_vec, n) \in 1 .. share_counts
  BY <1>1, ListFacts
<1>3. /\ id' = [id EXCEPT ![n] = IdIn(node_info_vec, n)]
      /\ UNCHANGED <<regUp, started, setup_msg_vec, node_info_vec>>
      /\ id \in [Node -> 0 .. share_counts]
  BY DEF TakeList, SetupInv, SetupTypeOK
<1>4. SetupTypeOK'
  BY <1>2, <1>3, CountsType DEF SetupInv, SetupTypeOK, share_counts
<1>5. IdsAgree'
  BY <1>2, <1>3 DEF SetupInv, IdsAgree
<1>6. msgs' \subseteq (msgs \ {ListMsg(n)})
                       \cup {Msg("NodeSetupPhaseFinishFlag", n, p) : p \in dest}
  BY DEF TakeList, Handle, ListMsg
<1>7. \A m \in Node : RegMsg(m) \in msgs' => RegMsg(m) \in msgs
  BY <1>6, MsgEqual DEF RegMsg
<1>8. \A m \in Node : ListMsg(m) \in msgs' => ListMsg(m) \in msgs /\ m # n
  BY <1>6, MsgEqual DEF ListMsg
<1>9. /\ \A m \in Node : RegMsg(m) \in msgs' =>
                           m \in started' /\ m \notin Listed(setup_msg_vec)'
      /\ \A m \in Node : m \in Listed(setup_msg_vec)' => m \in started'
  BY <1>3, <1>7 DEF SetupInv, Listed
<1>10. \A m \in Node : ListMsg(m) \in msgs' => id'[m] = 0 /\ node_info_vec' # << >>
  BY <1>3, <1>8 DEF SetupInv
<1>11. SetupInv'
  BY <1>3, <1>4, <1>5, <1>9, <1>10
  DEF SetupInv, share_counts, RegMsg, ListMsg, Msg, NoRepeats
<1>12. id'[n] # 0
  BY <1>2, <1>3, CountsType
<1> QED BY <1>1, <1>11, <1>12
============================================================================
