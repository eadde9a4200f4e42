------------------------------- MODULE Setup -------------------------------
(***************************************************************************)
(* Registration: the first phase of both distributed runs of the           *)
(* integration test.  Nodes register with the regulator over TCP; when the *)
(* regulator has counted share_counts registrations it numbers the nodes   *)
(* in the order they arrived and broadcasts the list.  The run-specific    *)
(* modules (Dkg, Decrypt) extend this one with the state of their nodes    *)
(* and with what a node does when the list reaches it.                     *)
(*                                                                         *)
(* Every message is a TCP connection of its own, served by a tokio task of *)
(* its own, so messages in flight form a set and are handled in any order, *)
(* even between the same two processes.  A handler holds the mutex of its  *)
(* process from its first access to the state to its return, so it is one  *)
(* atomic step; what it sends is in flight from that step on.              *)
(***************************************************************************)
EXTENDS Naturals, Sequences, FiniteSets

CONSTANTS
  Node,  \* the lender nodes; each listens on an address of its own
  Reg    \* the regulator

ASSUME NodeAssumption ==
  /\ IsFiniteSet(Node)
  /\ Cardinality(Node) >= 2
  /\ Reg \notin Node

VARIABLES
  regUp,          \* the regulator's listener is bound
  started,        \* the nodes whose process has been started
  setup_msg_vec,  \* regulator: registrations counted, in arrival order
  node_info_vec,  \* the numbered list, << >> until setup_phase_one sets it
  id,             \* node: its number in the list, 0 for None
  msgs            \* messages in flight

setupVars == <<regUp, started, setup_msg_vec, node_info_vec, id, msgs>>

\* threshold_params.share_counts of every config file: the number of nodes.
share_counts == Cardinality(Node)

Process == Node \cup {Reg}

\* A message is its type and its ends.  Its payload is a part of the sender's
\* state that is assigned once, before the send, and read there: the list is
\* node_info_vec, a share or a commitment is named by its dealer.
Msg(type, p, q) == [type |-> type, from |-> p, to |-> q]

\* The Vecs in which processes collect messages of a type are modelled as the
\* sets of their senders where the code reads nothing but their length and
\* their elements: no process sends a message of a type twice to another (the
\* triggers compare a growing length with ==), so the length is the cardinality.

\* Deliver m, and put the set out in flight.
Handle(m, out) == /\ m \in msgs
                  /\ msgs' = (msgs \ {m}) \cup out

----------------------------------------------------------------------------
\* The id of an entry is its place, counted from 1 in arrival order.
Listed(list) == {list[i] : i \in DOMAIN list}

\* Wrong variants of the next two operators, which the properties must detect
\* (PROJECT.json, "mutants"): broadcasts that skip the first entry instead of
\* their own, and ids counted from 2.
PeersButFirst(i)     == {node_info_vec[j] : j \in DOMAIN node_info_vec \ {1}}
IdCountedFrom2(list, n) == 1 + CHOOSE i \in DOMAIN list : list[i] = n

\* The addresses that broadcast and to_node reach from the node numbered i:
\* every entry of the list but its own.
Peers(i) == {node_info_vec[j] : j \in DOMAIN node_info_vec \ {i}}

\* What setup_phase_two assigns to id: the last entry with the node's address.
IdIn(list, n) ==
  CHOOSE i \in DOMAIN list : /\ list[i] = n
                             /\ \A j \in DOMAIN list : list[j] = n => j <= i

SetupInit ==
  /\ regUp = FALSE
  /\ started = {}
  /\ setup_msg_vec = << >>
  /\ node_info_vec = << >>
  /\ id = [n \in Node |-> 0]
  /\ msgs = {}

\* The regulator process starts and binds its listener.
RegulatorStart ==
  /\ ~regUp
  /\ regUp' = TRUE
  /\ UNCHANGED <<started, setup_msg_vec, node_info_vec, id, msgs>>

\* Node n binds its listener, then registers.  When nobody listens at the
\* regulator's address p2p returns an error, which is logged and not retried.
NodeStart(n) ==
  /\ n \notin started
  /\ started' = started \cup {n}
  /\ msgs' = IF regUp THEN msgs \cup {Msg("NodeToRegSetupPhaseP2PMsg", n, Reg)}
                      ELSE msgs
  /\ UNCHANGED <<regUp, setup_msg_vec, node_info_vec, id>>

\* The regulator counts the registration of n.  The one that makes the count
\* share_counts fixes the list and broadcasts it (handle_setup_msg, then
\* setup_phase_one and broadcast).
HandleRegistration(n) ==
  LET vec  == Append(setup_msg_vec, n)
      last == Len(vec) = share_counts
  IN  /\ Handle(Msg("NodeToRegSetupPhaseP2PMsg", n, Reg),
                IF last THEN {Msg("RegSetupPhaseBroadcastMsg", Reg, m) : m \in Listed(vec)}
                        ELSE {})
      /\ setup_msg_vec' = vec
      /\ node_info_vec' = IF last THEN vec ELSE node_info_vec
      /\ UNCHANGED <<regUp, started, id>>

SetupNext == \/ RegulatorStart
             \/ \E n \in Node : NodeStart(n)
             \/ \E n \in Node : HandleRegistration(n)

\* The part of a node's RegSetupPhaseBroadcastMsg handler that both runs
\* share: setup_phase_two, which takes the number, then a finish flag to each
\* process of dest.
TakeList(n, dest) ==
  /\ Handle(Msg("RegSetupPhaseBroadcastMsg", Reg, n),
            {Msg("NodeSetupPhaseFinishFlag", n, p) : p \in dest})
  /\ id' = [id EXCEPT ![n] = IdIn(node_info_vec, n)]
  /\ UNCHANGED <<regUp, started, setup_msg_vec, node_info_vec>>

----------------------------------------------------------------------------
\* A node that started before the regulator: its registration was never sent.
Lost(n) == /\ n \in started
           /\ Msg("NodeToRegSetupPhaseP2PMsg", n, Reg) \notin msgs
           /\ n \notin Listed(setup_msg_vec)

SetupTypeOK ==
  /\ regUp \in BOOLEAN
  /\ started \subseteq Node
  /\ setup_msg_vec \in Seq(Node)
  /\ node_info_vec \in Seq(Node)
  /\ id \in [Node -> 0 .. share_counts]

\* The numbers are a bijection: no two nodes took the same number, and the
\* entry a node's number points at is the node itself, so that peers that look
\* an id up in the list (to_node, communication.rs:98) reach the node that
\* calls itself by that id, and node{id}/keypair.txt has one writer.
IdsAgree ==
  \A n \in Node : id[n] # 0 => /\ id[n] \in DOMAIN node_info_vec
                               /\ node_info_vec[id[n]] = n
============================================================================
