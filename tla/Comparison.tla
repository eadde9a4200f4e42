----------------------------- MODULE Comparison -----------------------------
(***************************************************************************)
(* The key generation of the comparison scheme: main() of                  *)
(* regulator_node.rs and of the node*.rs files of Comparison Scheme, over  *)
(* keygen_phase_one to keygen_phase_five.                                  *)
(*                                                                         *)
(* Every node draws a secret m_i, broadcasts commitments to it, deals a    *)
(* Pedersen sharing of it once it has everybody's commitments, sums the    *)
(* shares it receives and hands the sum to the regulator, who interpolates *)
(* the sums and compares the result with the sum of the secrets.           *)
(*                                                                         *)
(* Registration is that of Setup, but for the finish flags, which go to    *)
(* the regulator.  Sums are functions from dealers to the number of their  *)
(* summands, as in Dkg.  RegulatorSetupPhaseFinishFlag and                 *)
(* RegulatorKeyGenPhaseStartFlag change nothing at the nodes and are left  *)
(* out; commitments, range proofs and shares come from this code and are   *)
(* valid, so the Err returns of phases two and four are not modelled.      *)
(***************************************************************************)
EXTENDS Setup

VARIABLES
  finish_vec,  \* regulator: senders of the finish flags it has pushed
  vec_A,       \* node: senders of the commitments it has pushed, itself included
  vec_B,       \* node: dealers of the shares it has pushed
  M,           \* node: whose points are summed in M and in R, {} for None
  share,       \* node: summands of share and of random_share, Zero for None
  xi,          \* node: the share it has sent to the regulator, Zero before
  vec_five,    \* regulator: senders of the sums it has pushed
  verdict,     \* regulator: what assert_eq of keygen_phase_five found, "" before
  panicked     \* the nodes of which a task ended in share.unwrap()

keygenVars == <<finish_vec, vec_A, vec_B, M, share, xi, vec_five, verdict, panicked>>
vars == <<setupVars, keygenVars>>

Zero       == [d \in Node |-> 0]
One(n)     == [d \in Node |-> IF d = n THEN 1 ELSE 0]
Complete   == [d \in Node |-> 1]
Plus(k, D) == [d \in Node |-> IF d \in D THEN k[d] + 1 ELSE k[d]]

Init ==
  /\ SetupInit
  /\ finish_vec = {} /\ vec_five = {} /\ verdict = "" /\ panicked = {}
  /\ vec_A = [n \in Node |-> {}] /\ vec_B = [n \in Node |-> {}] /\ M = [n \in Node |-> {}]
  /\ share = [n \in Node |-> Zero] /\ xi = [n \in Node |-> Zero]

----------------------------------------------------------------------------
\* RegulatorSetupPhaseBroadcastMsg at n.
HandleSetupBroadcast(n) == TakeList(n, {Reg}) /\ UNCHANGED keygenVars

\* NodeSetupPhaseFinishFlag of n at the regulator: the last one starts the key
\* generation (setup_phase_two, keygen_phase_one and their broadcasts).
HandleFinishFlag(n) ==
  LET vec == finish_vec \cup {n}
  IN  /\ Handle(Msg("NodeSetupPhaseFinishFlag", n, Reg),
                IF Cardinality(vec) = share_counts
                THEN {Msg("RegulatorKeyGenPhaseOneBroadcastMsg", Reg, m) : m \in Listed(node_info_vec)}
                ELSE {})
      /\ finish_vec' = vec
      /\ UNCHANGED <<regUp, started, setup_msg_vec, node_info_vec, id,
                     vec_A, vec_B, M, share, xi, vec_five, verdict, panicked>>

\* The commitments of n to its secret, for all others.
keygen_phase_one(n) == {Msg("NodeKeyGenPhaseOneBroadcastMsg", n, q) : q \in Peers(id[n])}

\* Wrong variant of HandleStart, which the properties must detect: the node
\* does not keep its own message.
HandleStartForgets(n) ==
  /\ Handle(Msg("RegulatorKeyGenPhaseOneBroadcastMsg", Reg, n), keygen_phase_one(n))
  /\ UNCHANGED <<regUp, started, setup_msg_vec, node_info_vec, id,
                 finish_vec, vec_A, vec_B, M, share, xi, vec_five, verdict, panicked>>

\* RegulatorKeyGenPhaseOneBroadcastMsg at n.  The node pushes its own message
\* and does not look at the length.
HandleStart(n) ==
  /\ Handle(Msg("RegulatorKeyGenPhaseOneBroadcastMsg", Reg, n), keygen_phase_one(n))
  /\ vec_A' = [vec_A EXCEPT ![n] = @ \cup {n}]
  /\ UNCHANGED <<regUp, started, setup_msg_vec, node_info_vec, id,
                 finish_vec, vec_B, M, share, xi, vec_five, verdict, panicked>>

\* A sharing of the secret of n: a share for each of the others, and its own,
\* which it keeps.
keygen_phase_two(n, vec) ==
  /\ M'     = [M EXCEPT ![n] = vec]
  /\ share' = [share EXCEPT ![n] = One(n)]
Dealt(n) == {Msg("NodeToNodeKeyGenPhaseTwoP2PMsg", n, q) : q \in Peers(id[n])}

\* NodeKeyGenPhaseOneBroadcastMsg from m at n: the one that completes the
\* vector triggers keygen_phase_two.
HandlePhaseOne(n, m) ==
  LET vec   == vec_A[n] \cup {m}
      deals == Cardinality(vec) = share_counts
  IN  /\ Handle(Msg("NodeKeyGenPhaseOneBroadcastMsg", m, n), IF deals THEN Dealt(n) ELSE {})
      /\ vec_A' = [vec_A EXCEPT ![n] = vec]
      /\ IF deals THEN keygen_phase_two(n, vec) ELSE UNCHANGED <<M, share>>
      /\ UNCHANGED <<regUp, started, setup_msg_vec, node_info_vec, id,
                     finish_vec, vec_B, xi, vec_five, verdict, panicked>>

\* Wrong variants of the next two operators, which the properties must detect:
\* a trigger one share early, and a share that is taken for zero when it is None.
LastButOneShare(vec) == Cardinality(vec) = share_counts - 2
UnwrapOrZero(k) == TRUE

LastShare(vec) == Cardinality(vec) = share_counts - 1
Unwraps(k)     == k # Zero

\* The shares of the others, added to the node's own.
keygen_phase_four(n, vec) == share' = [share EXCEPT ![n] = Plus(@, vec)]

\* NodeToNodeKeyGenPhaseTwoP2PMsg from m at n: the last one triggers
\* keygen_phase_four, which panics when the node has not dealt, and
\* keygen_phase_five, which sends the sum.
HandleShare(n, m) ==
  LET vec == vec_B[n] \cup {m}
  IN  /\ vec_B' = [vec_B EXCEPT ![n] = vec]
      /\ \/ /\ ~LastShare(vec)
            /\ Handle(Msg("NodeToNodeKeyGenPhaseTwoP2PMsg", m, n), {})
            /\ UNCHANGED <<share, xi, panicked>>
         \/ /\ LastShare(vec) /\ ~Unwraps(share[n])
            /\ Handle(Msg("NodeToNodeKeyGenPhaseTwoP2PMsg", m, n), {})
            /\ panicked' = panicked \cup {n}
            /\ UNCHANGED <<share, xi>>
         \/ /\ LastShare(vec) /\ Unwraps(share[n])
            /\ Handle(Msg("NodeToNodeKeyGenPhaseTwoP2PMsg", m, n),
                      {Msg("NodeToRegulatorKeyGenPhaseFiveP2PMsg", n, Reg)})
            /\ keygen_phase_four(n, vec)
            /\ xi' = [xi EXCEPT ![n] = share'[n]]
            /\ UNCHANGED panicked
      /\ UNCHANGED <<regUp, started, setup_msg_vec, node_info_vec, id,
                     finish_vec, vec_A, M, vec_five, verdict>>

\* keygen_phase_five of the regulator: the sums interpolate to the sum of the
\* secrets when each has every dealer's share once.
keygen_phase_five(vec) == IF \A m \in vec : xi[m] = Complete THEN "equal" ELSE "differs"

\* NodeToRegulatorKeyGenPhaseFiveP2PMsg of n at the regulator, which compares
\* on the last one.
HandlePhaseFive(n) ==
  LET vec == vec_five \cup {n}
  IN  /\ Handle(Msg("NodeToRegulatorKeyGenPhaseFiveP2PMsg", n, Reg), {})
      /\ vec_five' = vec
      /\ verdict'  = IF Cardinality(vec) = share_counts THEN keygen_phase_five(vec) ELSE verdict
      /\ UNCHANGED <<regUp, started, setup_msg_vec, node_info_vec, id,
                     finish_vec, vec_A, vec_B, M, share, xi, panicked>>

Next ==
  \/ SetupNext /\ UNCHANGED keygenVars
  \/ \E n \in Node : HandleSetupBroadcast(n) \/ HandleFinishFlag(n) \/ HandleStart(n)
                       \/ HandlePhaseFive(n)
  \/ \E n, m \in Node : HandlePhaseOne(n, m) \/ HandleShare(n, m)

Spec == Init /\ [][Next]_vars

\* As for Dkg: every process is started, every open connection is served.
FairSpec ==
  /\ Spec
  /\ WF_vars(RegulatorStart /\ UNCHANGED keygenVars)
  /\ \A n \in Node :
       /\ WF_vars(NodeStart(n) /\ UNCHANGED keygenVars)
       /\ WF_vars(HandleRegistration(n) /\ UNCHANGED keygenVars)
       /\ WF_vars(HandleSetupBroadcast(n) \/ HandleFinishFlag(n))
       /\ WF_vars(HandleStart(n)) /\ WF_vars(HandlePhaseFive(n))
       /\ \A m \in Node : WF_vars(HandlePhaseOne(n, m)) /\ WF_vars(HandleShare(n, m))

----------------------------------------------------------------------------
\* The node's own message was the last to be pushed: the length has passed the
\* trigger unseen.
Missed(n) == vec_A[n] = Node /\ M[n] = {}

\* What the regulator verifies is so whatever the order of the messages: the
\* nodes agree on the points, every sum that is sent has each dealer's share
\* once, and the assertion of keygen_phase_five holds.
KeyReconstructs ==
  /\ \A n \in Node : M[n] \in {{}, Node} /\ xi[n] \in {Zero, Complete}
  /\ verdict # "differs"

\* No node finishes before all have dealt.  So one node that missed its trigger
\* keeps all others from finishing, and one that received the shares before it
\* could deal keeps the regulator from its verdict.
FinishAfterAllDealt ==
  /\ \A n \in Node : xi[n] # Zero => \A m \in Node : M[m] = Node
  /\ (\E n \in Node : Missed(n)) => \A n \in Node : xi[n] = Zero
  /\ panicked # {} => verdict = ""

\* There is no other way to stall: the regulator reaches its verdict unless a
\* node registered too early, missed its trigger or panicked.
VerdictReached ==
  <>(verdict # "" \/ panicked # {} \/ \E n \in Node : Lost(n) \/ Missed(n))
=============================================================================
