-------------------------------- MODULE Dkg --------------------------------
(***************************************************************************)
(* The distributed key generation run: main() of regulator.rs and of the   *)
(* node*.rs files, over keygen_phase_one and keygen_phase_two.             *)
(*                                                                         *)
(* Every node deals a Feldman sharing of a random secret to all others.    *)
(* Secret-key shares, public keys and public key shares are sums with one  *)
(* summand per dealer, so each is modelled by its coefficients: a function *)
(* from dealers to the number of times that dealer's summand is in the     *)
(* sum.  The secret share and the public key of a node always receive the  *)
(* same summands in the same statements, and are one variable.             *)
(*                                                                         *)
(* Shares are dealt by the code of this repository and are valid: the      *)
(* Err(InvalidSS) return of keygen_phase_two is not modelled.              *)
(***************************************************************************)
EXTENDS Setup

VARIABLES
  setup_finish_vec,  \* node: senders of the finish flags it has pushed
  feldman_vss_vec,   \* node: dealers of the share messages it has pushed
  key,               \* node: dealers summed in sk and in pk (memory)
  pk_share_vec,      \* node: dealers summed in pk_share_vec, Zero for None
  keypair,           \* what this run wrote to node{id}/keypair.txt, by id
  pk_share,          \* what this run wrote to node{id}/pk_share.txt, by id
  panicked           \* node: the unwrap()s that ended a task of it

dkgVars == <<setup_finish_vec, feldman_vss_vec, key, pk_share_vec, keypair,
             pk_share, panicked>>
vars == <<setupVars, dkgVars>>

Coefficients == [Node -> Nat]
Zero         == [d \in Node |-> 0]
One(n)       == [d \in Node |-> IF d = n THEN 1 ELSE 0]
Complete     == [d \in Node |-> 1]

\* k with one more summand of every dealer of D.
Plus(k, D) == [d \in Node |-> IF d \in D THEN k[d] + 1 ELSE k[d]]

\* The options a handler unwraps while they may still be None.
Unwrap == {"id", "node_info_vec", "pk_share_vec"}

Ids == 1 .. share_counts

Init ==
  /\ SetupInit
  /\ setup_finish_vec = [n \in Node |-> {}]
  /\ feldman_vss_vec = [n \in Node |-> {}]
  /\ key = [n \in Node |-> Zero]
  /\ pk_share_vec = [n \in Node |-> Zero]
  /\ keypair = [i \in Ids |-> Zero]
  /\ pk_share = [i \in Ids |-> Zero]
  /\ panicked = [n \in Node |-> {}]

----------------------------------------------------------------------------
\* A task of n ends in unwrap() on a None: the mutexes are released and the
\* process goes on.
Panic(n, what) == panicked' = [panicked EXCEPT ![n] = @ \cup {what}]

\* RegSetupPhaseBroadcastMsg at n: take the list, tell every other node.
HandleSetupBroadcast(n) ==
  /\ TakeList(n, Peers(IdIn(node_info_vec, n)))
  /\ UNCHANGED dkgVars

\* Wrong variants of the next two operators, which the properties must detect:
\* triggers that fire one message early, once or at every message from there
\* on, and a late keygen_phase_one that adds to the memory it should reset.
IsLastButOne(vec)    == Cardinality(vec) = share_counts - 2
IsLastOrBefore(vec)  == Cardinality(vec) >= share_counts - 2
KeygenPhaseOneAdds(n) ==
  /\ key' = [key EXCEPT ![n] = Plus(@, {n})]
  /\ pk_share_vec' = [pk_share_vec EXCEPT ![n] = One(n)]

\* A vector with this many messages triggers the next phase.
IsLast(vec) == Cardinality(vec) = share_counts - 1

\* keygen_phase_one: n keeps its own share and commitment, and the shares of
\* the others are the messages that the caller sends.
KeygenPhaseOne(n) ==
  /\ key' = [key EXCEPT ![n] = One(n)]
  /\ pk_share_vec' = [pk_share_vec EXCEPT ![n] = One(n)]

\* NodeSetupPhaseFinishFlag from m at n.  The last one starts the dealing,
\* which panics on node_info_vec when the regulator's list has not been
\* handled here yet (id leaves None in the same statements); the flag stays
\* pushed.
HandleFinishFlag(n, m) ==
  LET vec    == setup_finish_vec[n] \cup {m}
      deals  == IsLast(vec) /\ id[n] # 0
      panics == IsLast(vec) /\ id[n] = 0
  IN  /\ Handle(Msg("NodeSetupPhaseFinishFlag", m, n),
                IF deals THEN {Msg("NodeToNodeFeldmanVssParamMsg", n, q) : q \in Peers(id[n])}
                         ELSE {})
      /\ setup_finish_vec' = [setup_finish_vec EXCEPT ![n] = vec]
      /\ IF deals THEN KeygenPhaseOne(n) ELSE UNCHANGED <<key, pk_share_vec>>
      /\ IF panics THEN Panic(n, "node_info_vec") ELSE UNCHANGED panicked
      /\ UNCHANGED <<regUp, started, setup_msg_vec, node_info_vec, id,
                     feldman_vss_vec, keypair, pk_share>>

\* keygen_phase_two at n on the messages of the dealers D: check and add the
\* shares, write keypair.txt, and only then read pk_share_vec to write
\* pk_share.txt.
KeygenPhaseTwo(n, D) ==
  IF id[n] = 0
    THEN /\ Panic(n, "id")
         /\ UNCHANGED <<key, keypair, pk_share>>
    ELSE /\ key' = [key EXCEPT ![n] = Plus(@, D)]
         /\ keypair' = [keypair EXCEPT ![id[n]] = Plus(key[n], D)]
         /\ IF pk_share_vec[n] = Zero
              THEN Panic(n, "pk_share_vec") /\ UNCHANGED pk_share
              ELSE /\ pk_share' = [pk_share EXCEPT ![id[n]] = Plus(pk_share_vec[n], D)]
                   /\ UNCHANGED panicked

\* NodeToNodeFeldmanVssParamMsg from m at n.  The last one triggers
\* keygen_phase_two, whether or not n has dealt itself.
HandleVss(n, m) ==
  LET vec == feldman_vss_vec[n] \cup {m}
  IN  /\ Handle(Msg("NodeToNodeFeldmanVssParamMsg", m, n), {})
      /\ feldman_vss_vec' = [feldman_vss_vec EXCEPT ![n] = vec]
      /\ IF IsLast(vec) THEN KeygenPhaseTwo(n, vec)
                        ELSE UNCHANGED <<key, keypair, pk_share, panicked>>
      /\ UNCHANGED <<regUp, started, setup_msg_vec, node_info_vec, id,
                     setup_finish_vec, pk_share_vec>>

----------------------------------------------------------------------------
Next ==
  \/ SetupNext /\ UNCHANGED dkgVars
  \/ \E n \in Node : HandleSetupBroadcast(n)
  \/ \E n, m \in Node : HandleFinishFlag(n, m)
  \/ \E n, m \in Node : HandleVss(n, m)

Spec == Init /\ [][Next]_vars

\* Somebody starts every process, and a message whose connection is open is
\* read and handled: tokio polls every spawned task that can run, and its
\* mutex is granted in the order it was asked for.
Fairness ==
  /\ WF_vars(RegulatorStart /\ UNCHANGED dkgVars)
  /\ \A n \in Node :
       /\ WF_vars(NodeStart(n) /\ UNCHANGED dkgVars)
       /\ WF_vars(HandleRegistration(n) /\ UNCHANGED dkgVars)
       /\ WF_vars(HandleSetupBroadcast(n))
       /\ \A m \in Node : WF_vars(HandleFinishFlag(n, m)) /\ WF_vars(HandleVss(n, m))

FairSpec == Spec /\ Fairness

----------------------------------------------------------------------------
Messages == [type : {"NodeToRegSetupPhaseP2PMsg", "RegSetupPhaseBroadcastMsg",
                     "NodeSetupPhaseFinishFlag", "NodeToNodeFeldmanVssParamMsg"},
             from : Process, to : Process]

TypeOK ==
  /\ SetupTypeOK
  /\ msgs \subseteq Messages
  /\ setup_finish_vec \in [Node -> SUBSET Node]
  /\ feldman_vss_vec \in [Node -> SUBSET Node]
  /\ key \in [Node -> Coefficients]
  /\ pk_share_vec \in [Node -> Coefficients]
  /\ keypair \in [Ids -> Coefficients]
  /\ pk_share \in [Ids -> Coefficients]
  /\ panicked \in [Node -> SUBSET Unwrap]

\* A pk_share.txt on disk vouches for the keypair.txt beside it: whatever the
\* order of delivery, both then sum every dealer exactly once.
\* (keygen_phase.rs:88-109: the second file is written only past the unwrap.)
PublishedSharesComplete ==
  \A i \in Ids : pk_share[i] # Zero => /\ pk_share[i] = Complete
                                       /\ keypair[i] = Complete

\* A keypair.txt that is not complete lacks one dealer, its owner, and leaves
\* a trace: the owner's task panicked on pk_share_vec, pk_share.txt is not
\* written, and the node never gets the complete key in memory either
\* (keygen_phase_one, when it comes late, overwrites sk and pk).
WrongKeyLeavesTrace ==
  \A n \in Node :
    id[n] # 0 /\ keypair[id[n]] \notin {Zero, Complete} =>
      /\ keypair[id[n]] = Plus(Zero, Node \ {n})
      /\ pk_share[id[n]] = Zero
      /\ "pk_share_vec" \in panicked[n]
      /\ key[n] # Complete

\* At most one node of the group ends up with an incomplete keypair.txt: it
\* had everybody's share before it dealt, so nobody else can have done so.
AtMostOneWrongKey ==
  \A i, j \in Ids : keypair[i] \notin {Zero, Complete} /\ keypair[j] \notin {Zero, Complete}
                     => i = j

\* Nobody sends a message of a type twice to another process: what is in
\* flight is not yet in the vector it is pushed to, so that a length that is
\* compared with == counts different senders.
SentOnce ==
  \A n, m \in Node :
    /\ Msg("NodeSetupPhaseFinishFlag", m, n) \in msgs => m \notin setup_finish_vec[n]
    /\ Msg("NodeToNodeFeldmanVssParamMsg", m, n) \in msgs => m \notin feldman_vss_vec[n]

\* The finish flags are a barrier: nobody deals before every node has taken
\* its number from the regulator's list, so no share is checked by a node
\* without an id (self.id.unwrap(), keygen_phase.rs:65).
DealingBarrier ==
  /\ \A n \in Node : pk_share_vec[n] # Zero => \A m \in Node : id[m] # 0
  /\ \A n \in Node : "id" \notin panicked[n]

\* A key file is written once: no later message makes a node sum again and
\* replace the key that others may already rely on.
KeyFilesWrittenOnce ==
  [][\A i \in Ids : /\ keypair[i] # Zero => keypair'[i] = keypair[i]
                    /\ pk_share[i] # Zero => pk_share'[i] = pk_share[i]]_vars

\* The only ways to stall: a node registered before the regulator listened,
\* or a node had all finish flags before the regulator's list and panicked.
\* Otherwise every node writes its keypair.txt.
EventuallyWritten ==
  <>(\/ \E n \in Node : Lost(n) \/ "node_info_vec" \in panicked[n]
     \/ \A i \in Ids : keypair[i] # Zero)

\* What the readme says of the run (readme.md:61, "The generated key pair will
\* be written to ./node/node*/keypair.txt"), started in the documented order:
\* every node writes its file.  Not so: see README.md.
EveryNodeFinishes == <>(\E n \in Node : Lost(n)) \/ <>(\A i \in Ids : keypair[i] # Zero)

\* What is written there is the generated key pair, the sum over all dealers.
\* Not so: see README.md.
EveryKeypairComplete == \A i \in Ids : keypair[i] \in {Zero, Complete}

----------------------------------------------------------------------------
\* The abstract specification that the run implements: dealing is storing
\* pk_share_vec, a node's table is the content of its pk_share.txt.
Dealt == {n \in Node : pk_share_vec[n] # Zero}
Table == [n \in Node |-> IF id[n] = 0 THEN Zero ELSE pk_share[id[n]]]

Promise == INSTANCE KeyGenPromise WITH dealt <- Dealt, table <- Table

\* Whatever the order of delivery, the run implements KeyGenPromise: a table is
\* published once, after every node has dealt, and sums every dealer.
PromiseSpec == Promise!Spec
============================================================================
