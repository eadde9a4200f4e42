--------------------------- MODULE KeyGenPromise ---------------------------
(***************************************************************************)
(* What the key generation promises to the decryption that follows it: a   *)
(* node publishes its table of public key shares once, and only when every *)
(* node has dealt, so that every published table sums every dealer.        *)
(***************************************************************************)
EXTENDS Naturals

CONSTANT Node

VARIABLES
  dealt,  \* the nodes that have drawn and dealt their secret
  table   \* node: how often each dealer is summed in its published table

Unpublished == [d \in Node |-> 0]
AllDealers  == [d \in Node |-> 1]

Init == /\ dealt = {}
        /\ table = [n \in Node |-> Unpublished]

Deal(n) == /\ n \notin dealt
           /\ dealt' = dealt \cup {n}
           /\ UNCHANGED table

Publish(n) == /\ dealt = Node
              /\ table[n] = Unpublished
              /\ table' = [table EXCEPT ![n] = AllDealers]
              /\ UNCHANGED dealt

Next == \E n \in Node : Deal(n) \/ Publish(n)

Spec == Init /\ [][Next]_<<dealt, table>>
============================================================================
