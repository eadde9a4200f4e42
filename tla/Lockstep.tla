------------------------------ MODULE Lockstep ------------------------------
(***************************************************************************)
(* Rounds with a barrier between them: a node enters a round only when     *)
(* every node has entered the round before.                                *)
(***************************************************************************)
EXTENDS Naturals

CONSTANTS
  Node,
  Rounds  \* the number of rounds

VARIABLE round  \* node: the round it is in, 0 before the first

Init == round = [n \in Node |-> 0]

Enter(n) == /\ round[n] < Rounds
            /\ \A m \in Node : round[m] >= round[n]
            /\ round' = [round EXCEPT ![n] = @ + 1]

Next == \E n \in Node : Enter(n)

Spec == Init /\ [][Next]_round
=============================================================================
