--------------------------- MODULE CheckpointLog ---------------------------
(***************************************************************************)
(* What the checkpoint buffer promises: a log of records, of which longer  *)
(* and longer prefixes are committed.  Nothing is lost, duplicated or      *)
(* reordered on the way from the buffer to the batches.                    *)
(***************************************************************************)
EXTENDS Naturals, Sequences

CONSTANT Record

VARIABLES
  log,        \* every record pushed, in order
  committed   \* the length of the committed prefix

Init == log = << >> /\ committed = 0

Write(r) == /\ log' = Append(log, r)
            /\ UNCHANGED committed

Commit == /\ committed < Len(log)
          /\ committed' = Len(log)
          /\ UNCHANGED log

Next == Commit \/ \E r \in Record : Write(r)

Spec == Init /\ [][Next]_<<log, committed>>
============================================================================
