------------------------------- MODULE Bench -------------------------------
(***************************************************************************)
(* What the tps_bench programs of the two ledger clients share.  Window    *)
(* after window, first of loan records (Type 1) and then of repayments     *)
(* (Type 2), tasks submit one transaction after the other until a flag     *)
(* stops them; the transactions that the client called a success add up to *)
(* the reported throughput.                                                *)
(*                                                                         *)
(* A submission is a call that may outlive its caller: the client gives up *)
(* on it after a timeout, and the ledger may execute it all the same.      *)
(***************************************************************************)
EXTENDS Naturals, FiniteSets, SequencesExt

CONSTANTS
  Args,     \* the program's arguments, [concurrent, rows, max_seq]: max_seq
            \* is a bound on the submissions of a task in a window
  IdRange,  \* loan ids of a task; 10_000_000 in the code
  MaxLate   \* bound on the submissions that outlive their callers

ASSUME BenchAssumption ==
  /\ Args \subseteq [concurrent : Nat \ {0}, rows : Nat \ {0}, max_seq : Nat]
  /\ IdRange \in Nat /\ \A a \in Args : a.max_seq < IdRange
  /\ MaxLate \in Nat

VARIABLES
  args,       \* one of Args
  phase,      \* "setup", "between", "open", "closing" (the stop flag), "done", "failed"
  window,     \* the number of the window, from 1
  task,       \* each task's "loop", "call" or "ended"
  seq,        \* the number of each task's next submission
  committed,  \* what each task counts
  reports,    \* total_committed of the windows that are over
  pool,       \* the calls under way: [window, task, loan_id, sent, status]
  recorded,   \* the loans of the records that the ledger has announced of the
              \* window's calls
  untold      \* the loans of the window's answers that do not tell whether the
              \* call was executed; only the properties use it

benchVars ==
  <<args, phase, window, task, seq, committed, reports, pool, recorded, untold>>

Task == 0 .. args.concurrent - 1
Windows == 1 .. 2 * args.rows  \* two in each row of the table
is_type_a(w) == w % 2 = 1

\* Wrong variant of id_base, which the properties must detect: the tasks share
\* a range.
id_base_shared(t) == 0

id_base(t) == t * IdRange
loan_id(t) == id_base(t) + seq[t]

\* The first n counts, added up as main adds those of the tasks.
total(counts, n) ==
  LET sum[k \in 0 .. n] == IF k = 0 THEN 0 ELSE sum[k - 1] + counts[k - 1]
  IN  sum[n]

\* The call that the task waits for, or has given up on.
Awaited(c) == task[c.task] = "call" /\ c.window = window /\ c.loan_id = loan_id(c.task) - 1
Late == {c \in pool : ~Awaited(c)}

BenchInit ==
  /\ args \in Args
  /\ phase = "setup" /\ window = 0 /\ reports = << >> /\ pool = {}
  /\ task      = [t \in Task |-> "ended"]
  /\ seq       = [t \in Task |-> 1]
  /\ committed = [t \in Task |-> 0]
  /\ recorded = {} /\ untold = {}

\* run_benchmark: a window opens and spawns the tasks.
Open ==
  /\ phase = "between"
  /\ phase' = "open" /\ window' = window + 1
  /\ task' = [t \in Task |-> "loop"]
  /\ recorded' = {} /\ untold' = {}
  /\ UNCHANGED <<args, seq, committed, reports, pool>>

\* A task that finds the flag unset submits the next loan; one that finds it
\* set ends.
Submit(t, sent, status) ==
  /\ phase = "open" /\ task[t] = "loop" /\ seq[t] <= args.max_seq
  /\ task' = [task EXCEPT ![t] = "call"]
  /\ seq'  = [seq EXCEPT ![t] = @ + 1]
  /\ pool' = pool \cup {[window |-> window, task |-> t, loan_id |-> loan_id(t),
                         sent |-> sent, status |-> status]}
  /\ UNCHANGED <<args, phase, window, committed, reports, recorded, untold>>

End(t) ==
  /\ phase = "closing" /\ task[t] = "loop"
  /\ task' = [task EXCEPT ![t] = "ended"]
  /\ UNCHANGED <<args, phase, window, seq, committed, reports, pool, recorded, untold>>

\* The ledger executes a call and announces the record, or refuses it.
Settle(c, announced, status) ==
  /\ pool' = (pool \ {c}) \cup (IF Awaited(c) THEN {[c EXCEPT !.status = status]} ELSE {})
  /\ recorded' = IF announced /\ c.window = window THEN recorded \cup {c.loan_id} ELSE recorded
  /\ UNCHANGED <<args, phase, window, task, seq, committed, reports, untold>>

\* The client's result reaches the task, which counts it or does not; the
\* answer that it is made of tells what became of the call, or nothing.
Answer(c, success, tells) ==
  /\ c \in pool /\ Awaited(c)
  /\ pool' = pool \ {c}
  /\ task' = [task EXCEPT ![c.task] = "loop"]
  /\ committed' = [committed EXCEPT ![c.task] = IF success THEN @ + 1 ELSE @]
  /\ untold' = IF tells THEN untold ELSE untold \cup {c.loan_id}
  /\ UNCHANGED <<args, phase, window, seq, reports, recorded>>

\* Wrong variant of GiveUp, which the properties must detect: the task waits on.
GiveUpAndWait(c, pending) ==
  /\ c \in pool /\ Awaited(c)
  /\ pool' = pool \ {c}
  /\ UNCHANGED <<args, phase, window, task, seq, committed, reports, recorded, untold>>

\* The connection fails or the answer is overdue: an error, whatever becomes
\* of the call.
GiveUp(c, pending) ==
  /\ c \in pool /\ Awaited(c)
  /\ pool' \in IF pending /\ Cardinality(Late) < MaxLate THEN {pool, pool \ {c}} ELSE {pool \ {c}}
  /\ task' = [task EXCEPT ![c.task] = "loop"]
  /\ UNCHANGED <<args, phase, window, seq, committed, reports, recorded, untold>>

\* The duration has passed.
Stop ==
  /\ phase = "open"
  /\ phase' = "closing"
  /\ UNCHANGED <<args, window, task, seq, committed, reports, pool, recorded, untold>>

\* All tasks have ended; a next window counts from the beginning.
Report ==
  /\ phase = "closing" /\ \A t \in Task : task[t] = "ended"
  /\ reports' = Append(reports, total(committed, args.concurrent))
  /\ phase' = IF window + 1 \notin Windows THEN "done" ELSE "between"
  /\ seq' = [t \in Task |-> 1] /\ committed' = [t \in Task |-> 0]
  /\ UNCHANGED <<args, window, task, pool, recorded, untold>>

----------------------------------------------------------------------------
\* The values of the variables; and a task that waits does so for one call.
BenchTypeOK ==
  /\ phase \in {"setup", "between", "open", "closing", "done", "failed"}
  /\ window \in Windows \cup {0} /\ Len(reports) <= window
  /\ task \in [Task -> {"loop", "call", "ended"}]
  /\ seq \in [Task -> 1 .. args.max_seq + 1]
  /\ committed \in [Task -> 0 .. args.max_seq]
  /\ \A t \in Task : task[t] = "call" => \E c \in pool : c.task = t /\ Awaited(c)

\* A commit that is counted is a record on the ledger, of a loan that no other
\* counted commit of the window names, unless its answer did not tell: neither
\* a lost answer nor a call that is executed late, in this window or in a later
\* one, makes the reported throughput exceed what the ledger has recorded.
CountedIsRecorded ==
  /\ total(committed, args.concurrent) <= Cardinality(recorded \cup untold)
  /\ (phase \in {"between", "done"} /\ reports # << >>) =>
       Last(reports) <= Cardinality(recorded \cup untold)
=============================================================================
