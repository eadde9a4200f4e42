---------------------------- MODULE LedgerProofs ----------------------------
(***************************************************************************)
(* The two benchmarks. First the loop that both share, for any number of   *)
(* tasks, rows and submissions: two invariants, BenchInv of the calls that *)
(* tasks wait for and CountInv of what is counted and recorded, and,       *)
(* action by action, their preservation. Then the benchmark of             *)
(* fisco_ledger: the type invariant, the bound on refusals and that what   *)
(* is counted is recorded or was not told, for any arguments, block limit  *)
(* and number of late calls. That of sui_ledger: funding, the freshness of *)
(* what a local node builds, that what is counted is recorded, and the     *)
(* totals of the contract against reports and tables.                      *)
(***************************************************************************)
EXTENDS FiscoBench, SuiBench, SequenceTheorems, FiniteSetTheorems, WellFoundedInduction, TLAPS

\* The statuses that the two ledgers give a call.
Statuses == {"pending", "0x0", "0x10", "0x2714", "success", "failure", "error"}
Calls == [window : Nat, task : Task, loan_id : Int, sent : Nat, status : Statuses]

\* Awaited(c), for the call of a task that waits.
AwaitedBy(t, c) == c.task = t /\ c.window = window /\ c.loan_id = loan_id(t) - 1

\* A task has counted less than it has submitted, and between the windows all
\* tasks have ended.
BenchInv ==
  /\ args \in Args
  /\ phase \in {"setup", "between", "open", "closing", "done", "failed"}
  /\ window \in 0 .. 2 * args.rows
  /\ phase \in {"setup", "failed"} => window = 0
  /\ phase = "between" => window < 2 * args.rows
  /\ phase \in {"open", "closing"} => window > 0
  /\ task \in [Task -> {"loop", "call", "ended"}]
  /\ phase \notin {"open", "closing"} => \A t \in Task : task[t] = "ended"
  /\ seq \in [Task -> 1 .. args.max_seq + 1]
  /\ committed \in [Task -> Nat]
  /\ \A t \in Task : committed[t] + (IF task[t] = "call" THEN 2 ELSE 1) <= seq[t]
  /\ pool \subseteq Calls
  /\ \A t \in Task : task[t] = "call" => \E c \in pool : AwaitedBy(t, c)
  /\ \E S : reports \in Seq(S)
  /\ Len(reports) <= window
  /\ phase \in {"open", "closing"} => Len(reports) < window

----------------------------------------------------------------------------
\* The arguments, and the first loan id of a task, are numbers.
LEMMA ArgsType ==
  ASSUME args \in Args
  PROVE  /\ args.concurrent \in Nat /\ args.concurrent > 0
         /\ args.rows \in Nat /\ args.rows > 0
         /\ args.max_seq \in Nat
         /\ \A t \in Task : t \in Nat /\ id_base(t) \in Int
<1>1. /\ args.concurrent \in Nat \ {0} /\ args.rows \in Nat \ {0} /\ args.max_seq \in Nat
      /\ IdRange \in Nat
  BY BenchAssumption
<1>2. \A t \in Task : t \in Nat
  BY <1>1 DEF Task
<1>3. \A t \in Task : id_base(t) \in Int
  BY <1>1, <1>2 DEF id_base
<1> QED BY <1>1, <1>2, <1>3

\* The call of a task that waits is awaited.
LEMMA OneAwaited ==
  ASSUME NEW t, NEW c, task[t] = "call", AwaitedBy(t, c)
  PROVE  Awaited(c)
<1>1. c.task = t /\ c.window = window
  BY DEF AwaitedBy
<1>2. c.loan_id = loan_id(t) - 1
  BY DEF AwaitedBy
<1>3. loan_id(c.task) = loan_id(t)
  BY <1>1
<1>4. c.loan_id = loan_id(c.task) - 1
  BY <1>2, <1>3
<1>5. task[c.task] = "call"
  BY <1>1
<1> QED BY <1>1, <1>4, <1>5, Zenon DEF Awaited

\* The invariant gives the type invariant of the runs.
LEMMA InvTypeOK == BenchInv => BenchTypeOK
<1> SUFFICES ASSUME BenchInv PROVE BenchTypeOK
  OBVIOUS
<1>1. args.max_seq \in Nat /\ args.rows \in Nat
  BY ArgsType DEF BenchInv
<1>2. window \in Windows \cup {0}
  BY <1>1 DEF BenchInv, Windows
<1>3. \A t \in Task : committed[t] \in 0 .. args.max_seq
  BY <1>1 DEF BenchInv
<1>4. ASSUME NEW t \in Task, task[t] = "call"
      PROVE  \E c \in pool : c.task = t /\ Awaited(c)
  <2>1. PICK c \in pool : AwaitedBy(t, c)
    BY <1>4 DEF BenchInv
  <2>2. Awaited(c) /\ c.task = t
    BY <1>4, <2>1, OneAwaited DEF AwaitedBy
  <2> QED BY <2>2
<1> QED BY <1>2, <1>3, <1>4 DEF BenchInv, BenchTypeOK

\* What the other invariants need to know of the window and its calls.
LEMMA WindowType ==
  ASSUME BenchInv
  PROVE  /\ window \in Nat
         /\ \A c \in pool : c \in Calls /\ c.window \in Nat /\ c.task \in Task /\ c.sent \in Nat
<1>1. args.rows \in Nat /\ window \in 0 .. 2 * args.rows
  BY ArgsType DEF BenchInv
<1>2. window \in Nat
  BY <1>1
<1>3. \A c \in pool : c \in Calls
  BY DEF BenchInv
<1> QED BY <1>2, <1>3 DEF Calls

LEMMA InitBench == BenchInit => BenchInv
<1> SUFFICES ASSUME BenchInit PROVE BenchInv
  OBVIOUS
<1> USE DEF BenchInit
<1>1. args.rows \in Nat /\ args.max_seq \in Nat
  BY ArgsType
<1>2. << >> \in Seq({}) /\ Len(<< >>) = 0
  BY EmptySeq
<1>3. \E S : reports \in Seq(S)
  BY <1>2
<1> QED BY <1>1, <1>2, <1>3 DEF BenchInv

\* main has begun, or has ended before the first window.
LEMMA SetupEnds ==
  ASSUME BenchInv, phase = "setup", phase' \in {"setup", "between", "failed"},
         UNCHANGED <<args, window, task, seq, committed, reports, pool, recorded, untold>>
  PROVE  BenchInv'
<1>1. args.rows \in Nat /\ args.rows > 0
  BY ArgsType DEF BenchInv
<1> QED BY <1>1 DEF BenchInv, Task, Calls, AwaitedBy, loan_id, id_base

LEMMA UnchangedBench ==
  ASSUME BenchInv, UNCHANGED benchVars
  PROVE  BenchInv'
  BY DEF BenchInv, benchVars, Task, Calls, AwaitedBy, loan_id, id_base

LEMMA OpenStep ==
  ASSUME BenchInv, Open
  PROVE  BenchInv'
<1>1. args.rows \in Nat /\ args' = args
  BY ArgsType DEF BenchInv, Open
<1>2. Len(reports) \in Nat
  BY LenProperties DEF BenchInv
<1>3. Task' = Task /\ Calls' = Calls
  BY <1>1 DEF Task, Calls
<1>4. \A t \in Task : task'[t] = "loop"
  BY DEF Open
<1> QED BY <1>1, <1>2, <1>3, <1>4 DEF BenchInv, Open

\* Submitting: the call that is new is the one that the task awaits.
LEMMA SubmitStep ==
  ASSUME BenchInv, NEW t \in Task, NEW sent \in Nat, NEW status \in Statuses,
         Submit(t, sent, status)
  PROVE  /\ BenchInv'
         /\ \A c \in pool' : c \in pool \/ (/\ c.task = t /\ c.window = window
                                            /\ c.sent = sent /\ c.status = status)
<1> DEFINE call == [window |-> window, task |-> t, loan_id |-> loan_id(t),
                    sent |-> sent, status |-> status]
<1>1. /\ args.max_seq \in Nat /\ args.rows \in Nat /\ \A u \in Task : id_base(u) \in Int
      /\ UNCHANGED <<args, phase, window, committed, reports, recorded, untold>>
      /\ task' = [task EXCEPT ![t] = "call"]
      /\ seq' = [seq EXCEPT ![t] = @ + 1]
      /\ pool' = pool \cup {call}
      /\ phase = "open" /\ task[t] = "loop" /\ seq[t] <= args.max_seq
  BY ArgsType DEF BenchInv, Submit
<1>2. Task' = Task /\ Calls' = Calls /\ \A u \in Task : id_base(u)' = id_base(u)
  BY <1>1 DEF Task, Calls, id_base
<1>3. seq[t] \in 1 .. args.max_seq + 1 /\ task \in [Task -> {"loop", "call", "ended"}]
      /\ seq \in [Task -> 1 .. args.max_seq + 1] /\ committed \in [Task -> Nat]
  BY DEF BenchInv
<1>4. loan_id(t) \in Int /\ call \in Calls
  BY <1>1, <1>3 DEF loan_id, Calls, BenchInv
<1>5. seq' \in [Task -> 1 .. args.max_seq + 1] /\ task' \in [Task -> {"loop", "call", "ended"}]
  BY <1>1, <1>3
<1>6. \A u \in Task : committed[u] + (IF task'[u] = "call" THEN 2 ELSE 1) <= seq'[u]
  <2> TAKE u \in Task
  <2>1. /\ committed[u] + (IF task[u] = "call" THEN 2 ELSE 1) <= seq[u]
        /\ committed[u] \in Nat /\ seq[u] \in Nat
    BY <1>1, <1>3 DEF BenchInv
  <2>2. CASE u = t
    <3>1. task'[u] = "call" /\ seq'[u] = seq[u] + 1 /\ task[u] = "loop"
      BY <1>1, <1>3, <2>2
    <3> QED BY <2>1, <3>1
  <2>3. CASE u # t
    <3>1. task'[u] = task[u] /\ seq'[u] = seq[u]
      BY <1>1, <1>3, <2>3
    <3> QED BY <2>1, <3>1
  <2> QED BY <2>2, <2>3
<1>7. ASSUME NEW u \in Task, task'[u] = "call"
      PROVE  \E c \in pool' : AwaitedBy(u, c)'
  <2>1. CASE u = t
    <3>1. call \in pool' /\ call.task = t /\ call.window = window'
      BY <1>1
    <3>2. loan_id(t)' = loan_id(t) + 1
      BY <1>1, <1>2, <1>3 DEF loan_id
    <3>3. loan_id(u)' = loan_id(t) + 1
      BY <2>1, <3>2, Zenon
    <3>4. call.loan_id = loan_id(u)' - 1
      BY <1>4, <3>3
    <3>5. \E c \in pool' : c.task = u /\ c.window = window' /\ c.loan_id = loan_id(u)' - 1
      BY <2>1, <3>1, <3>4
    <3> QED BY <3>5 DEF AwaitedBy
  <2>2. CASE u # t
    <3>1. seq'[u] = seq[u] /\ task'[u] = task[u]
      BY <1>1, <1>3, <2>2
    <3>2. PICK c \in pool : AwaitedBy(u, c)
      BY <1>7, <3>1 DEF BenchInv
    <3> QED BY <1>1, <1>2, <3>1, <3>2 DEF AwaitedBy, loan_id
  <2> QED BY <2>1, <2>2
<1>8. pool' \subseteq Calls'
  BY <1>1, <1>2, <1>4 DEF BenchInv
<1>9. BenchInv'
  BY <1>1, <1>2, <1>5, <1>6, <1>7, <1>8 DEF BenchInv
<1> QED BY <1>1, <1>9

\* The other steps of a task leave the numbers of the loans alone.
LEMMA EndStep ==
  ASSUME BenchInv, NEW t \in Task, End(t)
  PROVE  BenchInv'
<1>1. /\ UNCHANGED <<args, phase, window, seq, committed, reports, pool, recorded, untold>>
      /\ task' = [task EXCEPT ![t] = "ended"] /\ phase = "closing"
      /\ Task' = Task /\ Calls' = Calls /\ \A u \in Task : id_base(u)' = id_base(u)
  BY DEF End, Task, Calls, id_base
<1>2. \A u \in Task : task'[u] = "call" => task[u] = "call"
  BY <1>1 DEF BenchInv
<1>3. \A u \in Task : committed[u] + (IF task'[u] = "call" THEN 2 ELSE 1) <= seq[u]
  <2>1. \A u \in Task : committed[u] \in Nat /\ seq[u] \in Nat
    BY ArgsType DEF BenchInv
  <2> QED BY <1>2, <2>1 DEF BenchInv
<1>4. \A u \in Task : task'[u] = "call" => \E c \in pool' : AwaitedBy(u, c)'
  BY <1>1, <1>2 DEF BenchInv, AwaitedBy, loan_id
<1> QED BY <1>1, <1>3, <1>4 DEF BenchInv

\* Settling: a call changes its status, or goes, if nobody waits for it.
LEMMA SettleStep ==
  ASSUME BenchInv, NEW c \in pool, NEW announced \in BOOLEAN, NEW status \in Statuses,
         Settle(c, announced, status)
  PROVE  /\ BenchInv'
         /\ \A d \in pool' : d \in pool \/ (Awaited(c) /\ d = [c EXCEPT !.status = status])
<1>1. /\ UNCHANGED <<args, phase, window, task, seq, committed, reports, untold>>
      /\ pool' = (pool \ {c}) \cup (IF Awaited(c) THEN {[c EXCEPT !.status = status]} ELSE {})
      /\ Task' = Task /\ Calls' = Calls /\ \A u \in Task : id_base(u)' = id_base(u)
  BY DEF Settle, Task, Calls, id_base
<1>2. c \in Calls
  BY DEF BenchInv
<1>3. [c EXCEPT !.status = status] \in Calls
  BY <1>2 DEF Calls
<1>4. ASSUME NEW u \in Task, task[u] = "call"
      PROVE  \E d \in pool' : AwaitedBy(u, d)'
  <2>1. PICK d \in pool : AwaitedBy(u, d)
    BY <1>4 DEF BenchInv
  <2>2. CASE d # c
    BY <1>1, <2>1, <2>2 DEF AwaitedBy, loan_id
  <2>3. CASE d = c
    <3>1. Awaited(c)
      BY <1>4, <2>1, <2>3, OneAwaited
    <3>2. DEFINE e == [c EXCEPT !.status = status]
    <3>3. e \in pool' /\ e.task = c.task /\ e.window = c.window /\ e.loan_id = c.loan_id
      BY <1>1, <1>2, <3>1 DEF Calls
    <3> HIDE DEF e
    <3> QED BY <1>1, <2>1, <2>3, <3>3 DEF AwaitedBy, loan_id
  <2> QED BY <2>2, <2>3
<1>5. BenchInv'
  BY <1>1, <1>3, <1>4 DEF BenchInv
<1> QED BY <1>1, <1>5

\* An answer or an error: the task goes on, and has counted at most one more.
LEMMA ReturnStep ==
  ASSUME BenchInv, NEW c \in pool, Awaited(c),
         pool \ {c} \subseteq pool', pool' \subseteq pool,
         task' = [task EXCEPT ![c.task] = "loop"],
         \/ committed' = committed
         \/ committed' = [committed EXCEPT ![c.task] = @ + 1],
         UNCHANGED <<args, phase, window, seq, reports>>
  PROVE  BenchInv'
<1>1. /\ Task' = Task /\ Calls' = Calls /\ \A u \in Task : id_base(u)' = id_base(u)
  BY DEF Task, Calls, id_base
<1>2. c.task \in Task /\ task[c.task] = "call"
  BY DEF BenchInv, Calls, Awaited
<1>3. \A u \in Task : committed[u] \in Nat /\ seq[u] \in Nat
  BY ArgsType DEF BenchInv
<1>4. committed' \in [Task -> Nat]
  BY <1>3 DEF BenchInv
<1>5. ASSUME NEW u \in Task
      PROVE  committed'[u] + (IF task'[u] = "call" THEN 2 ELSE 1) <= seq[u]
  <2>1. committed[u] + (IF task[u] = "call" THEN 2 ELSE 1) <= seq[u]
    BY DEF BenchInv
  <2>2. CASE u = c.task
    <3>1. task'[u] = "loop" /\ committed'[u] \in {committed[u], committed[u] + 1}
      BY <1>2, <2>2 DEF BenchInv
    <3> QED BY <1>2, <1>3, <2>1, <2>2, <3>1
  <2>3. CASE u # c.task
    <3>1. task'[u] = task[u] /\ committed'[u] = committed[u]
      BY <1>2, <2>3 DEF BenchInv
    <3> QED BY <2>1, <3>1
  <2> QED BY <2>2, <2>3
<1>6. ASSUME NEW u \in Task, task'[u] = "call"
      PROVE  \E d \in pool' : AwaitedBy(u, d)'
  <2>1. u # c.task /\ task[u] = "call"
    BY <1>2, <1>6 DEF BenchInv
  <2>2. PICK d \in pool : AwaitedBy(u, d)
    BY <2>1 DEF BenchInv
  <2>3. d # c
    BY <2>1, <2>2 DEF AwaitedBy, loan_id
  <2> QED BY <1>1, <2>2, <2>3 DEF AwaitedBy, loan_id
<1>7. phase \in {"open", "closing"}
  BY <1>2 DEF BenchInv
<1> QED BY <1>1, <1>2, <1>4, <1>5, <1>6, <1>7 DEF BenchInv

LEMMA AnswerStep ==
  ASSUME BenchInv, NEW c, NEW success \in BOOLEAN, NEW tells \in BOOLEAN, Answer(c, success, tells)
  PROVE  BenchInv' /\ pool' \subseteq pool
<1>1. c \in pool /\ Awaited(c) /\ pool' = pool \ {c}
  BY DEF Answer
<1>2. c.task \in Task /\ committed \in [Task -> Nat]
  BY <1>1 DEF BenchInv, Calls
<1>3. \/ committed' = committed
      \/ committed' = [committed EXCEPT ![c.task] = @ + 1]
  <2>1. CASE success
    BY <2>1 DEF Answer
  <2>2. CASE ~success
    BY <1>2, <2>2 DEF Answer
  <2> QED BY <2>1, <2>2
<1> QED BY <1>1, <1>3, ReturnStep DEF Answer

LEMMA GiveUpStep ==
  ASSUME BenchInv, NEW c, NEW pending \in BOOLEAN, GiveUp(c, pending)
  PROVE  BenchInv' /\ pool' \subseteq pool
<1>1. c \in pool /\ Awaited(c) /\ pool' \in {pool, pool \ {c}}
  BY DEF GiveUp
<1> QED BY <1>1, ReturnStep DEF GiveUp

LEMMA StopStep ==
  ASSUME BenchInv, Stop
  PROVE  BenchInv'
<1>1. args.rows \in Nat /\ args.rows > 0
  BY ArgsType DEF BenchInv
<1> QED BY <1>1 DEF BenchInv, Stop, Task, Calls, AwaitedBy, loan_id, id_base

LEMMA ReportStep ==
  ASSUME BenchInv, Report
  PROVE  BenchInv'
<1>1. /\ UNCHANGED <<args, window, task, pool, recorded, untold>> /\ phase = "closing"
      /\ phase' = IF window + 1 \notin Windows THEN "done" ELSE "between"
      /\ seq' = [t \in Task |-> 1] /\ committed' = [t \in Task |-> 0]
      /\ \A t \in Task : task[t] = "ended"
      /\ Task' = Task /\ Calls' = Calls
  BY DEF Report, Task, Calls
<1>2. args.rows \in Nat /\ args.max_seq \in Nat
  BY ArgsType DEF BenchInv
<1>3. window < 2 * args.rows \/ phase' = "done"
  BY <1>1, <1>2 DEF Windows, BenchInv
<1>4. (\E S : reports' \in Seq(S)) /\ Len(reports') = Len(reports) + 1
  <2> DEFINE added == total(committed, args.concurrent)
  <2>1. reports' = Append(reports, added)
    BY DEF Report
  <2> HIDE DEF added
  <2>2. PICK S : reports \in Seq(S)
    BY DEF BenchInv
  <2>3. reports \in Seq(S \cup {added})
    BY <2>2
  <2> QED BY <2>1, <2>3, AppendProperties
<1>5. Len(reports) \in Nat
  BY LenProperties DEF BenchInv
<1> QED BY <1>1, <1>2, <1>3, <1>4, <1>5 DEF BenchInv

----------------------------------------------------------------------------
(***************************************************************************)
(* What is counted is recorded.  First the sum of the counts: a recursive  *)
(* function, of which facts are shown by induction on a set of numbers.    *)
(***************************************************************************)
\* A nonempty set of natural numbers has a least element.
LEMMA LeastOf ==
  ASSUME NEW S \in SUBSET Nat, S # {}
  PROVE  \E x \in S : \A y \in S : x <= y
<1> DEFINE R == OpToRel(<, Nat)
<1>1. IsWellFoundedOn(R, Nat)
  BY NatLessThanWellFounded, Zenon
<1>2. \A x, y \in Nat : <<x, y>> \in R <=> x < y
  BY Zenon DEF OpToRel
<1> HIDE DEF R
<1>3. PICK x \in S : \A y \in S : ~ (<<y, x>> \in R)
  BY <1>1, WFMin
<1>4. \A y \in S : x \in Nat /\ y \in Nat /\ ~ (y < x)
  BY <1>2, <1>3
<1>5. \A y \in S : x <= y
  BY <1>4
<1> QED BY <1>5

\* Induction: what holds of 0, and of n + 1 when it holds of n, holds of all.
LEMMA FromZero ==
  ASSUME NEW S, 0 \in S, \A n \in Nat : n \in S => n + 1 \in S
  PROVE  \A n \in Nat : n \in S
<1> SUFFICES ASSUME Nat \ S # {} PROVE FALSE
  OBVIOUS
<1>1. PICK x \in Nat \ S : \A y \in Nat \ S : x <= y
  BY LeastOf
<1>2. x # 0 /\ x - 1 \in Nat
  BY <1>1
<1>3. x - 1 \in S
  BY <1>1, <1>2
<1>4. (x - 1) + 1 = x
  BY <1>1
<1> QED BY <1>1, <1>2, <1>3, <1>4

\* The sum satisfies its equation.
LEMMA TotalEquation ==
  ASSUME NEW counts, NEW n \in Nat
  PROVE  \E f : /\ f[0] = 0
                /\ \A k \in 1 .. n : f[k] = f[k - 1] + counts[k - 1]
                /\ total(counts, n) = f[n]
<1> DEFINE P(g, m) == g = [k \in 0 .. m |-> IF k = 0 THEN 0 ELSE g[k - 1] + counts[k - 1]]
           S == {m \in Nat : \E g : P(g, m)}
<1>1. 0 \in S
  <2>1. P([k \in 0 .. 0 |-> 0], 0)
    OBVIOUS
  <2> QED BY <2>1
<1>2. ASSUME NEW m \in Nat, m \in S PROVE m + 1 \in S
  <2>1. PICK g : P(g, m)
    BY <1>2
  <2>2. \A k \in 0 .. m : g[k] = IF k = 0 THEN 0 ELSE g[k - 1] + counts[k - 1]
    BY <2>1
  <2> DEFINE top == g[m] + counts[m]
             h == [k \in 0 .. m + 1 |-> IF k = m + 1 THEN top ELSE g[k]]
  <2> HIDE DEF top
  <2>3. ASSUME NEW k \in 0 .. m + 1
        PROVE  h[k] = IF k = 0 THEN 0 ELSE h[k - 1] + counts[k - 1]
    <3>1. CASE k = m + 1
      <4>1. h[k] = top /\ h[k - 1] = g[m] /\ k # 0 /\ k - 1 = m
        BY <3>1
      <4> QED BY <4>1 DEF top
    <3>2. CASE k # m + 1
      <4>1. h[k] = g[k] /\ k \in 0 .. m
        BY <3>2
      <4>2. k # 0 => h[k - 1] = g[k - 1]
        BY <3>2
      <4> QED BY <2>2, <4>1, <4>2
    <3> QED BY <3>1, <3>2
  <2>4. h = [k \in 0 .. m + 1 |-> h[k]]
    OBVIOUS
  <2> HIDE DEF h
  <2>5. P(h, m + 1)
    BY <2>3, <2>4
  <2> QED BY <2>5
<1>3. n \in S
  <2> HIDE DEF S
  <2> QED BY <1>1, <1>2, FromZero
<1>4. \E g : P(g, n)
  BY <1>3
<1> DEFINE f == CHOOSE g : P(g, n)
<1>5. P(f, n)
  BY <1>4, Zenon
<1>6. total(counts, n) = f[n]
  BY Zenon DEF total
<1> HIDE DEF f
<1>7. f[0] = 0 /\ \A k \in 1 .. n : f[k] = f[k - 1] + counts[k - 1]
  BY <1>5
<1> QED BY <1>6, <1>7

\* Counts of the same first n tasks have the same sum, and one more count is
\* added to it.
LEMMA TotalNext ==
  ASSUME NEW n \in Nat, NEW counts, NEW more,
         \A k \in 0 .. n - 1 : counts[k] \in Nat /\ more[k] = counts[k],
         more[n] \in Nat
  PROVE  /\ total(counts, n) \in Nat
         /\ total(more, n + 1) = total(counts, n) + more[n]
<1>1. PICK f : /\ f[0] = 0
               /\ \A k \in 1 .. n : f[k] = f[k - 1] + counts[k - 1]
               /\ total(counts, n) = f[n]
  BY TotalEquation
<1>2. PICK g : /\ g[0] = 0
               /\ \A k \in 1 .. n + 1 : g[k] = g[k - 1] + more[k - 1]
               /\ total(more, n + 1) = g[n + 1]
  <2>1. n + 1 \in Nat
    OBVIOUS
  <2> QED BY <2>1, TotalEquation
<1> DEFINE S == {k \in Nat : k <= n => f[k] \in Nat /\ g[k] = f[k]}
<1>3. 0 \in S
  BY <1>1, <1>2
<1>4. ASSUME NEW k \in Nat, k \in S PROVE k + 1 \in S
  <2> SUFFICES ASSUME k + 1 <= n PROVE f[k + 1] \in Nat /\ g[k + 1] = f[k + 1]
    OBVIOUS
  <2>1. k + 1 \in 1 .. n /\ k + 1 \in 1 .. n + 1 /\ (k + 1) - 1 = k /\ k \in 0 .. n - 1 /\ k <= n
    OBVIOUS
  <2>2. f[k + 1] = f[k] + counts[k] /\ g[k + 1] = g[k] + more[k]
    BY <1>1, <1>2, <2>1
  <2> QED BY <1>4, <2>1, <2>2
<1>5. n \in S
  <2> HIDE DEF S
  <2> QED BY <1>3, <1>4, FromZero
<1>6. n + 1 \in 1 .. n + 1 /\ (n + 1) - 1 = n
  OBVIOUS
<1>7. g[n + 1] = g[n] + more[n]
  BY <1>2, <1>6
<1> QED BY <1>1, <1>2, <1>5, <1>7

LEMMA TotalType ==
  ASSUME NEW n \in Nat, NEW counts, \A k \in 0 .. n - 1 : counts[k] \in Nat
  PROVE  total(counts, n) \in Nat
<1> DEFINE more == [k \in 0 .. n |-> IF k = n THEN 0 ELSE counts[k]]
<1>1. (\A k \in 0 .. n - 1 : more[k] = counts[k]) /\ more[n] \in Nat
  OBVIOUS
<1> HIDE DEF more
<1> QED BY <1>1, TotalNext

\* Nothing counted adds up to nothing.
LEMMA TotalZeros ==
  ASSUME NEW n \in Nat, NEW counts, \A k \in 0 .. n - 1 : counts[k] = 0
  PROVE  total(counts, n) = 0
<1>1. PICK f : /\ f[0] = 0
               /\ \A k \in 1 .. n : f[k] = f[k - 1] + counts[k - 1]
               /\ total(counts, n) = f[n]
  BY TotalEquation
<1> DEFINE S == {k \in Nat : k <= n => f[k] = 0}
<1>2. 0 \in S
  BY <1>1
<1>3. ASSUME NEW k \in Nat, k \in S PROVE k + 1 \in S
  <2> SUFFICES ASSUME k + 1 <= n PROVE f[k + 1] = 0
    OBVIOUS
  <2>1. k + 1 \in 1 .. n /\ (k + 1) - 1 = k /\ k \in 0 .. n - 1 /\ k <= n
    OBVIOUS
  <2>2. f[k + 1] = f[k] + counts[k]
    BY <1>1, <2>1
  <2> QED BY <1>3, <2>1, <2>2
<1>4. n \in S
  <2> HIDE DEF S
  <2> QED BY <1>2, <1>3, FromZero
<1> QED BY <1>1, <1>4

\* Of the first n tasks, t has one more.
OneMore(more, counts, n, t) ==
  /\ \A k \in 0 .. n - 1 : counts[k] \in Nat
  /\ \A k \in 0 .. n - 1 : more[k] = IF k = t THEN counts[k] + 1 ELSE counts[k]

\* One more of one task is one more in all.
LEMMA TotalOneMore ==
  ASSUME NEW n \in Nat, NEW t \in 0 .. n - 1, NEW counts, NEW more, OneMore(more, counts, n, t)
  PROVE  total(more, n) = total(counts, n) + 1
<1>1. PICK f : /\ f[0] = 0
               /\ \A k \in 1 .. n : f[k] = f[k - 1] + counts[k - 1]
               /\ total(counts, n) = f[n]
  BY TotalEquation
<1>2. PICK g : /\ g[0] = 0
               /\ \A k \in 1 .. n : g[k] = g[k - 1] + more[k - 1]
               /\ total(more, n) = g[n]
  BY TotalEquation
<1> DEFINE S == {k \in Nat : k <= n => f[k] \in Nat /\ g[k] = f[k] + (IF t < k THEN 1 ELSE 0)}
<1>3. 0 \in S
  BY <1>1, <1>2
<1>4. ASSUME NEW k \in Nat, k \in S PROVE k + 1 \in S
  <2> SUFFICES ASSUME k + 1 <= n
               PROVE  f[k + 1] \in Nat /\ g[k + 1] = f[k + 1] + (IF t < k + 1 THEN 1 ELSE 0)
    OBVIOUS
  <2>1. k + 1 \in 1 .. n /\ (k + 1) - 1 = k /\ k \in 0 .. n - 1 /\ k <= n
    OBVIOUS
  <2>2. f[k + 1] = f[k] + counts[k] /\ g[k + 1] = g[k] + more[k]
    BY <1>1, <1>2, <2>1
  <2>3. f[k] \in Nat /\ g[k] = f[k] + (IF t < k THEN 1 ELSE 0)
    BY <1>4, <2>1
  <2>4. counts[k] \in Nat /\ more[k] = IF k = t THEN counts[k] + 1 ELSE counts[k]
    BY <2>1 DEF OneMore
  <2> QED BY <2>1, <2>2, <2>3, <2>4
<1>5. n \in S
  <2> HIDE DEF S
  <2> QED BY <1>3, <1>4, FromZero
<1>6. g[n] = f[n] + 1
  BY <1>5
<1> QED BY <1>1, <1>2, <1>6

----------------------------------------------------------------------------
\* The loans of a task, in a window, that it has no answer for yet.
Unanswered(t) ==
  (IF task[t] = "call" THEN loan_id(t) - 1 ELSE loan_id(t)) .. id_base(t) + args.max_seq

\* As many loans as the tasks have counted, none of which they will name again.
Counted(loans) ==
  /\ Cardinality(loans) = total(committed, args.concurrent)
  /\ \A t \in Task : loans \cap Unanswered(t) = {}

\* The window's loans that are recorded, or whose answers did not tell.
Backed == recorded \cup untold

Executed(c) == c.status \in {"0x0", "success"}

\* Inductive, with BenchInv: the ledger has announced the loans that are
\* counted, but for those whose answers did not tell, and those that a success
\* is under way for, in this window; between the windows the counts are in the
\* last report.
CountInv ==
  /\ IsFiniteSet(recorded) /\ IsFiniteSet(untold)
  /\ \A c \in pool : c.window <= window
  /\ \A c \in pool : (c.window = window /\ Executed(c)) => c.loan_id \in recorded
  /\ \E loans \in SUBSET Backed : Counted(loans)
  /\ phase \notin {"open", "closing"} => \A t \in Task : committed[t] = 0
  /\ reports \in Seq(Nat)
  /\ Len(reports) = IF phase \in {"open", "closing"} THEN window - 1 ELSE window
  /\ (phase \in {"between", "done"} /\ reports # << >>) => Last(reports) <= Cardinality(Backed)

\* The numbers that the steps below compute with.
LEMMA CountTypes ==
  ASSUME BenchInv
  PROVE  /\ args.concurrent \in Nat /\ Task = 0 .. args.concurrent - 1
         /\ args.max_seq \in Nat /\ args.max_seq < IdRange /\ IdRange \in Nat
         /\ window \in Nat
         /\ \A t \in Task : /\ t \in Nat /\ id_base(t) = t * IdRange /\ id_base(t) \in Int
                            /\ seq[t] \in 1 .. args.max_seq + 1
                            /\ committed[t] \in Nat
                            /\ task[t] = "call" => seq[t] \in 2 .. args.max_seq + 1
                            /\ loan_id(t) = id_base(t) + seq[t]
<1>1. args.concurrent \in Nat /\ args.max_seq \in Nat /\ args.rows \in Nat
      /\ \A t \in Task : t \in Nat /\ id_base(t) \in Int
  BY ArgsType DEF BenchInv
<1>2. args.max_seq < IdRange /\ IdRange \in Nat
  BY BenchAssumption DEF BenchInv
<1>3. \A t \in Task : seq[t] \in 1 .. args.max_seq + 1 /\ committed[t] \in Nat
  BY DEF BenchInv
<1>4. \A t \in Task : task[t] = "call" => seq[t] \in 2 .. args.max_seq + 1
  BY <1>1, <1>3 DEF BenchInv
<1>5. window \in Nat
  BY <1>1 DEF BenchInv
<1> QED BY <1>1, <1>2, <1>3, <1>4, <1>5 DEF Task, id_base, loan_id

\* The tasks' loans do not collide: one that a task waits for is not one that
\* another task may still name.
LEMMA TasksApart ==
  ASSUME BenchInv, NEW t \in Task, NEW u \in Task, t # u, task[t] = "call"
  PROVE  loan_id(t) - 1 \notin Unanswered(u)
<1> DEFINE R == IdRange
<1>1. /\ t \in Nat /\ u \in Nat /\ R \in Nat /\ args.max_seq \in Nat /\ args.max_seq < R
      /\ id_base(t) = t * R /\ id_base(u) = u * R
      /\ id_base(t) \in Int /\ id_base(u) \in Int
      /\ seq[t] \in 2 .. args.max_seq + 1 /\ loan_id(t) = id_base(t) + seq[t]
      /\ seq[u] \in 1 .. args.max_seq + 1 /\ loan_id(u) = id_base(u) + seq[u]
      /\ task[u] = "call" => seq[u] \in 2 .. args.max_seq + 1
  BY CountTypes
<1> HIDE DEF R
<1>2. \A m, n \in Nat : m < n => m * R + R <= n * R
  BY <1>1
<1>3. CASE t < u
  <2>1. id_base(t) + R <= id_base(u)
    BY <1>1, <1>2, <1>3
  <2>2. loan_id(t) - 1 < id_base(u)
    BY <1>1, <2>1
  <2> QED BY <1>1, <2>2 DEF Unanswered
<1>4. CASE u < t
  <2>1. id_base(u) + R <= id_base(t)
    BY <1>1, <1>2, <1>4
  <2>2. loan_id(t) - 1 > id_base(u) + args.max_seq
    BY <1>1, <2>1
  <2> QED BY <1>1, <2>2 DEF Unanswered
<1> QED BY <1>1, <1>3, <1>4

\* Nothing is counted: none of the recorded loans is needed.
LEMMA CountedNothing ==
  ASSUME NEW n \in Nat, NEW counts, \A t \in 0 .. n - 1 : counts[t] = 0
  PROVE  Cardinality({}) = total(counts, n)
BY TotalZeros, FS_EmptySet

\* A step that counts nothing and after which no task may name more loans.
LEMMA SameCount ==
  ASSUME CountInv, UNCHANGED <<args, committed>>, Backed \subseteq Backed',
         \A t \in Task : Unanswered(t)' \subseteq Unanswered(t)
  PROVE  (\E loans \in SUBSET Backed : Counted(loans))'
<1>1. PICK loans \in SUBSET Backed : Counted(loans)
  BY DEF CountInv
<1>2. total(committed, args.concurrent)' = total(committed, args.concurrent)
  BY DEF total
<1>3. Task' = Task
  BY DEF Task
<1>4. \A t \in Task : loans \cap Unanswered(t)' = {}
  BY <1>1 DEF Counted
<1>5. Counted(loans)'
  BY <1>1, <1>2, <1>3, <1>4 DEF Counted
<1> QED BY <1>1, <1>5

\* More recorded loans are at least as many.
LEMMA MoreRecorded ==
  ASSUME NEW S, NEW T, IsFiniteSet(T), S \subseteq T
  PROVE  IsFiniteSet(S) /\ Cardinality(S) \in Nat /\ Cardinality(T) \in Nat
         /\ Cardinality(S) <= Cardinality(T)
BY FS_Subset, FS_CardinalityType

LEMMA InitCount == BenchInit => CountInv
<1> SUFFICES ASSUME BenchInit PROVE CountInv
  OBVIOUS
<1>1. BenchInv
  BY InitBench
<1>2. /\ phase = "setup" /\ window = 0 /\ reports = << >> /\ pool = {} /\ recorded = {} /\ untold = {}
      /\ \A t \in Task : committed[t] = 0
  BY DEF BenchInit
<1>3. Counted({})
  BY <1>1, <1>2, CountTypes, CountedNothing DEF Counted
<1>4. IsFiniteSet(recorded) /\ IsFiniteSet(untold)
  BY <1>2, FS_EmptySet
<1> QED BY <1>2, <1>3, <1>4 DEF CountInv

\* Steps before the first window, of other programs or of the clock: at most
\* the phase changes, and not to or from a window that is over.
LEMMA CountFrame ==
  ASSUME BenchInv, CountInv,
         UNCHANGED <<args, window, task, seq, committed, reports, pool, recorded, untold>>,
         \/ phase' = phase
         \/ phase = "setup" /\ phase' \in {"setup", "between", "failed"}
         \/ phase = "open" /\ phase' = "closing"
  PROVE  CountInv'
<1>1. Task' = Task
  BY DEF Task
<1>2. \A t \in Task : Unanswered(t)' \subseteq Unanswered(t)
  BY DEF Unanswered, loan_id, id_base
<1>3. (\E loans \in SUBSET Backed : Counted(loans))'
  BY <1>2, SameCount DEF Backed
<1>4. phase = "setup" => Len(reports) = 0
  BY DEF BenchInv, CountInv
<1>5. phase = "setup" => reports = << >>
  BY <1>4 DEF CountInv
<1>6. Last(reports)' = Last(reports) /\ Cardinality(Backed)' = Cardinality(Backed)
  BY DEF Last, Backed
<1> QED BY <1>1, <1>3, <1>5, <1>6 DEF CountInv, Executed, Backed

\* A window opens: no call is of it, and nothing is recorded in it.
LEMMA OpenCount ==
  ASSUME BenchInv, CountInv, Open
  PROVE  CountInv'
<1>1. /\ phase = "between" /\ phase' = "open" /\ window' = window + 1
      /\ recorded' = {} /\ untold' = {}
      /\ UNCHANGED <<args, seq, committed, reports, pool>>
      /\ Task' = Task
  BY DEF Open, Task
<1>2. window \in Nat /\ \A c \in pool : c.window \in Nat
  BY WindowType
<1>3. \A c \in pool' : c.window <= window' /\ c.window # window'
  BY <1>1, <1>2 DEF CountInv
<1>4. Counted({})'
  <2>1. Cardinality({}) = total(committed, args.concurrent)
    BY <1>1, CountTypes, CountedNothing DEF CountInv
  <2>2. total(committed, args.concurrent)' = total(committed, args.concurrent)
    BY <1>1 DEF total
  <2>3. Cardinality({})' = Cardinality({})
    OBVIOUS
  <2> QED BY <2>1, <2>2, <2>3 DEF Counted
<1>5. IsFiniteSet(recorded') /\ IsFiniteSet(untold')
  BY <1>1, FS_EmptySet
<1>6. (\E loans \in SUBSET Backed : Counted(loans))'
  BY <1>4
<1>7. Len(reports)' = window' - 1 /\ reports' \in Seq(Nat)
  BY <1>1, <1>2 DEF CountInv
<1> QED BY <1>1, <1>3, <1>5, <1>6, <1>7 DEF CountInv

\* A call that is new is not executed.
LEMMA SubmitCount ==
  ASSUME BenchInv, CountInv, NEW t \in Task, NEW sent, Submit(t, sent, "pending")
  PROVE  CountInv'
<1> DEFINE call == [window |-> window, task |-> t, loan_id |-> loan_id(t),
                    sent |-> sent, status |-> "pending"]
<1>1. /\ UNCHANGED <<args, phase, window, committed, reports, recorded, untold>>
      /\ task' = [task EXCEPT ![t] = "call"] /\ seq' = [seq EXCEPT ![t] = @ + 1]
      /\ pool' = pool \cup {call} /\ phase = "open" /\ task[t] = "loop"
      /\ Task' = Task
  BY DEF Submit, Task
<1>2. call.window = window /\ ~Executed(call) /\ window \in Nat
  BY WindowType DEF Executed
<1>3. /\ task \in [Task -> {"loop", "call", "ended"}]
      /\ seq \in [Task -> 1 .. args.max_seq + 1]
  BY DEF BenchInv
<1>4. ASSUME NEW u \in Task PROVE Unanswered(u)' \subseteq Unanswered(u)
  <2>1. id_base(u)' = id_base(u) /\ id_base(u) \in Int /\ seq[u] \in Nat
    BY CountTypes DEF id_base
  <2>2. CASE u = t
    <3>1. seq'[u] = seq[u] + 1 /\ task'[u] = "call" /\ task[u] # "call"
      BY <1>1, <1>3, <2>2
    <3> QED BY <1>1, <2>1, <3>1 DEF Unanswered, loan_id
  <2>3. CASE u # t
    <3>1. seq'[u] = seq[u] /\ task'[u] = task[u]
      BY <1>1, <1>3, <2>3
    <3> QED BY <1>1, <2>1, <3>1 DEF Unanswered, loan_id
  <2> QED BY <2>2, <2>3
<1>5. (\E loans \in SUBSET Backed : Counted(loans))'
  BY <1>1, <1>4, SameCount DEF Backed
<1> HIDE DEF call
<1>6. \A c \in pool' : c.window <= window' /\ ((c.window = window' /\ Executed(c)) => c.loan_id \in recorded')
  BY <1>1, <1>2 DEF CountInv
<1> QED BY <1>1, <1>5, <1>6 DEF CountInv, Executed, Backed

LEMMA EndCount ==
  ASSUME BenchInv, CountInv, NEW t \in Task, End(t)
  PROVE  CountInv'
<1>1. /\ UNCHANGED <<args, phase, window, seq, committed, reports, pool, recorded, untold>>
      /\ task' = [task EXCEPT ![t] = "ended"] /\ task[t] = "loop" /\ phase = "closing"
      /\ Task' = Task
  BY DEF End, Task
<1>2. \A u \in Task : task'[u] = "call" <=> task[u] = "call"
  BY <1>1 DEF BenchInv
<1>3. \A u \in Task : Unanswered(u)' \subseteq Unanswered(u)
  BY <1>1, <1>2 DEF Unanswered, loan_id, id_base
<1>4. (\E loans \in SUBSET Backed : Counted(loans))'
  BY <1>1, <1>3, SameCount DEF Backed
<1> QED BY <1>1, <1>4 DEF CountInv, Executed, Backed

\* A call is executed with the record that is announced; a call of an earlier
\* window is not recorded in this one.
LEMMA SettleCount ==
  ASSUME BenchInv, CountInv, NEW c \in pool, NEW announced \in BOOLEAN, NEW status \in Statuses,
         Settle(c, announced, status), status \in {"0x0", "success"} => announced
  PROVE  /\ CountInv'
         /\ Cardinality(recorded') <= Cardinality(recorded)
                                        + (IF announced /\ c.window = window THEN 1 ELSE 0)
<1> DEFINE e == [c EXCEPT !.status = status]
<1>1. /\ UNCHANGED <<args, phase, window, task, seq, committed, reports, untold>>
      /\ pool' = (pool \ {c}) \cup (IF Awaited(c) THEN {e} ELSE {})
      /\ recorded' = IF announced /\ c.window = window THEN recorded \cup {c.loan_id} ELSE recorded
      /\ Task' = Task
  BY DEF Settle, Task
<1>2. c \in Calls
  BY WindowType
<1>3. e.window = c.window /\ e.loan_id = c.loan_id /\ e.status = status
  BY <1>2 DEF Calls
<1> HIDE DEF e
<1>4. \A u \in Task : Unanswered(u)' \subseteq Unanswered(u)
  BY <1>1 DEF Unanswered, loan_id, id_base
<1>5. recorded \subseteq recorded' /\ Backed \subseteq Backed'
  BY <1>1 DEF Backed
<1>6. (\E loans \in SUBSET Backed : Counted(loans))'
  BY <1>1, <1>4, <1>5, SameCount
<1>7. /\ IsFiniteSet(recorded') /\ Cardinality(recorded) \in Nat
      /\ Cardinality(recorded') \in Nat /\ Cardinality(recorded) <= Cardinality(recorded')
      /\ Cardinality(recorded') <= Cardinality(recorded)
                                     + (IF announced /\ c.window = window THEN 1 ELSE 0)
  <2>1. IsFiniteSet(recorded)
    BY DEF CountInv
  <2>2. Cardinality(recorded) \in Nat
    BY <2>1, FS_CardinalityType
  <2>3. CASE announced /\ c.window = window
    <3>1. recorded' = recorded \cup {c.loan_id}
      BY <1>1, <2>3
    <3>2. /\ IsFiniteSet(recorded \cup {c.loan_id})
          /\ Cardinality(recorded \cup {c.loan_id})
               = IF c.loan_id \in recorded THEN Cardinality(recorded) ELSE Cardinality(recorded) + 1
      BY <2>1, FS_AddElement
    <3> QED BY <2>2, <2>3, <3>1, <3>2
  <2>4. CASE ~(announced /\ c.window = window)
    BY <1>1, <2>1, <2>2, <2>4
  <2> QED BY <2>3, <2>4
<1>8. ASSUME NEW d \in pool'
      PROVE  d.window <= window' /\ ((d.window = window' /\ Executed(d)) => d.loan_id \in recorded')
  <2>1. CASE d \in pool
    BY <1>1, <1>5, <2>1 DEF CountInv
  <2>2. CASE d = e
    BY <1>1, <1>3, <2>2 DEF CountInv, Executed
  <2> QED BY <1>1, <2>1, <2>2
<1>9. (phase' \in {"between", "done"} /\ reports' # << >>) => Last(reports') <= Cardinality(Backed')
  <2> SUFFICES ASSUME phase \in {"between", "done"}, reports # << >>
               PROVE  Last(reports) <= Cardinality(Backed')
    BY <1>1
  <2>1. Last(reports) \in Nat
    BY DEF CountInv, Last
  <2>2. Last(reports) <= Cardinality(Backed)
    BY DEF CountInv
  <2>3. IsFiniteSet(Backed')
    BY <1>1, <1>7, FS_Union DEF CountInv, Backed
  <2> QED BY <1>5, <2>1, <2>2, <2>3, MoreRecorded
<1>10. Last(reports)' = Last(reports') /\ Cardinality(Backed)' = Cardinality(Backed')
       /\ IsFiniteSet(recorded)' <=> IsFiniteSet(recorded')
  BY DEF Last
<1>11. CountInv'
  BY <1>1, <1>6, <1>7, <1>8, <1>9, <1>10 DEF CountInv, Executed
<1> QED BY <1>7, <1>11

\* A task goes on: the loan it has waited for is not one that it, or another
\* task, may name again.
LEMMA ReturnCount ==
  ASSUME BenchInv, CountInv, NEW c \in pool, Awaited(c),
         task' = [task EXCEPT ![c.task] = "loop"]
  PROVE  /\ c.task \in Task /\ task[c.task] = "call"
         /\ c.loan_id \in Unanswered(c.task)
         /\ phase \in {"open", "closing"}
         /\ UNCHANGED <<args, seq>> =>
              \A u \in Task : Unanswered(u)' \subseteq Unanswered(u) /\ c.loan_id \notin Unanswered(u)'
<1> DEFINE t == c.task
<1>1. /\ t \in Task /\ task[t] = "call" /\ c.loan_id = loan_id(t) - 1
      /\ task \in [Task -> {"loop", "call", "ended"}]
  <2>1. c \in Calls /\ task \in [Task -> {"loop", "call", "ended"}]
    BY WindowType DEF BenchInv
  <2> QED BY <2>1 DEF Calls, Awaited
<1>2. phase \in {"open", "closing"}
  BY <1>1 DEF BenchInv
<1> HIDE DEF t
<1>3. /\ id_base(t) \in Int /\ seq[t] \in 2 .. args.max_seq + 1 /\ args.max_seq \in Nat
      /\ loan_id(t) = id_base(t) + seq[t]
  BY <1>1, CountTypes
<1>4. c.loan_id \in Unanswered(t)
  BY <1>1, <1>3 DEF Unanswered
<1>5. ASSUME UNCHANGED <<args, seq>>, NEW u \in Task
      PROVE  Unanswered(u)' \subseteq Unanswered(u) /\ c.loan_id \notin Unanswered(u)'
  <2>1. id_base(u)' = id_base(u) /\ loan_id(u)' = loan_id(u)
    BY <1>5 DEF id_base, loan_id
  <2>2. CASE u = t
    <3>1. task'[u] = "loop"
      BY <1>1, <2>2 DEF t
    <3>2. Unanswered(u)' = loan_id(t) .. id_base(t) + args.max_seq
      BY <1>5, <2>1, <2>2, <3>1 DEF Unanswered
    <3>3. Unanswered(u) = loan_id(t) - 1 .. id_base(t) + args.max_seq
      BY <1>1, <2>2 DEF Unanswered
    <3> QED BY <1>1, <1>3, <3>2, <3>3
  <2>3. CASE u # t
    <3>1. task'[u] = task[u]
      BY <1>1, <2>3 DEF t
    <3>2. Unanswered(u)' = Unanswered(u)
      BY <1>5, <2>1, <3>1 DEF Unanswered
    <3> QED BY <1>1, <2>3, <3>2, TasksApart
  <2> QED BY <2>2, <2>3
<1> QED BY <1>1, <1>2, <1>4, <1>5 DEF t

\* An answer: if it is a success, the loan is recorded, or the answer did not
\* tell, and it is not counted yet.
LEMMA AnswerCount ==
  ASSUME BenchInv, CountInv, NEW c, NEW success \in BOOLEAN, NEW tells \in BOOLEAN, Answer(c, success, tells),
         success => Executed(c) \/ ~tells
  PROVE  CountInv'
<1>1. /\ c \in pool /\ Awaited(c) /\ pool' = pool \ {c}
      /\ task' = [task EXCEPT ![c.task] = "loop"]
      /\ committed' = [committed EXCEPT ![c.task] = IF success THEN @ + 1 ELSE @]
      /\ untold' = IF tells THEN untold ELSE untold \cup {c.loan_id}
      /\ UNCHANGED <<args, phase, window, seq, reports, recorded>>
      /\ Task' = Task
  BY DEF Answer, Task
<1>2. /\ c.task \in Task /\ c.loan_id \in Unanswered(c.task) /\ phase \in {"open", "closing"}
      /\ c.window = window
      /\ \A u \in Task : Unanswered(u)' \subseteq Unanswered(u) /\ c.loan_id \notin Unanswered(u)'
  BY <1>1, ReturnCount DEF Awaited
<1>3. /\ args.concurrent \in Nat /\ Task = 0 .. args.concurrent - 1
      /\ committed \in [Task -> Nat] /\ IsFiniteSet(recorded) /\ IsFiniteSet(untold)
  BY CountTypes DEF BenchInv, CountInv
<1>0. /\ Backed \subseteq Backed' /\ IsFiniteSet(Backed) /\ IsFiniteSet(untold')
      /\ untold \subseteq untold'
  BY <1>1, <1>3, FS_Union, FS_AddElement DEF Backed
<1>4. PICK loans \in SUBSET Backed : Counted(loans)
  BY DEF CountInv
<1>5. total(committed, args.concurrent)' = total(committed', args.concurrent)
  BY <1>1 DEF total
<1>6. CASE success
  <2> DEFINE more == loans \cup {c.loan_id}
  <2>1. c.loan_id \in Backed'
    BY <1>1, <1>2, <1>6 DEF CountInv, Backed
  <2>2. c.loan_id \notin loans
    BY <1>2, <1>4 DEF Counted
  <2>3. Cardinality(more) = Cardinality(loans) + 1
    BY <1>0, <1>4, <2>2, FS_Subset, FS_AddElement
  <2>4. total(committed', args.concurrent) = total(committed, args.concurrent) + 1
    <3>1. \A k \in Task : committed'[k] = IF k = c.task THEN committed[k] + 1 ELSE committed[k]
      BY <1>1, <1>3, <1>6
    <3>2. args.concurrent \in Nat /\ c.task \in 0 .. args.concurrent - 1
      BY <1>2, <1>3
    <3>3. OneMore(committed', committed, args.concurrent, c.task)
      BY <1>3, <3>1 DEF OneMore
    <3> QED BY <3>2, <3>3, TotalOneMore, Zenon
  <2>5. \A u \in Task : more \cap Unanswered(u)' = {}
    BY <1>2, <1>4 DEF Counted
  <2>6. Cardinality(more) = total(committed, args.concurrent)'
    BY <1>4, <1>5, <2>3, <2>4 DEF Counted
  <2>7. Counted(more)'
    BY <1>1, <2>5, <2>6 DEF Counted
  <2>8. more \in SUBSET Backed'
    BY <1>0, <1>4, <2>1
  <2>9. (\E l \in SUBSET Backed : Counted(l))'
    <3> HIDE DEF more
    <3> QED BY <2>7, <2>8
  <2> QED BY <1>0, <1>1, <1>2, <2>9 DEF CountInv, Executed
<1>7. CASE ~success
  <2>1. committed' = committed
    BY <1>1, <1>3, <1>7
  <2>2. (\E l \in SUBSET Backed : Counted(l))'
    BY <1>0, <1>1, <1>2, <2>1, SameCount
  <2> QED BY <1>0, <1>1, <1>2, <2>2 DEF CountInv, Executed
<1> QED BY <1>6, <1>7

LEMMA GiveUpCount ==
  ASSUME BenchInv, CountInv, NEW c, NEW pending \in BOOLEAN, GiveUp(c, pending)
  PROVE  CountInv'
<1>1. /\ c \in pool /\ Awaited(c) /\ pool' \subseteq pool
      /\ task' = [task EXCEPT ![c.task] = "loop"]
      /\ UNCHANGED <<args, phase, window, seq, committed, reports, recorded, untold>>
      /\ Task' = Task
  BY DEF GiveUp, Task
<1>2. /\ phase \in {"open", "closing"}
      /\ \A u \in Task : Unanswered(u)' \subseteq Unanswered(u)
  BY <1>1, ReturnCount
<1>3. (\E l \in SUBSET Backed : Counted(l))'
  BY <1>1, <1>2, SameCount DEF Backed
<1> QED BY <1>1, <1>2, <1>3 DEF CountInv, Executed, Backed

\* The sum of the counts is at most the number of the window's records and of
\* the answers that did not tell.
LEMMA TotalRecorded ==
  ASSUME BenchInv, CountInv
  PROVE  /\ total(committed, args.concurrent) \in Nat
         /\ Cardinality(Backed) \in Nat
         /\ total(committed, args.concurrent) <= Cardinality(Backed)
<1>1. PICK loans \in SUBSET Backed : Counted(loans)
  BY DEF CountInv
<1>2. IsFiniteSet(Backed)
  BY FS_Union DEF CountInv, Backed
<1> QED BY <1>1, <1>2, MoreRecorded DEF Counted

\* The report of a window, and counts from the beginning.
LEMMA ReportCount ==
  ASSUME BenchInv, CountInv, Report
  PROVE  CountInv'
<1> DEFINE added == total(committed, args.concurrent)
<1>1. /\ phase = "closing" /\ phase' \in {"between", "done"}
      /\ reports' = Append(reports, added)
      /\ committed' = [t \in Task |-> 0]
      /\ UNCHANGED <<args, window, task, pool, recorded, untold>> /\ Task' = Task
  BY DEF Report, Task
<1>2. added \in Nat /\ Cardinality(Backed) \in Nat /\ added <= Cardinality(Backed)
  BY TotalRecorded
<1>3. reports \in Seq(Nat) /\ Len(reports) = window - 1 /\ window \in Nat
  BY <1>1, WindowType DEF CountInv
<1> HIDE DEF added
<1>4. reports' \in Seq(Nat) /\ Len(reports') = window' /\ Last(reports') = added
  BY <1>1, <1>2, <1>3 DEF Last
<1>5. Counted({})'
  <2>1. Cardinality({}) = total(committed', args.concurrent)
    <3>1. args.concurrent \in Nat /\ \A t \in 0 .. args.concurrent - 1 : committed'[t] = 0
      BY <1>1, CountTypes
    <3> QED BY <3>1, CountedNothing
  <2>2. total(committed, args.concurrent)' = total(committed', args.concurrent)
    BY <1>1 DEF total
  <2>3. Cardinality({})' = Cardinality({})
    OBVIOUS
  <2> QED BY <2>1, <2>2, <2>3 DEF Counted
<1>6. (\E loans \in SUBSET Backed : Counted(loans))'
  BY <1>5
<1>7. Last(reports)' = Last(reports') /\ Cardinality(Backed)' = Cardinality(Backed)
      /\ Len(reports)' = Len(reports')
  BY <1>1 DEF Last, Backed
<1> QED BY <1>1, <1>2, <1>4, <1>6, <1>7 DEF CountInv, Executed

\* The property of the runs.
LEMMA CountedRecorded ==
  ASSUME BenchInv, CountInv
  PROVE  CountedIsRecorded
BY TotalRecorded DEF CountInv, CountedIsRecorded, Backed

----------------------------------------------------------------------------
(***************************************************************************)
(* The benchmark of fisco_ledger.                                          *)
(***************************************************************************)
FiscoStatuses == {"pending", "0x0", "0x10", "0x2714"}

\* The limit that the window's calls were signed with, and that of a call
\* that was refused for it.
LimitInv ==
  /\ block \in Nat /\ first_block \in Nat /\ block_limit \in Nat /\ opened.block \in Nat
  /\ opened.fresh => block_limit = opened.block + BlockLimit
  /\ \A c \in pool : c.window <= window /\ (c.window = window => c.sent = block_limit)
  /\ \A c \in pool : c.status = "0x2714" => c.sent <= block
  /\ \A c \in pool : c.status \in FiscoStatuses

FiscoInv == BenchInv /\ LimitInv

----------------------------------------------------------------------------
LEMMA InitFisco == Init => FiscoInv
<1> SUFFICES ASSUME Init PROVE FiscoInv
  OBVIOUS
<1>1. BenchInv
  BY InitBench DEF Init
<1>2. pool = {} /\ block \in Nat /\ first_block \in Nat /\ block_limit \in Nat
      /\ opened.block \in Nat /\ ~opened.fresh
  BY DEF Init, BenchInit
<1> QED BY <1>1, <1>2 DEF FiscoInv, LimitInv

\* An answer that tells is the last block; the others are numbers, too.
LEMMA NumberType ==
  ASSUME block \in Nat, NEW default \in Nat, NEW r \in GetBlockNumber
  PROVE  /\ unwrap_or(r, default) \in Nat
         /\ r = [ok |-> block] => unwrap_or(r, default) = block
<1>1. CASE r = [ok |-> block]
  BY <1>1 DEF unwrap_or
<1>2. CASE r = [ok |-> 0]
  BY <1>2 DEF unwrap_or
<1>3. CASE r = [err |-> TRUE]
  <2>1. "ok" \notin DOMAIN r
    BY <1>3
  <2>2. r # [ok |-> block]
    <3>1. "ok" \in DOMAIN [ok |-> block]
      OBVIOUS
    <3> QED BY <2>1, <3>1, Zenon
  <2> QED BY <2>1, <2>2 DEF unwrap_or
<1> QED BY <1>1, <1>2, <1>3 DEF GetBlockNumber

\* A step that adds no call, changes no number of a block but the last, and
\* leaves the statuses.
LEMMA FewerCalls ==
  ASSUME FiscoInv, pool' \subseteq pool, block' \in Nat, block' >= block,
         UNCHANGED <<window, first_block, block_limit, opened>>
  PROVE  LimitInv'
<1>1. pool \subseteq Calls /\ block \in Nat
  BY DEF FiscoInv, BenchInv, LimitInv
<1>2. \A c \in pool : c.sent \in Nat
  BY <1>1 DEF Calls
<1> QED BY <1>1, <1>2 DEF FiscoInv, LimitInv

LEMMA StartStep ==
  ASSUME FiscoInv, Start
  PROVE  FiscoInv'
<1>1. PICK r \in GetBlockNumber :
        /\ phase' = IF "ok" \in DOMAIN r THEN "between" ELSE "failed"
        /\ first_block' = unwrap_or(r, 0)
  BY DEF Start
<1>2. BenchInv'
  BY <1>1, SetupEnds DEF Start, FiscoInv
<1>3. first_block' \in Nat
  BY <1>1, NumberType DEF FiscoInv, LimitInv
<1> QED BY <1>2, <1>3 DEF Start, FiscoInv, LimitInv

\* No call is of the window that opens, so the limit binds none.
LEMMA OpenWindowStep ==
  ASSUME FiscoInv, OpenWindow
  PROVE  FiscoInv'
<1>1. PICK r \in GetBlockNumber :
        /\ block_limit' = unwrap_or(r, first_block) + BlockLimit
        /\ opened' = [block |-> block, fresh |-> r = [ok |-> block]]
  BY DEF OpenWindow
<1>2. BenchInv'
  BY OpenStep DEF OpenWindow, FiscoInv
<1>3. /\ unwrap_or(r, first_block) \in Nat /\ BlockLimit \in Nat
      /\ r = [ok |-> block] => unwrap_or(r, first_block) = block
  BY NumberType, LimitAssumption DEF FiscoInv, LimitInv
<1>0. opened'.block = block /\ (opened'.fresh => r = [ok |-> block])
  BY <1>1, Zenon
<1>4. block_limit' \in Nat /\ (opened.fresh' => block_limit' = opened.block' + BlockLimit)
      /\ opened.block' \in Nat
  BY <1>0, <1>1, <1>3 DEF FiscoInv, LimitInv
<1>5. UNCHANGED <<block, first_block, pool>> /\ window' = window + 1
  BY DEF OpenWindow, Open
<1>6. window \in Nat /\ \A c \in pool : c.window \in Nat
  BY WindowType DEF FiscoInv
<1>7. LimitInv'
  BY <1>4, <1>5, <1>6 DEF FiscoInv, LimitInv
<1> QED BY <1>2, <1>7 DEF FiscoInv

LEMMA SubmitWithLimitStep ==
  ASSUME FiscoInv, NEW t \in Task, SubmitWithLimit(t)
  PROVE  FiscoInv'
<1>1. /\ Submit(t, block_limit, "pending") /\ UNCHANGED fiscoVars
      /\ block_limit \in Nat /\ BenchInv /\ window' = window
  BY DEF SubmitWithLimit, Submit, FiscoInv, LimitInv
<1>2. /\ BenchInv'
      /\ \A c \in pool' : c \in pool \/ (/\ c.task = t /\ c.window = window
                                         /\ c.sent = block_limit /\ c.status = "pending")
  <2>1. "pending" \in Statuses
    BY DEF Statuses
  <2>2. BenchInv /\ block_limit \in Nat /\ Submit(t, block_limit, "pending")
    BY <1>1
  <2> QED BY <2>1, <2>2, SubmitStep
<1>3. window \in Nat
  BY WindowType DEF FiscoInv
<1>4. LimitInv'
  BY <1>1, <1>2, <1>3 DEF FiscoInv, LimitInv, fiscoVars, FiscoStatuses
<1> QED BY <1>2, <1>4 DEF FiscoInv

\* Executing and refusing: the only refusals are of limits that are reached.
LEMMA SettleLimitStep ==
  ASSUME FiscoInv, NEW c \in pool, NEW announced \in BOOLEAN, NEW status \in FiscoStatuses,
         Settle(c, announced, status),
         status = "0x2714" => c.sent <= block,
         block' \in Nat, block' >= block,
         UNCHANGED <<first_block, block_limit, opened>>
  PROVE  FiscoInv'
<1>1. /\ BenchInv'
      /\ \A d \in pool' : d \in pool \/ d = [c EXCEPT !.status = status]
  <2>1. status \in Statuses
    BY DEF Statuses, FiscoStatuses
  <2> QED BY <2>1, SettleStep DEF FiscoInv
<1>2. c \in Calls /\ window' = window /\ block \in Nat /\ \A d \in pool : d.sent \in Nat
  BY DEF FiscoInv, BenchInv, Settle, LimitInv, Calls
<1>3. ASSUME NEW d \in pool'
      PROVE  /\ d.window <= window' /\ (d.window = window' => d.sent = block_limit')
             /\ d.status = "0x2714" => d.sent <= block'
             /\ d.status \in FiscoStatuses
  <2>1. CASE d \in pool
    BY <1>2, <2>1 DEF FiscoInv, LimitInv
  <2>2. CASE d = [c EXCEPT !.status = status]
    <3>1. d.window = c.window /\ d.sent = c.sent /\ d.status = status
      BY <1>2, <2>2 DEF Calls
    <3> QED BY <1>2, <3>1 DEF FiscoInv, LimitInv
  <2> QED BY <1>1, <2>1, <2>2
<1> QED BY <1>1, <1>2, <1>3 DEF FiscoInv, LimitInv

LEMMA ExecuteStep ==
  ASSUME FiscoInv, NEW c \in pool, Execute(c)
  PROVE  FiscoInv'
<1>1. block \in Nat /\ block' = block + 1 /\ UNCHANGED <<first_block, block_limit, opened>>
  BY DEF Execute, FiscoInv, LimitInv
<1>2. CASE c.loan_id > 0
  <2>1. Settle(c, TRUE, "0x0")
    BY <1>2, Zenon DEF Execute, Settle
  <2>2. "0x0" \in FiscoStatuses /\ "0x0" # "0x2714" /\ block' \in Nat /\ block' >= block
    BY <1>1 DEF FiscoStatuses
  <2> QED BY <1>1, <2>1, <2>2, SettleLimitStep, Zenon
<1>3. CASE ~(c.loan_id > 0)
  <2>1. Settle(c, FALSE, "0x10")
    BY <1>3, Zenon DEF Execute, Settle
  <2>2. "0x10" \in FiscoStatuses /\ "0x10" # "0x2714" /\ block' \in Nat /\ block' >= block
    BY <1>1 DEF FiscoStatuses
  <2> QED BY <1>1, <2>1, <2>2, SettleLimitStep, Zenon
<1> QED BY <1>2, <1>3

LEMMA RefuseStep ==
  ASSUME FiscoInv, NEW c \in pool, Refuse(c)
  PROVE  FiscoInv'
<1>1. block \in Nat /\ UNCHANGED <<block, first_block, block_limit, opened>>
  BY DEF Refuse, FiscoInv, LimitInv, fiscoVars
<1>2. Settle(c, FALSE, "0x2714") /\ c.sent <= block
  BY Zenon DEF Refuse
<1>3. "0x2714" \in FiscoStatuses /\ block' \in Nat /\ block' >= block
  BY <1>1 DEF FiscoStatuses
<1> QED BY <1>1, <1>2, <1>3, SettleLimitStep, Zenon

\* One step per action.
LEMMA NextFisco == FiscoInv /\ [Next]_vars => FiscoInv'
<1> SUFFICES ASSUME FiscoInv, [Next]_vars PROVE FiscoInv'
  OBVIOUS
<1>1. block \in Nat /\ block >= block
  BY DEF FiscoInv, LimitInv
<1>2. CASE Start
  BY <1>2, StartStep
<1>3. CASE OpenWindow
  BY <1>3, OpenWindowStep
<1>4. CASE OtherBlock
  <2>1. BenchInv'
    BY <1>4, UnchangedBench DEF OtherBlock, FiscoInv
  <2>2. LimitInv'
    BY <1>1, <1>4, FewerCalls DEF OtherBlock, benchVars
  <2> QED BY <2>1, <2>2 DEF FiscoInv
<1>5. CASE Stop /\ UNCHANGED fiscoVars
  <2>1. BenchInv'
    BY <1>5, StopStep DEF FiscoInv
  <2>2. LimitInv'
    BY <1>1, <1>5, FewerCalls DEF Stop, fiscoVars
  <2> QED BY <2>1, <2>2 DEF FiscoInv
<1>6. CASE Report /\ UNCHANGED fiscoVars
  <2>1. BenchInv'
    BY <1>6, ReportStep DEF FiscoInv
  <2>2. LimitInv'
    BY <1>1, <1>6, FewerCalls DEF Report, fiscoVars
  <2> QED BY <2>1, <2>2 DEF FiscoInv
<1>7. ASSUME NEW t \in Task, SubmitWithLimit(t)
      PROVE  FiscoInv'
  BY <1>7, SubmitWithLimitStep
<1>8. ASSUME NEW t \in Task, End(t), UNCHANGED fiscoVars
      PROVE  FiscoInv'
  <2>1. BenchInv'
    BY <1>8, EndStep DEF FiscoInv
  <2>2. LimitInv'
    BY <1>1, <1>8, FewerCalls DEF End, fiscoVars
  <2> QED BY <2>1, <2>2 DEF FiscoInv
<1>9. ASSUME NEW c \in pool, Receipt(c)
      PROVE  FiscoInv'
  <2>1. BenchInv' /\ pool' \subseteq pool
    <3>1. PICK status \in {c.status, "none"} :
            Answer(c, parse_inline_receipt(status), status # "none")
      BY <1>9 DEF Receipt
    <3>2. parse_inline_receipt(status) \in BOOLEAN /\ (status # "none") \in BOOLEAN
      BY Zenon DEF parse_inline_receipt
    <3> QED BY <3>1, <3>2, AnswerStep, Zenon DEF FiscoInv
  <2>2. LimitInv'
    BY <1>1, <1>9, <2>1, FewerCalls DEF Receipt, Answer, fiscoVars
  <2> QED BY <2>1, <2>2 DEF FiscoInv
<1>10. ASSUME NEW c \in pool, RpcError(c)
       PROVE  FiscoInv'
  <2>1. BenchInv' /\ pool' \subseteq pool
    BY <1>10, GiveUpStep DEF RpcError, FiscoInv
  <2>2. LimitInv'
    BY <1>1, <1>10, <2>1, FewerCalls DEF RpcError, GiveUp, fiscoVars
  <2> QED BY <2>1, <2>2 DEF FiscoInv
<1>11. CASE UNCHANGED vars
  <2>1. BenchInv'
    BY <1>11, UnchangedBench DEF vars, FiscoInv
  <2>2. LimitInv'
    BY <1>1, <1>11, FewerCalls DEF vars, benchVars, fiscoVars
  <2> QED BY <2>1, <2>2 DEF FiscoInv
<1> QED BY <1>2, <1>3, <1>4, <1>5, <1>6, <1>7, <1>8, <1>9, <1>10, <1>11, ExecuteStep, RefuseStep
        DEF Next

LEMMA FiscoInvariance == Spec => []FiscoInv
<1> QED BY InitFisco, NextFisco, PTL DEF Spec

----------------------------------------------------------------------------
\* Type correctness of the loop of run_benchmark, with the call that a task
\* waits for, whatever the answers and errors of the node.
THEOREM TypeCorrectness == Spec => []BenchTypeOK
<1>1. FiscoInv => BenchTypeOK
  BY InvTypeOK DEF FiscoInv
<1> QED BY <1>1, FiscoInvariance, PTL

\* A transaction of the window is refused for its limit only when the chain
\* has grown by the whole limit since the window's refresh.
THEOREM RefusedOnlyAfterLimit == Spec => []RefusedAfterLimit
<1>1. FiscoInv => RefusedAfterLimit
  BY DEF FiscoInv, LimitInv, RefusedAfterLimit, Awaited
<1> QED BY <1>1, FiscoInvariance, PTL

\* What the tasks count is what the receipts say, and a receipt of success is
\* of a record that was announced.
LEMMA NextFiscoCount == FiscoInv /\ CountInv /\ [Next]_vars => CountInv'
<1> SUFFICES ASSUME FiscoInv, CountInv, [Next]_vars PROVE CountInv'
  OBVIOUS
<1>1. BenchInv
  BY DEF FiscoInv
<1>2. CASE Start
  <2>1. phase = "setup" /\ phase' \in {"between", "failed"}
    BY <1>2 DEF Start
  <2> QED BY <1>1, <1>2, <2>1, CountFrame DEF Start
<1>3. CASE OpenWindow
  BY <1>1, <1>3, OpenCount DEF OpenWindow
<1>4. CASE OtherBlock
  BY <1>1, <1>4, CountFrame DEF OtherBlock, benchVars
<1>5. CASE Stop
  BY <1>1, <1>5, CountFrame DEF Stop
<1>6. CASE Report
  BY <1>1, <1>6, ReportCount
<1>7. ASSUME NEW t \in Task, SubmitWithLimit(t)
      PROVE  CountInv'
  BY <1>1, <1>7, SubmitCount DEF SubmitWithLimit
<1>8. ASSUME NEW t \in Task, End(t)
      PROVE  CountInv'
  BY <1>1, <1>8, EndCount
<1>9. ASSUME NEW c \in pool, Execute(c)
      PROVE  CountInv'
  <2>1. CASE c.loan_id > 0
    <3>1. Settle(c, TRUE, "0x0") /\ "0x0" \in Statuses
      BY <1>9, <2>1, Zenon DEF Execute, Settle, Statuses
    <3> QED BY <1>1, <3>1, SettleCount, Zenon
  <2>2. CASE ~(c.loan_id > 0)
    <3>1. Settle(c, FALSE, "0x10") /\ "0x10" \in Statuses
      BY <1>9, <2>2, Zenon DEF Execute, Settle, Statuses
    <3>2. "0x10" \notin {"0x0", "success"}
      OBVIOUS
    <3> QED BY <1>1, <3>1, <3>2, SettleCount, Zenon
  <2> QED BY <2>1, <2>2
<1>10. ASSUME NEW c \in pool, Refuse(c)
       PROVE  CountInv'
  <2>1. Settle(c, FALSE, "0x2714") /\ "0x2714" \in Statuses
    BY <1>10, Zenon DEF Refuse, Statuses
  <2>2. "0x2714" \notin {"0x0", "success"}
    OBVIOUS
  <2> QED BY <1>1, <2>1, <2>2, SettleCount, Zenon
<1>11. ASSUME NEW c \in pool, Receipt(c)
       PROVE  CountInv'
  <2>1. PICK status \in {c.status, "none"} :
          Answer(c, parse_inline_receipt(status), status # "none")
    BY <1>11 DEF Receipt
  <2>2. parse_inline_receipt(status) \in BOOLEAN /\ (status # "none") \in BOOLEAN
    BY Zenon DEF parse_inline_receipt
  <2>3. parse_inline_receipt(status) => (Executed(c) \/ ~(status # "none"))
    <3>1. c.status \in FiscoStatuses /\ c.status # "pending"
      BY <1>11 DEF FiscoInv, LimitInv, Receipt
    <3> QED BY <2>1, <3>1 DEF parse_inline_receipt, parse_status, FiscoStatuses, Executed
  <2> QED BY <1>1, <2>1, <2>2, <2>3, AnswerCount, Zenon
<1>12. ASSUME NEW c \in pool, RpcError(c)
       PROVE  CountInv'
  <2>1. GiveUp(c, c.status = "pending") /\ (c.status = "pending") \in BOOLEAN
    BY <1>12, Zenon DEF RpcError
  <2> QED BY <1>1, <2>1, GiveUpCount, Zenon
<1>13. CASE UNCHANGED vars
  BY <1>1, <1>13, CountFrame DEF vars, benchVars
<1> QED BY <1>2, <1>3, <1>4, <1>5, <1>6, <1>7, <1>8, <1>9, <1>10, <1>11, <1>12, <1>13 DEF Next

\* The throughput is never more than what the ledger has recorded in the
\* window and the receipts of the window that did not tell, for any number of
\* tasks and whatever calls outlive their callers.
THEOREM CountedAreRecorded == Spec => []CountedIsRecorded
<1>1. Init => CountInv
  BY InitCount DEF Init
<1>2. FiscoInv /\ CountInv => CountedIsRecorded
  BY CountedRecorded DEF FiscoInv
<1> QED BY <1>1, <1>2, NextFiscoCount, FiscoInvariance, PTL DEF Spec

----------------------------------------------------------------------------
\* sui_ledger

\* The senders are funded in order, and the first window waits for all.
FundedInv ==
  /\ senders \in Nat /\ senders <= args.concurrent
  /\ \A t \in Task : t < senders => t \in funded
  /\ phase \notin {"setup", "failed"} => senders = args.concurrent

\* The node never knows of more than was executed.
VersionInv ==
  /\ version \in [Task -> Nat] /\ known \in [Task -> Nat]
  /\ \A t \in Task : known[t] <= version[t]

\* A call names the last version until it is executed.
CallFresh(c) ==
  \/ c.status = "pending" /\ c.sent = version[c.task] /\ known[c.task] = version[c.task]
  \/ c.status \in {"success", "failure"} /\ version[c.task] = c.sent + 1

\* A task has no call under way and the node knows its last version, or it has
\* the one that it awaits.
Fresh(t) ==
  \/ (\A c \in pool : c.task # t) /\ known[t] = version[t]
  \/ /\ task[t] = "call"
     /\ \E c \in pool : /\ AwaitedBy(t, c) /\ CallFresh(c)
                        /\ \A d \in pool : d.task = t => d = c

FreshInv == is_local => \A t \in Task \ late : Fresh(t)

SuiInv == BenchInv /\ FundedInv /\ VersionInv /\ FreshInv

----------------------------------------------------------------------------
LEMMA InitSui == SuiInit => SuiInv
<1> SUFFICES ASSUME SuiInit PROVE SuiInv
  OBVIOUS
<1>1. BenchInv
  BY InitBench DEF SuiInit
<1>2. /\ args.concurrent \in Nat /\ pool = {} /\ phase = "setup" /\ senders = 0
      /\ version = [t \in Task |-> 0] /\ known = [t \in Task |-> 0]
      /\ \A t \in Task : t \in Nat
  BY <1>1, ArgsType DEF SuiInit, BenchInit, BenchInv
<1>3. FundedInv
  BY <1>2 DEF FundedInv
<1>4. VersionInv
  BY <1>2 DEF VersionInv
<1>5. \A t \in Task : Fresh(t)
  BY <1>2 DEF Fresh
<1> QED BY <1>1, <1>3, <1>4, <1>5 DEF SuiInv, FreshInv

\* A task of whom nothing changes is as fresh as it was.
LEMMA FreshFrame ==
  ASSUME NEW t, Fresh(t), \A c : c.task = t => (c \in pool <=> c \in pool'),
         window' = window, task'[t] = task[t], seq'[t] = seq[t],
         known'[t] = known[t], version'[t] = version[t]
  PROVE  Fresh(t)'
<1>1. CASE (\A c \in pool : c.task # t) /\ known[t] = version[t]
  BY <1>1 DEF Fresh
<1>2. CASE /\ task[t] = "call"
           /\ \E c \in pool : /\ AwaitedBy(t, c) /\ CallFresh(c)
                              /\ \A d \in pool : d.task = t => d = c
  <2>1. PICK c \in pool : /\ AwaitedBy(t, c) /\ CallFresh(c)
                          /\ \A d \in pool : d.task = t => d = c
    BY <1>2
  <2>2. c.task = t
    BY <2>1 DEF AwaitedBy
  <2>3. c \in pool' /\ \A d \in pool' : d.task = t => d = c
    BY <2>1, <2>2
  <2>4. loan_id(t)' = loan_id(t)
    BY DEF loan_id, id_base
  <2>5. AwaitedBy(t, c)'
    BY <2>1, <2>4 DEF AwaitedBy
  <2>6. CallFresh(c)'
    BY <2>1, <2>2 DEF CallFresh
  <2> QED BY <1>2, <2>3, <2>5, <2>6 DEF Fresh
<1> QED BY <1>1, <1>2 DEF Fresh

\* A task that waits for nothing has no call.
LEMMA FreshIdle ==
  ASSUME NEW t, Fresh(t), task[t] # "call"
  PROVE  (\A c \in pool : c.task # t) /\ known[t] = version[t]
BY DEF Fresh

LEMMA FundedFrame ==
  ASSUME SuiInv, UNCHANGED <<args, senders, funded>>,
         phase' \notin {"setup", "failed"} => phase \notin {"setup", "failed"}
  PROVE  FundedInv'
BY DEF SuiInv, FundedInv, Task

LEMMA VersionFrame ==
  ASSUME SuiInv, UNCHANGED <<args, version, known>>
  PROVE  VersionInv'
BY DEF SuiInv, VersionInv, Task

\* What the steps below may use of a task.
LEMMA FreshTask ==
  ASSUME SuiInv, is_local, NEW t \in Task, t \notin late
  PROVE  Fresh(t)
BY DEF SuiInv, FreshInv

\* FreshInv', from the tasks one by one.
LEMMA FreshAll ==
  ASSUME args' = args, is_local' = is_local,
         ASSUME is_local, NEW t \in Task, t \notin late' PROVE Fresh(t)'
  PROVE  FreshInv'
<1>1. Task' = Task
  BY DEF Task
<1> QED BY <1>1 DEF FreshInv

----------------------------------------------------------------------------
LEMMA RequestFaucetStep ==
  ASSUME SuiInv, NEW status, RequestFaucet(status)
  PROVE  SuiInv'
<1>1. /\ phase = "setup" /\ senders < args.concurrent /\ senders \in Nat
      /\ UNCHANGED <<args, window, task, seq, committed, reports, pool, recorded, untold,
                     is_local, version, known, late>>
      /\ phase' \in {"setup", "between", "failed"}
      /\ Task' = Task
  BY DEF RequestFaucet, SuiInv, FundedInv, Task
<1>2. BenchInv'
  BY <1>1, SetupEnds DEF SuiInv
<1>3. FundedInv'
  <2>1. args.concurrent \in Nat /\ \A t \in Task : t \in Nat
    BY ArgsType DEF SuiInv, BenchInv
  <2>2. CASE status = 200
    <3>1. funded' = funded \cup {senders} /\ senders' = senders + 1
      BY <2>2 DEF RequestFaucet
    <3>2. phase' \in {"between", "setup"} /\ (phase' = "between" => senders' = args.concurrent)
      BY <2>2 DEF RequestFaucet
    <3> QED BY <1>1, <2>1, <3>1, <3>2 DEF SuiInv, FundedInv
  <2>3. CASE status # 200
    <3>1. funded' = funded /\ senders' = senders
      BY <2>3 DEF RequestFaucet
    <3>2. phase' = "between" => senders' = args.concurrent
      BY <2>3 DEF RequestFaucet
    <3> QED BY <1>1, <2>1, <3>1, <3>2 DEF SuiInv, FundedInv
  <2> QED BY <2>2, <2>3
<1>4. VersionInv'
  BY <1>1, VersionFrame
<1>5. FreshInv'
  <2>1. ASSUME is_local, NEW t \in Task, t \notin late' PROVE Fresh(t)'
    BY <1>1, <2>1, FreshTask, FreshFrame
  <2> QED BY <1>1, <2>1, FreshAll
<1> QED BY <1>2, <1>3, <1>4, <1>5 DEF SuiInv

\* When a window opens, is told to stop or is reported, and when a task ends,
\* those who change wait for nothing.
LEMMA IdleStep ==
  ASSUME SuiInv, BenchInv', UNCHANGED suiVars, args' = args, pool' = pool,
         phase' \notin {"setup", "failed"}, phase \notin {"setup", "failed"},
         \A t \in Task : \/ task[t] # "call"
                         \/ task'[t] = task[t] /\ seq'[t] = seq[t] /\ window' = window
  PROVE  SuiInv'
<1>1. FundedInv' /\ VersionInv'
  BY FundedFrame, VersionFrame DEF suiVars
<1>2. ASSUME is_local, NEW t \in Task, t \notin late' PROVE Fresh(t)'
  <2>1. Fresh(t) /\ known' = known /\ version' = version
    BY <1>2, FreshTask DEF suiVars
  <2>2. CASE task[t] # "call"
    <3>1. (\A c \in pool' : c.task # t) /\ known'[t] = version'[t]
      BY <2>1, <2>2, FreshIdle
    <3> QED BY <3>1 DEF Fresh
  <2>3. CASE task'[t] = task[t] /\ seq'[t] = seq[t] /\ window' = window
    BY <2>1, <2>3, FreshFrame
  <2> QED BY <2>2, <2>3
<1>3. FreshInv'
  BY <1>2, FreshAll DEF suiVars
<1> QED BY <1>1, <1>3 DEF SuiInv

LEMMA WindowStep ==
  ASSUME SuiInv, Open \/ Stop \/ Report, UNCHANGED suiVars
  PROVE  SuiInv'
<1>1. CASE Open
  <2>1. BenchInv' /\ \A t \in Task : task[t] # "call"
    BY <1>1, OpenStep DEF SuiInv, BenchInv, Open
  <2> QED BY <1>1, <2>1, IdleStep DEF Open
<1>2. CASE Stop
  <2>1. BenchInv'
    BY <1>2, StopStep DEF SuiInv
  <2> QED BY <1>2, <2>1, IdleStep DEF Stop
<1>3. CASE Report
  <2>1. BenchInv'
    BY <1>3, ReportStep DEF SuiInv
  <2> QED BY <1>3, <2>1, IdleStep DEF Report
<1> QED BY <1>1, <1>2, <1>3

LEMMA EndTaskStep ==
  ASSUME SuiInv, NEW t \in Task, End(t), UNCHANGED suiVars
  PROVE  SuiInv'
<1>1. BenchInv'
  BY EndStep DEF SuiInv
<1>2. \A u \in Task : task[u] # "call" \/ task'[u] = task[u]
  BY DEF End, SuiInv, BenchInv
<1> QED BY <1>1, <1>2, IdleStep DEF End

----------------------------------------------------------------------------
\* The task that submits has no call, so that the node knows the last version.
LEMMA SubmitCallStep ==
  ASSUME SuiInv, NEW t \in Task, SubmitCall(t)
  PROVE  SuiInv'
<1> DEFINE call == [window |-> window, task |-> t, loan_id |-> loan_id(t),
                    sent |-> known[t], status |-> "pending"]
<1>1. /\ Submit(t, known[t], "pending") /\ UNCHANGED suiVars
      /\ UNCHANGED <<args, phase, window>> /\ phase = "open" /\ task[t] = "loop"
      /\ task' = [task EXCEPT ![t] = "call"] /\ seq' = [seq EXCEPT ![t] = @ + 1]
      /\ pool' = pool \cup {call}
  BY DEF SubmitCall, Submit
<1>2. /\ known[t] \in Nat /\ "pending" \in Statuses
      /\ task \in [Task -> {"loop", "call", "ended"}]
      /\ seq \in [Task -> 1 .. args.max_seq + 1]
  BY DEF SuiInv, VersionInv, Statuses, BenchInv
<1>3. BenchInv'
  BY <1>1, <1>2, SubmitStep, Zenon DEF SuiInv
<1>4. FundedInv' /\ VersionInv'
  BY <1>1, FundedFrame, VersionFrame DEF suiVars
<1>5. UNCHANGED <<known, version, late, is_local>>
  BY <1>1 DEF suiVars
<1>6. ASSUME is_local, NEW u \in Task, u \notin late' PROVE Fresh(u)'
  <2>1. Fresh(u)
    BY <1>5, <1>6, FreshTask
  <2>2. CASE u = t
    <3>1. (\A c \in pool : c.task # t) /\ known[t] = version[t]
      BY <1>1, <2>1, <2>2, FreshIdle
    <3>2. task'[t] = "call" /\ \E c \in pool' : AwaitedBy(t, c)'
      BY <1>1, <1>2, <1>3 DEF BenchInv, Task
    <3>3. PICK c \in pool' : AwaitedBy(t, c)'
      BY <3>2
    <3>4. c.task = t
      BY <3>3 DEF AwaitedBy
    <3>5. c = call /\ \A d \in pool' : d.task = t => d = c
      BY <1>1, <3>1, <3>4
    <3>6. c.status = "pending" /\ c.sent = known[t]
      BY <3>5
    <3>7. CallFresh(c)'
      BY <1>5, <3>1, <3>4, <3>6 DEF CallFresh
    <3> HIDE DEF call
    <3> QED BY <2>2, <3>2, <3>3, <3>5, <3>7 DEF Fresh
  <2>3. CASE u # t
    <3>1. task'[u] = task[u] /\ seq'[u] = seq[u]
      BY <1>1, <1>2, <2>3
    <3>2. \A c : c.task = u => (c \in pool <=> c \in pool')
      BY <1>1, <2>3
    <3> QED BY <1>1, <1>5, <2>1, <3>1, <3>2, FreshFrame
  <2> QED BY <2>2, <2>3
<1>7. FreshInv'
  BY <1>1, <1>5, <1>6, FreshAll
<1> QED BY <1>3, <1>4, <1>7 DEF SuiInv

LEMMA LocalExecutionStep ==
  ASSUME SuiInv, NEW t \in Task, LocalExecution(t)
  PROVE  SuiInv'
<1>1. /\ known[t] # version[t] /\ known' = [known EXCEPT ![t] = version[t]]
      /\ UNCHANGED <<benchVars, is_local, senders, funded, version, late>>
      /\ UNCHANGED <<args, phase, window, task, seq, pool>>
  BY DEF LocalExecution, benchVars
<1>2. BenchInv' /\ FundedInv'
  BY <1>1, UnchangedBench, FundedFrame DEF SuiInv
<1>3. known \in [Task -> Nat] /\ version \in [Task -> Nat] /\ Task' = Task
  BY <1>1 DEF SuiInv, VersionInv, Task
<1>4. VersionInv'
  BY <1>1, <1>3 DEF SuiInv, VersionInv
<1>5. ASSUME is_local, NEW u \in Task, u \notin late' PROVE Fresh(u)'
  <2>1. Fresh(u)
    BY <1>1, <1>5, FreshTask
  <2>2. CASE u # t
    BY <1>1, <1>3, <2>1, <2>2, FreshFrame
  <2>3. CASE u = t
    <3>1. PICK c \in pool : /\ AwaitedBy(t, c) /\ CallFresh(c)
                            /\ \A d \in pool : d.task = t => d = c
      BY <1>1, <2>1, <2>3 DEF Fresh
    <3>2. task[t] = "call" /\ c.task = t
      BY <1>1, <2>1, <2>3, <3>1 DEF Fresh, AwaitedBy
    <3>3. c.status \in {"success", "failure"} /\ version[t] = c.sent + 1
      BY <1>1, <3>1, <3>2 DEF CallFresh
    <3>4. CallFresh(c)'
      BY <1>1, <3>2, <3>3 DEF CallFresh
    <3>5. AwaitedBy(t, c)'
      BY <1>1, <3>1 DEF AwaitedBy, loan_id, id_base
    <3> QED BY <1>1, <2>3, <3>1, <3>2, <3>4, <3>5 DEF Fresh
  <2> QED BY <2>2, <2>3
<1>6. FreshInv'
  BY <1>1, <1>5, FreshAll
<1> QED BY <1>2, <1>4, <1>6 DEF SuiInv

----------------------------------------------------------------------------
\* What a fresh task's call is.
LEMMA FreshCall ==
  ASSUME NEW t, Fresh(t), NEW c \in pool, c.task = t
  PROVE  /\ Awaited(c) /\ AwaitedBy(t, c) /\ CallFresh(c) /\ task[t] = "call"
         /\ \A d \in pool : d.task = t => d = c
<1>1. PICK e \in pool : /\ AwaitedBy(t, e) /\ CallFresh(e)
                        /\ \A d \in pool : d.task = t => d = e
  BY DEF Fresh
<1>2. e = c /\ task[t] = "call"
  BY <1>1 DEF Fresh
<1> QED BY <1>1, <1>2, OneAwaited

LEMMA SuiExecuteStep ==
  ASSUME SuiInv, NEW c \in pool, NEW success \in BOOLEAN, ExecuteCall(c, success)
  PROVE  SuiInv'
<1> DEFINE status == IF success THEN "success" ELSE "failure"
           e == [c EXCEPT !.status = status]
<1>1. /\ Settle(c, success, status)
      /\ c.status = "pending" /\ c.sent = version[c.task]
      /\ version' = [version EXCEPT ![c.task] = @ + 1]
      /\ UNCHANGED <<is_local, senders, funded, known, late>>
  BY Zenon DEF ExecuteCall
<1>2. /\ UNCHANGED <<args, phase, window, task, seq>> /\ Task' = Task
      /\ pool' = (pool \ {c}) \cup (IF Awaited(c) THEN {e} ELSE {})
  BY <1>1 DEF Settle, Task
<1>3. status \in Statuses /\ status \in {"success", "failure"}
  BY DEF Statuses
<1>4. c \in Calls /\ c.task \in Task
  BY WindowType DEF SuiInv
<1>5. e.task = c.task /\ e.window = c.window /\ e.loan_id = c.loan_id /\ e.sent = c.sent
      /\ e.status = status
  BY <1>4 DEF Calls
<1> HIDE DEF status, e
<1>6. BenchInv'
  BY <1>1, <1>3, SettleStep, Zenon DEF SuiInv
<1>7. FundedInv'
  BY <1>1, <1>2, FundedFrame
<1>8. VersionInv'
  BY <1>1, <1>2, <1>4 DEF SuiInv, VersionInv
<1>9. ASSUME is_local, NEW u \in Task, u \notin late' PROVE Fresh(u)'
  <2>1. Fresh(u)
    BY <1>1, <1>9, FreshTask
  <2>2. CASE u # c.task
    <3>1. \A d : d.task = u => (d \in pool <=> d \in pool')
      BY <1>2, <1>5, <2>2
    <3>2. version'[u] = version[u]
      BY <1>1, <2>2, <1>9 DEF SuiInv, VersionInv
    <3> QED BY <1>1, <1>2, <2>1, <3>1, <3>2, FreshFrame
  <2>3. CASE u = c.task
    <3>1. /\ Awaited(c) /\ AwaitedBy(u, c) /\ task[u] = "call"
          /\ \A d \in pool : d.task = u => d = c
      BY <2>1, <2>3, FreshCall
    <3>2. e \in pool' /\ \A d \in pool' : d.task = u => d = e
      BY <1>2, <3>1
    <3>3. AwaitedBy(u, e)'
      BY <1>2, <1>5, <3>1 DEF AwaitedBy, loan_id, id_base
    <3>4. version'[u] = c.sent + 1
      BY <1>1, <2>3, <1>9 DEF SuiInv, VersionInv
    <3>5. CallFresh(e)'
      BY <1>3, <1>5, <2>3, <3>4 DEF CallFresh
    <3> QED BY <1>2, <3>1, <3>2, <3>3, <3>5 DEF Fresh
  <2> QED BY <2>2, <2>3
<1>10. FreshInv'
  BY <1>1, <1>2, <1>9, FreshAll
<1> QED BY <1>6, <1>7, <1>8, <1>10 DEF SuiInv

\* A fresh task's call is never rejected.
LEMMA RejectStep ==
  ASSUME SuiInv, NEW c \in pool, Reject(c)
  PROVE  SuiInv'
<1> DEFINE e == [c EXCEPT !.status = "error"]
<1>1. /\ Settle(c, FALSE, "error") /\ UNCHANGED suiVars /\ c.status = "pending"
      /\ \/ c.sent # version[c.task]
         \/ \E d \in pool \ {c} : d.status = "pending" /\ d.task = c.task /\ d.sent = c.sent
  BY Zenon DEF Reject
<1>2. /\ UNCHANGED <<args, phase, window, task, seq>>
      /\ pool' = (pool \ {c}) \cup (IF Awaited(c) THEN {e} ELSE {})
  BY <1>1 DEF Settle
<1>3. "error" \in Statuses
  BY DEF Statuses
<1>4. c \in Calls /\ e.task = c.task
  <2>1. c \in Calls
    BY WindowType DEF SuiInv
  <2> QED BY <2>1 DEF Calls
<1> HIDE DEF e
<1>5. BenchInv'
  BY <1>1, <1>3, SettleStep, Zenon DEF SuiInv
<1>6. FundedInv' /\ VersionInv'
  BY <1>1, <1>2, FundedFrame, VersionFrame DEF suiVars
<1>7. UNCHANGED <<is_local, known, version, late>>
  BY <1>1 DEF suiVars
<1>8. ASSUME is_local, NEW u \in Task, u \notin late' PROVE Fresh(u)'
  <2>1. Fresh(u)
    BY <1>7, <1>8, FreshTask
  <2>2. u # c.task
    <3> SUFFICES ASSUME u = c.task PROVE FALSE
      OBVIOUS
    <3>1. CallFresh(c) /\ \A d \in pool : d.task = u => d = c
      BY <2>1, FreshCall
    <3> QED BY <1>1, <3>1 DEF CallFresh
  <2>3. \A d : d.task = u => (d \in pool <=> d \in pool')
    BY <1>2, <1>4, <2>2
  <2> QED BY <1>2, <1>7, <2>1, <2>3, FreshFrame
<1>9. FreshInv'
  BY <1>2, <1>7, <1>8, FreshAll
<1> QED BY <1>5, <1>6, <1>9 DEF SuiInv

\* The answer of a local node comes when it knows the new version.
LEMMA ExecuteSignedStep ==
  ASSUME SuiInv, NEW c \in pool, ExecuteSigned(c)
  PROVE  SuiInv'
<1>1. /\ Answer(c, c.status = "success", TRUE) /\ UNCHANGED suiVars /\ c.status # "pending"
      /\ c.status \in {"success", "failure"} => (is_local => known[c.task] > c.sent)
  BY Zenon DEF ExecuteSigned, confirmed
<1>2. /\ UNCHANGED <<args, phase, window, seq>> /\ pool' = pool \ {c}
      /\ task' = [task EXCEPT ![c.task] = "loop"]
  BY <1>1 DEF Answer
<1>3. BenchInv'
  <2>1. (c.status = "success") \in BOOLEAN /\ TRUE \in BOOLEAN
    OBVIOUS
  <2> QED BY <1>1, <2>1, AnswerStep, Zenon DEF SuiInv
<1>4. FundedInv' /\ VersionInv'
  BY <1>1, <1>2, FundedFrame, VersionFrame DEF suiVars
<1>5. UNCHANGED <<is_local, known, version, late>>
  BY <1>1 DEF suiVars
<1>6. c \in Calls /\ c.task \in Task /\ c.sent \in Nat
  BY WindowType DEF SuiInv
<1>7. ASSUME is_local, NEW u \in Task, u \notin late' PROVE Fresh(u)'
  <2>1. Fresh(u)
    BY <1>5, <1>7, FreshTask
  <2>2. CASE u # c.task
    <3>1. task'[u] = task[u]
      BY <1>2, <2>2, <1>7 DEF SuiInv, BenchInv
    <3>2. \A d : d.task = u => (d \in pool <=> d \in pool')
      BY <1>2, <2>2
    <3> QED BY <1>2, <1>5, <2>1, <3>1, <3>2, FreshFrame
  <2>3. CASE u = c.task
    <3>1. CallFresh(c) /\ \A d \in pool : d.task = u => d = c
      BY <2>1, <2>3, FreshCall
    <3>2. c.status \in {"success", "failure"} /\ version[u] = c.sent + 1
      BY <1>1, <2>3, <3>1 DEF CallFresh
    <3>3. known[u] > c.sent
      BY <1>1, <1>7, <2>3, <3>2
    <3>4. known[u] \in Nat /\ version[u] \in Nat /\ known[u] <= version[u]
      BY <1>7 DEF SuiInv, VersionInv
    <3>5. known'[u] = version'[u]
      BY <1>5, <1>6, <3>2, <3>3, <3>4
    <3>6. \A d \in pool' : d.task # u
      BY <1>2, <3>1
    <3> QED BY <3>5, <3>6 DEF Fresh
  <2> QED BY <2>2, <2>3
<1>8. FreshInv'
  BY <1>2, <1>5, <1>7, FreshAll
<1> QED BY <1>3, <1>4, <1>8 DEF SuiInv

LEMMA RpcErrorStep ==
  ASSUME SuiInv, NEW c \in pool, SuiRpcError(c)
  PROVE  SuiInv'
<1>1. /\ GiveUp(c, c.status = "pending") /\ late' = late \cup {c.task}
      /\ UNCHANGED <<is_local, senders, funded, version, known>>
  BY DEF SuiRpcError
<1>2. /\ UNCHANGED <<args, phase, window, seq>> /\ pool' \in {pool, pool \ {c}}
      /\ task' = [task EXCEPT ![c.task] = "loop"]
  BY <1>1 DEF GiveUp
<1>3. BenchInv'
  <2>1. (c.status = "pending") \in BOOLEAN
    OBVIOUS
  <2> QED BY <1>1, <2>1, GiveUpStep, Zenon DEF SuiInv
<1>4. FundedInv' /\ VersionInv'
  BY <1>1, <1>2, FundedFrame, VersionFrame
<1>5. ASSUME is_local, NEW u \in Task, u \notin late' PROVE Fresh(u)'
  <2>1. Fresh(u) /\ u # c.task
    BY <1>1, <1>5, FreshTask
  <2>2. task'[u] = task[u]
    BY <1>2, <2>1, <1>5 DEF SuiInv, BenchInv
  <2>3. \A d : d.task = u => (d \in pool <=> d \in pool')
    BY <1>2, <2>1
  <2> QED BY <1>1, <1>2, <2>1, <2>2, <2>3, FreshFrame
<1>6. FreshInv'
  BY <1>1, <1>2, <1>5, FreshAll
<1> QED BY <1>3, <1>4, <1>6 DEF SuiInv

----------------------------------------------------------------------------
\* One step per action.
LEMMA NextSui == SuiInv /\ [SuiNext]_allSuiVars => SuiInv'
<1> SUFFICES ASSUME SuiInv, [SuiNext]_allSuiVars PROVE SuiInv'
  OBVIOUS
<1>1. CASE (Open \/ Stop \/ Report) /\ UNCHANGED suiVars
  BY <1>1, WindowStep
<1>2. CASE \E status \in {200, 429, 503, 400, 0} : RequestFaucet(status)
  BY <1>2, RequestFaucetStep
<1>3. ASSUME NEW t \in Task,
             SubmitCall(t) \/ LocalExecution(t) \/ (End(t) /\ UNCHANGED suiVars)
      PROVE  SuiInv'
  BY <1>3, SubmitCallStep, LocalExecutionStep, EndTaskStep
<1>4. ASSUME NEW c \in pool, Reject(c) \/ ExecuteSigned(c) \/ SuiRpcError(c)
      PROVE  SuiInv'
  BY <1>4, RejectStep, ExecuteSignedStep, RpcErrorStep
<1>5. ASSUME NEW c \in pool, NEW success \in BOOLEAN, ExecuteCall(c, success)
      PROVE  SuiInv'
  BY <1>5, SuiExecuteStep, Zenon
<1>6. CASE UNCHANGED allSuiVars
  <2>1. UNCHANGED benchVars /\ UNCHANGED suiVars
    BY <1>6 DEF allSuiVars
  <2>2. BenchInv'
    BY <2>1, UnchangedBench DEF SuiInv
  <2>3. UNCHANGED <<args, phase, window, task, seq, pool, is_local, senders, funded,
                    version, known, late>>
    BY <2>1 DEF benchVars, suiVars
  <2>4. FundedInv' /\ VersionInv'
    BY <2>3, FundedFrame, VersionFrame
  <2>5. ASSUME is_local, NEW t \in Task, t \notin late' PROVE Fresh(t)'
    BY <2>3, <2>5, FreshTask, FreshFrame
  <2>6. FreshInv'
    BY <2>3, <2>5, FreshAll
  <2> QED BY <2>2, <2>4, <2>6 DEF SuiInv
<1>7. CASE \E c \in pool : Reject(c) \/ ExecuteSigned(c) \/ SuiRpcError(c)
                             \/ \E success \in BOOLEAN : ExecuteCall(c, success)
  BY <1>4, <1>5, <1>7, Zenon
<1>8. CASE \E t \in Task : SubmitCall(t) \/ LocalExecution(t) \/ (End(t) /\ UNCHANGED suiVars)
  BY <1>3, <1>8, Zenon
<1>9. CASE SuiNext
  BY <1>1, <1>2, <1>7, <1>8, <1>9 DEF SuiNext
<1> QED BY <1>6, <1>9

LEMMA SuiInvariance == SuiSpec => []SuiInv
<1> QED BY InitSui, NextSui, PTL DEF SuiSpec

----------------------------------------------------------------------------
\* No window opens before every sender has coins, whatever the faucet answers.
THEOREM Funded == SuiSpec => []SendersFunded
<1>1. SuiInv => SendersFunded
  <2> SUFFICES ASSUME SuiInv, phase \in {"between", "open", "closing", "done"},
                      NEW t \in Task
               PROVE  t \in funded
    BY DEF SendersFunded
  <2>1. args.concurrent \in Nat /\ t \in 0 .. args.concurrent - 1
    BY ArgsType DEF SuiInv, BenchInv, Task
  <2>2. senders = args.concurrent /\ t < senders
    BY <2>1 DEF SuiInv, FundedInv
  <2> QED BY <2>2 DEF SuiInv, FundedInv
<1> QED BY <1>1, SuiInvariance, PTL

\* With a local node every transaction of a task that has lost no answer names
\* the last version of its coin.
THEOREM LocalNeverStale == SuiSpec => []LocalBuildsFresh
<1>1. SuiInv => LocalBuildsFresh
  <2> SUFFICES ASSUME SuiInv, is_local, NEW c \in pool,
                      c.status = "pending", c.task \notin late
               PROVE  c.sent = version[c.task]
    BY Zenon DEF LocalBuildsFresh
  <2>1. c.task \in Task
    BY WindowType DEF SuiInv
  <2>2. CallFresh(c)
    BY <2>1, FreshTask, FreshCall
  <2> QED BY <2>2 DEF CallFresh
<1> QED BY <1>1, SuiInvariance, PTL

----------------------------------------------------------------------------
(***************************************************************************)
(* The totals of the contract.                                             *)
(***************************************************************************)
\* The records of the window, while it is not reported.
OfWindow(a) ==
  IF phase \in {"open", "closing"} /\ is_type_a(window) = a THEN Cardinality(recorded) ELSE 0

\* Inductive, with CountInv: the contract has counted what is reported of
\* either type, and the records of the window that is not reported yet; and
\* every answer tells what became of its call.
CoverInv ==
  /\ untold = {}
  /\ ledger = [type_a |-> ledger.type_a, type_b |-> ledger.type_b,
               total_a |-> ledger.total_a, total_b |-> ledger.total_b]
  /\ \A a \in BOOLEAN :
       /\ TotalOf(a) \in Nat
       /\ total(reported(a), Len(reports)) + OfWindow(a) <= TotalOf(a)

LEMMA ReportedType ==
  ASSUME reports \in Seq(Nat), NEW a \in BOOLEAN
  PROVE  /\ Len(reports) \in Nat
         /\ \A k \in 0 .. Len(reports) - 1 : reported(a)[k] \in Nat
         /\ total(reported(a), Len(reports)) \in Nat
<1>1. Len(reports) \in Nat /\ \A k \in 1 .. Len(reports) : reports[k] \in Nat
  OBVIOUS
<1>2. \A k \in 0 .. Len(reports) - 1 : k + 1 \in 1 .. Len(reports)
  BY <1>1
<1>3. \A k \in 0 .. Len(reports) - 1 : reported(a)[k] \in Nat
  BY <1>1, <1>2 DEF reported
<1> QED BY <1>1, <1>3, TotalType

\* A step that reports, records and counts nothing.
LEMMA CoverFrame ==
  ASSUME CoverInv, UNCHANGED <<reports, ledger>>, untold' = {},
         \A a \in BOOLEAN : OfWindow(a)' = OfWindow(a)
  PROVE  CoverInv'
<1>1. \A a \in BOOLEAN : TotalOf(a)' = TotalOf(a)
  BY DEF TotalOf
<1>2. \A a \in BOOLEAN : total(reported(a), Len(reports))' = total(reported(a), Len(reports))
  BY DEF total, reported, is_type_a
<1> QED BY <1>1, <1>2 DEF CoverInv

LEMMA InitCover == SuiInit => CoverInv
<1> SUFFICES ASSUME SuiInit PROVE CoverInv
  OBVIOUS
<1>1. /\ reports = << >> /\ phase = "setup" /\ untold = {}
      /\ ledger = [type_a |-> {}, type_b |-> {}, total_a |-> 0, total_b |-> 0]
  BY DEF SuiInit, BenchInit
<1>2. ASSUME NEW a \in BOOLEAN PROVE total(reported(a), Len(reports)) = 0
  <2>1. Len(reports) = 0
    BY <1>1
  <2>2. total(reported(a), 0) = 0
    BY TotalZeros
  <2> QED BY <2>1, <2>2
<1>3. \A a \in BOOLEAN : OfWindow(a) = 0 /\ TotalOf(a) = 0
  BY <1>1 DEF OfWindow, TotalOf
<1> QED BY <1>1, <1>2, <1>3 DEF CoverInv

LEMMA OpenCover ==
  ASSUME BenchInv, CoverInv, Open, UNCHANGED suiVars
  PROVE  CoverInv'
<1>1. phase = "between" /\ recorded' = {} /\ untold' = {} /\ UNCHANGED <<reports, ledger>>
  BY DEF Open, suiVars
<1>2. Cardinality(recorded') = 0
  BY <1>1, FS_EmptySet
<1>3. \A a \in BOOLEAN : OfWindow(a)' = 0 /\ OfWindow(a) = 0
  BY <1>1, <1>2 DEF OfWindow
<1> QED BY <1>1, <1>3, CoverFrame

\* The window's report is at most what was recorded in it.
LEMMA ReportCover ==
  ASSUME BenchInv, CountInv, CoverInv, Report, UNCHANGED suiVars
  PROVE  CoverInv'
<1> DEFINE added == total(committed, args.concurrent)
           n == Len(reports)
<1>1. /\ phase = "closing" /\ phase' \in {"between", "done"}
      /\ reports' = Append(reports, added)
      /\ UNCHANGED <<window, recorded, untold, ledger>>
  BY DEF Report, suiVars
<1>2. added \in Nat /\ Cardinality(recorded) \in Nat /\ added <= Cardinality(recorded)
  <2>1. Backed = recorded
    BY DEF CoverInv, Backed
  <2> QED BY <2>1, TotalRecorded
<1>3. reports \in Seq(Nat) /\ n = window - 1 /\ window \in Nat /\ n \in Nat
  BY <1>1, WindowType DEF CountInv
<1> HIDE DEF added
<1>4. reports' \in Seq(Nat) /\ Len(reports') = n + 1 /\ reports'[n + 1] = added
      /\ \A i \in 1 .. n : reports'[i] = reports[i]
  BY <1>1, <1>2, <1>3
<1> HIDE DEF n
<1>5. ASSUME NEW a \in BOOLEAN
      PROVE  total(reported(a), Len(reports))' + OfWindow(a)' <= total(reported(a), n) + OfWindow(a)
  <2> DEFINE counts == reported(a)
             more == [w \in 0 .. Len(reports') - 1 |-> IF is_type_a(w + 1) = a THEN reports'[w + 1] ELSE 0]
             last == IF is_type_a(window) = a THEN added ELSE 0
  <2>1. total(reported(a), Len(reports))' = total(more, n + 1)
    <3>1. reported(a)' = more
      BY DEF reported, is_type_a
    <3>2. total(reported(a), Len(reports))' = total(reported(a)', Len(reports'))
      BY DEF total
    <3> QED BY <1>4, <3>1, <3>2
  <2>2. \A k \in 0 .. n - 1 : counts[k] \in Nat /\ more[k] = counts[k]
    <3>1. \A k \in 0 .. n - 1 : counts[k] \in Nat
      BY <1>3, ReportedType DEF n
    <3>2. \A k \in 0 .. n - 1 : /\ k \in 0 .. (n + 1) - 1 /\ k + 1 \in 1 .. n
                                /\ reports'[k + 1] = reports[k + 1]
      BY <1>3, <1>4
    <3>3. \A k \in 0 .. n - 1 : more[k] = counts[k]
      BY <1>4, <3>2 DEF reported, n
    <3> QED BY <3>1, <3>3
  <2>3. more[n] = last /\ last \in Nat
    <3>1. n \in 0 .. Len(reports') - 1 /\ n + 1 = window
      BY <1>3, <1>4
    <3> QED BY <1>2, <1>4, <3>1
  <2> HIDE DEF counts, more, last
  <2>4. total(counts, n) \in Nat /\ total(more, n + 1) = total(counts, n) + last
    BY <1>3, <2>2, <2>3, TotalNext
  <2>5. OfWindow(a)' = 0 /\ OfWindow(a) \in Nat /\ last <= OfWindow(a)
    BY <1>1, <1>2 DEF OfWindow, last
  <2>6. last \in Nat
    BY <2>3
  <2> QED BY <2>1, <2>4, <2>5, <2>6 DEF counts
<1>6. ASSUME NEW a \in BOOLEAN
      PROVE  /\ TotalOf(a)' = TotalOf(a) /\ TotalOf(a) \in Nat
             /\ total(reported(a), Len(reports))' + OfWindow(a)' <= TotalOf(a)'
  <2>1. TotalOf(a)' = TotalOf(a) /\ TotalOf(a) \in Nat
        /\ total(reported(a), n) + OfWindow(a) <= TotalOf(a)
    BY <1>1 DEF TotalOf, CoverInv, n
  <2>2. /\ total(reported(a), n) \in Nat /\ OfWindow(a) \in Nat /\ OfWindow(a)' = 0
    BY <1>1, <1>2, <1>3, ReportedType DEF OfWindow, n
  <2>3. total(reported(a), Len(reports))' \in Nat
    <3>1. \A k \in 0 .. (n + 1) - 1 : reported(a)'[k] \in Nat
      <4>1. \A k \in 0 .. (n + 1) - 1 : k + 1 \in 1 .. n + 1
        BY <1>3
      <4>2. \A i \in 1 .. n + 1 : reports'[i] \in Nat
        BY <1>4
      <4> QED BY <1>4, <4>1, <4>2 DEF reported
    <3>2. total(reported(a), Len(reports))' = total(reported(a)', n + 1)
      BY <1>4 DEF total
    <3>3. n + 1 \in Nat
      BY <1>3
    <3>4. total(reported(a)', n + 1) \in Nat
      BY <3>1, <3>3, TotalType
    <3> QED BY <3>2, <3>4
  <2> QED BY <1>5, <2>1, <2>2, <2>3
<1>7. ledger' = ledger
  BY <1>1
<1> QED BY <1>1, <1>6, <1>7 DEF CoverInv

\* What record_type adds to the total and to the table of one type.
LEMMA RecordStep ==
  ASSUME CoverInv, NEW of \in BOOLEAN, NEW id, ledger' = record_type(ledger, of, id)
  PROVE  /\ ledger' = [type_a |-> ledger'.type_a, type_b |-> ledger'.type_b,
                       total_a |-> ledger'.total_a, total_b |-> ledger'.total_b]
         /\ \A a \in BOOLEAN : TotalOf(a)' = TotalOf(a) + (IF a = of THEN 1 ELSE 0)
         /\ \A a \in BOOLEAN : LoansOf(a)' = IF a = of THEN LoansOf(a) \cup {id} ELSE LoansOf(a)
<1>1. PICK A, B, m, n : ledger = [type_a |-> A, type_b |-> B, total_a |-> m, total_b |-> n]
  BY DEF CoverInv
<1>2. ledger.type_a = A /\ ledger.type_b = B /\ ledger.total_a = m /\ ledger.total_b = n
  BY <1>1
<1>3. m \in Nat /\ n \in Nat
  BY <1>2 DEF CoverInv, TotalOf
<1>4. /\ TotalOf(TRUE) = m /\ TotalOf(FALSE) = n
      /\ LoansOf(TRUE) = A /\ LoansOf(FALSE) = B
  BY <1>2 DEF TotalOf, LoansOf
<1>5. \A a \in BOOLEAN : a = TRUE \/ a = FALSE
  OBVIOUS
<1>6. CASE of = TRUE
  <2>1. ledger' = [[ledger EXCEPT !.type_a = A \cup {id}] EXCEPT !.total_a = m + 1]
    BY <1>2, <1>6 DEF record_type
  <2>2. ledger' = [type_a |-> A \cup {id}, type_b |-> B, total_a |-> m + 1, total_b |-> n]
    BY <1>1, <2>1
  <2>3. /\ ledger'.type_a = A \cup {id} /\ ledger'.type_b = B
        /\ ledger'.total_a = m + 1 /\ ledger'.total_b = n
    BY <2>2
  <2>4. /\ TotalOf(TRUE)' = m + 1 /\ TotalOf(FALSE)' = n + 0
        /\ LoansOf(TRUE)' = A \cup {id} /\ LoansOf(FALSE)' = B
    BY <1>3, <2>3 DEF TotalOf, LoansOf
  <2>5. (IF TRUE = of THEN 1 ELSE 0) = 1 /\ (IF FALSE = of THEN 1 ELSE 0) = 0
    BY <1>6
  <2>6. \A a \in BOOLEAN : TotalOf(a)' = TotalOf(a) + (IF a = of THEN 1 ELSE 0)
    BY <1>4, <1>5, <2>4, <2>5, Zenon
  <2>7. \A a \in BOOLEAN : LoansOf(a)' = IF a = of THEN LoansOf(a) \cup {id} ELSE LoansOf(a)
    BY <1>4, <1>5, <1>6, <2>4, Zenon
  <2> QED BY <2>2, <2>3, <2>6, <2>7
<1>7. CASE of = FALSE
  <2>1. ledger' = [[ledger EXCEPT !.type_b = B \cup {id}] EXCEPT !.total_b = n + 1]
    BY <1>2, <1>7 DEF record_type
  <2>2. ledger' = [type_a |-> A, type_b |-> B \cup {id}, total_a |-> m, total_b |-> n + 1]
    BY <1>1, <2>1
  <2>3. /\ ledger'.type_a = A /\ ledger'.type_b = B \cup {id}
        /\ ledger'.total_a = m /\ ledger'.total_b = n + 1
    BY <2>2
  <2>4. /\ TotalOf(TRUE)' = m + 0 /\ TotalOf(FALSE)' = n + 1
        /\ LoansOf(TRUE)' = A /\ LoansOf(FALSE)' = B \cup {id}
    BY <1>3, <2>3 DEF TotalOf, LoansOf
  <2>5. (IF TRUE = of THEN 1 ELSE 0) = 0 /\ (IF FALSE = of THEN 1 ELSE 0) = 1
    BY <1>7
  <2>6. \A a \in BOOLEAN : TotalOf(a)' = TotalOf(a) + (IF a = of THEN 1 ELSE 0)
    BY <1>4, <1>5, <2>4, <2>5, Zenon
  <2>7. \A a \in BOOLEAN : LoansOf(a)' = IF a = of THEN LoansOf(a) \cup {id} ELSE LoansOf(a)
    BY <1>4, <1>5, <1>7, <2>4, Zenon
  <2> QED BY <2>2, <2>3, <2>6, <2>7
<1> QED BY <1>5, <1>6, <1>7

\* A record of the window is counted in the window's total, a late one of an
\* earlier window in the total of its type.
LEMMA ExecuteCover ==
  ASSUME BenchInv, CountInv, CoverInv, NEW c \in pool, NEW success \in BOOLEAN,
         ExecuteCall(c, success)
  PROVE  CountInv' /\ CoverInv'
<1> DEFINE status == IF success THEN "success" ELSE "failure"
<1>1. /\ Settle(c, success, status)
      /\ ledger' = IF success THEN record_type(ledger, is_type_a(c.window), c.loan_id) ELSE ledger
  BY Zenon DEF ExecuteCall
<1>2. status \in Statuses /\ (status \in {"0x0", "success"} => success)
  BY DEF Statuses
<1>3. UNCHANGED <<phase, window, reports, untold>>
  BY <1>1 DEF Settle
<1> HIDE DEF status
<1>4. CountInv' /\ Cardinality(recorded') <= Cardinality(recorded)
                                               + (IF success /\ c.window = window THEN 1 ELSE 0)
  BY <1>1, <1>2, SettleCount, Zenon
<1>5. Cardinality(recorded) \in Nat /\ Cardinality(recorded') \in Nat
  BY <1>4, FS_CardinalityType DEF CountInv
<1>6. \A a \in BOOLEAN : /\ total(reported(a), Len(reports))' = total(reported(a), Len(reports))
                         /\ total(reported(a), Len(reports)) \in Nat
  <2>1. \A a \in BOOLEAN : total(reported(a), Len(reports))' = total(reported(a), Len(reports))
    BY <1>3 DEF total, reported, is_type_a
  <2> QED BY <2>1, ReportedType DEF CountInv
<1>7. CASE success
  <2> DEFINE of == is_type_a(c.window)
  <2>1. ledger' = record_type(ledger, of, c.loan_id)
    BY <1>1, <1>7
  <2>2. of \in BOOLEAN
    BY DEF is_type_a
  <2>3. /\ ledger' = [type_a |-> ledger'.type_a, type_b |-> ledger'.type_b,
                      total_a |-> ledger'.total_a, total_b |-> ledger'.total_b]
        /\ \A a \in BOOLEAN : TotalOf(a)' = TotalOf(a) + (IF a = of THEN 1 ELSE 0)
    <3> HIDE DEF of
    <3> QED BY <2>1, <2>2, RecordStep, Zenon
  <2>4. \A a \in BOOLEAN : /\ OfWindow(a) \in Nat /\ OfWindow(a)' \in Nat
                           /\ OfWindow(a)' <= OfWindow(a) + (IF a = of THEN 1 ELSE 0)
    <3> TAKE a \in BOOLEAN
    <3>1. OfWindow(a) \in Nat /\ OfWindow(a)' \in Nat
      BY <1>5 DEF OfWindow
    <3>2. CASE c.window = window
      <4>1. is_type_a(window) = of /\ (is_type_a(window) = a)' = (of = a)
        BY <1>3, <3>2 DEF is_type_a
      <4>2. Cardinality(recorded') <= Cardinality(recorded) + 1
        BY <1>4, <1>7, <3>2
      <4> HIDE DEF of
      <4> QED BY <1>3, <1>5, <2>2, <4>1, <4>2 DEF OfWindow
    <3>3. CASE c.window # window
      <4>1. Cardinality(recorded') <= Cardinality(recorded)
        BY <1>4, <1>5, <3>3
      <4>2. (is_type_a(window) = a)' = (is_type_a(window) = a)
        BY <1>3 DEF is_type_a
      <4>3. OfWindow(a)' <= OfWindow(a)
        BY <1>3, <1>5, <4>1, <4>2 DEF OfWindow
      <4> QED BY <3>1, <4>3
    <3> QED BY <3>2, <3>3
  <2> HIDE DEF of
  <2>5. ASSUME NEW a \in BOOLEAN
        PROVE  TotalOf(a)' \in Nat /\ total(reported(a), Len(reports))' + OfWindow(a)' <= TotalOf(a)'
    <3>1. TotalOf(a) \in Nat /\ total(reported(a), Len(reports)) + OfWindow(a) <= TotalOf(a)
      BY DEF CoverInv
    <3>2. /\ TotalOf(a)' = TotalOf(a) + (IF a = of THEN 1 ELSE 0)
          /\ total(reported(a), Len(reports))' = total(reported(a), Len(reports))
          /\ total(reported(a), Len(reports)) \in Nat
      BY <1>6, <2>3, Zenon
    <3>3. /\ OfWindow(a) \in Nat /\ OfWindow(a)' \in Nat
          /\ OfWindow(a)' <= OfWindow(a) + (IF a = of THEN 1 ELSE 0)
      BY <2>4, Zenon
    <3>4. (IF a = of THEN 1 ELSE 0) \in Nat
      OBVIOUS
    <3> QED BY ONLY <3>1, <3>2, <3>3, <3>4
  <2> QED BY <1>3, <1>4, <2>3, <2>5 DEF CoverInv
<1>8. CASE ~success
  <2>1. ledger' = ledger /\ recorded' = recorded
    BY <1>1, <1>8 DEF Settle
  <2>2. \A a \in BOOLEAN : OfWindow(a)' = OfWindow(a)
    BY <1>3, <2>1 DEF OfWindow, is_type_a
  <2>3. untold' = {}
    BY <1>3 DEF CoverInv
  <2> QED BY <1>3, <1>4, <2>1, <2>2, <2>3, CoverFrame
<1> QED BY <1>7, <1>8

LEMMA NextCover ==
  SuiInv /\ CountInv /\ CoverInv /\ [SuiNext]_allSuiVars => CountInv' /\ CoverInv'
<1> SUFFICES ASSUME SuiInv, CountInv, CoverInv, [SuiNext]_allSuiVars
             PROVE  CountInv' /\ CoverInv'
  OBVIOUS
<1>1. BenchInv
  BY DEF SuiInv
<1>0. untold = {}
  BY DEF CoverInv
<1>2. ASSUME UNCHANGED <<phase, window, reports, recorded, untold, ledger>>
      PROVE  CoverInv'
  <2>1. \A a \in BOOLEAN : OfWindow(a)' = OfWindow(a)
    BY <1>2 DEF OfWindow, is_type_a
  <2> QED BY <1>0, <1>2, <2>1, CoverFrame
<1>3. CASE Open /\ UNCHANGED suiVars
  BY <1>1, <1>3, OpenCount, OpenCover
<1>4. CASE Stop /\ UNCHANGED suiVars
  <2>1. CountInv'
    BY <1>1, <1>4, CountFrame DEF Stop
  <2>2. \A a \in BOOLEAN : OfWindow(a)' = OfWindow(a)
    BY <1>4 DEF Stop, OfWindow, is_type_a
  <2> QED BY <1>0, <1>4, <2>1, <2>2, CoverFrame DEF Stop, suiVars
<1>5. CASE Report /\ UNCHANGED suiVars
  BY <1>1, <1>5, ReportCount, ReportCover
<1>6. ASSUME NEW status, RequestFaucet(status)
      PROVE  CountInv' /\ CoverInv'
  <2>1. /\ phase = "setup" /\ phase' \in {"setup", "between", "failed"}
        /\ UNCHANGED <<args, window, task, seq, committed, reports, pool, recorded, untold, ledger>>
    BY <1>6 DEF RequestFaucet
  <2>2. CountInv'
    BY <1>1, <2>1, CountFrame
  <2>3. \A a \in BOOLEAN : OfWindow(a)' = OfWindow(a)
    BY <2>1 DEF OfWindow
  <2> QED BY <1>0, <2>1, <2>2, <2>3, CoverFrame
<1>7. ASSUME NEW t \in Task, SubmitCall(t)
      PROVE  CountInv' /\ CoverInv'
  <2>1. Submit(t, known[t], "pending") /\ UNCHANGED suiVars
    BY <1>7 DEF SubmitCall
  <2>2. CountInv'
    BY <1>1, <2>1, SubmitCount, Zenon
  <2> QED BY <1>2, <2>1, <2>2 DEF Submit, suiVars
<1>8. ASSUME NEW t \in Task, LocalExecution(t)
      PROVE  CountInv' /\ CoverInv'
  <2>1. CountInv'
    BY <1>1, <1>8, CountFrame DEF LocalExecution, benchVars
  <2> QED BY <1>2, <1>8, <2>1 DEF LocalExecution, benchVars
<1>9. ASSUME NEW t \in Task, End(t), UNCHANGED suiVars
      PROVE  CountInv' /\ CoverInv'
  <2>1. CountInv'
    BY <1>1, <1>9, EndCount
  <2> QED BY <1>2, <1>9, <2>1 DEF End, suiVars
<1>10. ASSUME NEW c \in pool, Reject(c)
       PROVE  CountInv' /\ CoverInv'
  <2>1. Settle(c, FALSE, "error") /\ UNCHANGED suiVars /\ "error" \in Statuses
    BY <1>10, Zenon DEF Reject, Statuses
  <2>2. "error" \notin {"0x0", "success"}
    OBVIOUS
  <2>3. CountInv'
    BY <1>1, <2>1, <2>2, SettleCount, Zenon
  <2> QED BY <1>2, <2>1, <2>3 DEF Settle, suiVars
<1>11. ASSUME NEW c \in pool, ExecuteSigned(c)
       PROVE  CountInv' /\ CoverInv'
  <2>1. /\ Answer(c, c.status = "success", TRUE) /\ UNCHANGED suiVars
        /\ (c.status = "success") \in BOOLEAN /\ TRUE \in BOOLEAN
    BY <1>11, Zenon DEF ExecuteSigned
  <2>2. c.status = "success" => Executed(c)
    BY DEF Executed
  <2>3. CountInv'
    BY <1>1, <2>1, <2>2, AnswerCount, Zenon
  <2> QED BY <1>2, <2>1, <2>3 DEF Answer, suiVars
<1>12. ASSUME NEW c \in pool, SuiRpcError(c)
       PROVE  CountInv' /\ CoverInv'
  <2>1. /\ GiveUp(c, c.status = "pending") /\ (c.status = "pending") \in BOOLEAN
        /\ UNCHANGED ledger
    BY <1>12, Zenon DEF SuiRpcError
  <2>2. CountInv'
    BY <1>1, <2>1, GiveUpCount, Zenon
  <2> QED BY <1>2, <2>1, <2>2 DEF GiveUp
<1>13. ASSUME NEW c \in pool, NEW success \in BOOLEAN, ExecuteCall(c, success)
       PROVE  CountInv' /\ CoverInv'
  BY <1>1, <1>13, ExecuteCover
<1>14. CASE UNCHANGED allSuiVars
  <2>1. UNCHANGED <<args, phase, window, task, seq, committed, reports, pool, recorded, untold, ledger>>
    BY <1>14 DEF allSuiVars, benchVars, suiVars
  <2>2. CountInv'
    BY <1>1, <2>1, CountFrame
  <2> QED BY <1>2, <2>1, <2>2
<1>15. CASE (Open \/ Stop \/ Report) /\ UNCHANGED suiVars
  BY <1>3, <1>4, <1>5, <1>15
<1>16. CASE \E status \in {200, 429, 503, 400, 0} : RequestFaucet(status)
  BY <1>6, <1>16
<1>17. CASE \E t \in Task : SubmitCall(t) \/ LocalExecution(t) \/ (End(t) /\ UNCHANGED suiVars)
  BY <1>7, <1>8, <1>9, <1>17, Zenon
<1>18. CASE \E c \in pool : Reject(c) \/ ExecuteSigned(c) \/ SuiRpcError(c)
                              \/ \E success \in BOOLEAN : ExecuteCall(c, success)
  BY <1>10, <1>11, <1>12, <1>13, <1>18, Zenon
<1>19. CASE SuiNext
  BY <1>15, <1>16, <1>17, <1>18, <1>19 DEF SuiNext
<1> QED BY <1>14, <1>19

LEMMA CoverInvariance == SuiSpec => [](CountInv /\ CoverInv)
<1>1. SuiInit => CountInv
  BY InitCount DEF SuiInit
<1> QED BY <1>1, InitCover, NextCover, SuiInvariance, PTL DEF SuiSpec

\* On Sui, where every answer that is counted tells, the throughput is never
\* more than what the ledger has recorded (execute_signed, run_benchmark).
THEOREM SuiCountedAreRecorded == SuiSpec => [](CountedIsRecorded /\ untold = {})
<1>1. SuiInv /\ CountInv /\ CoverInv => (CountedIsRecorded /\ untold = {})
  BY CountedRecorded DEF SuiInv, CoverInv
<1> QED BY <1>1, SuiInvariance, CoverInvariance, PTL

----------------------------------------------------------------------------
\* The loans of a task that it has not submitted in the window.
Unsubmitted(t) == loan_id(t) .. id_base(t) + args.max_seq

\* The records of one type, each with its window: as many as the contract has
\* counted, and none of a call that may still be executed or submitted.
Executions(a, R) ==
  /\ R \in SUBSET (WindowsOf(a) \X LoansOf(a))
  /\ Cardinality(R) = TotalOf(a)
  /\ \A c \in pool : c.status = "pending" => <<c.window, c.loan_id>> \notin R
  /\ phase \in {"open", "closing"} =>
       \A t \in Task : \A id \in Unsubmitted(t) : <<window, id>> \notin R

\* Inductive, with the invariants above: no two calls are of one loan in one
\* window, and none is of a loan that is still to be submitted; so every record
\* is of another window or loan than those before.
TellInv ==
  /\ \A c \in pool : 1 <= c.window
  /\ \A c, d \in pool : c.window = d.window /\ c.loan_id = d.loan_id => c = d
  /\ phase \in {"open", "closing"} =>
       \A c \in pool : c.window = window => \A t \in Task : c.loan_id \notin Unsubmitted(t)
  /\ \A a \in BOOLEAN :
       /\ IsFiniteSet(LoansOf(a)) /\ Cardinality(LoansOf(a)) <= TotalOf(a)
       /\ \E R : Executions(a, R)

\* The windows are finitely many, so that a set of executions is finite, and
\* has at most as many elements as the loans have in all windows.
LEMMA FewExecutions ==
  ASSUME BenchInv, NEW a \in BOOLEAN, IsFiniteSet(LoansOf(a)), NEW R, Executions(a, R)
  PROVE  /\ IsFiniteSet(R)
         /\ Cardinality(R) <= Cardinality(WindowsOf(a)) * Cardinality(LoansOf(a))
<1>1. window \in Nat
  BY WindowType
<1>2. IsFiniteSet(1 .. window)
  BY <1>1, FS_Interval
<1>3. IsFiniteSet(WindowsOf(a))
  BY <1>2, FS_Subset DEF WindowsOf
<1>4. /\ IsFiniteSet(WindowsOf(a) \X LoansOf(a))
      /\ Cardinality(WindowsOf(a) \X LoansOf(a)) = Cardinality(WindowsOf(a)) * Cardinality(LoansOf(a))
  BY <1>3, FS_Product
<1> QED BY <1>4, FS_Subset DEF Executions

\* The next loan of a task is not among those of the others.
LEMMA LoansApart ==
  ASSUME BenchInv, NEW t \in Task, NEW u \in Task, t # u, seq[t] <= args.max_seq
  PROVE  loan_id(t) \notin Unsubmitted(u)
<1> DEFINE D == IdRange
<1>1. /\ t \in Nat /\ u \in Nat /\ D \in Nat /\ args.max_seq \in Nat /\ args.max_seq < D
      /\ id_base(t) = t * D /\ id_base(u) = u * D
      /\ id_base(t) \in Int /\ id_base(u) \in Int
      /\ seq[t] \in 1 .. args.max_seq + 1 /\ loan_id(t) = id_base(t) + seq[t]
      /\ seq[u] \in 1 .. args.max_seq + 1 /\ loan_id(u) = id_base(u) + seq[u]
  BY CountTypes
<1> HIDE DEF D
<1>2. \A m, n \in Nat : m < n => m * D + D <= n * D
  BY <1>1
<1>3. CASE t < u
  <2>1. id_base(t) + D <= id_base(u)
    BY <1>1, <1>2, <1>3
  <2>2. loan_id(t) < id_base(u) + seq[u]
    BY <1>1, <2>1
  <2> QED BY <1>1, <2>2 DEF Unsubmitted
<1>4. CASE u < t
  <2>1. id_base(u) + D <= id_base(t)
    BY <1>1, <1>2, <1>4
  <2>2. loan_id(t) > id_base(u) + args.max_seq
    BY <1>1, <2>1
  <2> QED BY <1>1, <2>2 DEF Unsubmitted
<1> QED BY <1>1, <1>3, <1>4

\* A step that executes and submits nothing, in a window that was open before.
LEMMA TellFrame ==
  ASSUME TellInv, UNCHANGED <<args, window, ledger>>, pool' \subseteq pool,
         phase' \in {"open", "closing"} => phase \in {"open", "closing"} /\ UNCHANGED seq
  PROVE  TellInv'
<1>1. \A a \in BOOLEAN : /\ TotalOf(a)' = TotalOf(a) /\ LoansOf(a)' = LoansOf(a)
                         /\ WindowsOf(a)' = WindowsOf(a)
  BY DEF TotalOf, LoansOf, WindowsOf, is_type_a
<1>2. Task' = Task
  BY DEF Task
<1>3. phase' \in {"open", "closing"} => \A t \in Task : Unsubmitted(t)' = Unsubmitted(t)
  BY DEF Unsubmitted, loan_id, id_base
<1>4. ASSUME NEW a \in BOOLEAN PROVE (\E R : Executions(a, R))'
  <2>1. PICK R : Executions(a, R)
    BY DEF TellInv
  <2>2. Executions(a, R)'
    BY <1>1, <1>2, <1>3, <2>1 DEF Executions
  <2> QED BY <2>2
<1>5. \A a \in BOOLEAN : (IsFiniteSet(LoansOf(a)) /\ Cardinality(LoansOf(a)) <= TotalOf(a))'
  BY <1>1 DEF TellInv
<1>6. (phase \in {"open", "closing"} =>
         \A c \in pool : c.window = window => \A t \in Task : c.loan_id \notin Unsubmitted(t))'
  BY <1>2, <1>3 DEF TellInv
<1> QED BY <1>4, <1>5, <1>6 DEF TellInv

LEMMA InitTell == SuiInit => TellInv
<1> SUFFICES ASSUME SuiInit PROVE TellInv
  OBVIOUS
<1>1. pool = {} /\ phase = "setup"
      /\ ledger = [type_a |-> {}, type_b |-> {}, total_a |-> 0, total_b |-> 0]
  BY DEF SuiInit, BenchInit
<1>2. \A a \in BOOLEAN : TotalOf(a) = 0 /\ LoansOf(a) = {}
  BY <1>1 DEF TotalOf, LoansOf
<1>3. IsFiniteSet({}) /\ Cardinality({}) = 0
  BY FS_EmptySet
<1>4. \A a \in BOOLEAN : Executions(a, {})
  BY <1>1, <1>2, <1>3 DEF Executions
<1> QED BY <1>1, <1>2, <1>3, <1>4 DEF TellInv

\* A window opens, of which there is no record and no call yet.
LEMMA OpenTell ==
  ASSUME BenchInv, CountInv, TellInv, Open, UNCHANGED suiVars
  PROVE  TellInv'
<1>1. window' = window + 1 /\ UNCHANGED <<args, pool, ledger>> /\ window \in Nat
  BY WindowType DEF Open, suiVars
<1>2. \A c \in pool : c.window # window'
  BY <1>1, WindowType DEF CountInv
<1>3. \A a \in BOOLEAN : TotalOf(a)' = TotalOf(a) /\ LoansOf(a)' = LoansOf(a)
  BY <1>1 DEF TotalOf, LoansOf
<1>4. ASSUME NEW a \in BOOLEAN PROVE (\E R : Executions(a, R))'
  <2>1. PICK R : Executions(a, R)
    BY DEF TellInv
  <2>2. /\ \A w \in WindowsOf(a) : w \in WindowsOf(a)' /\ w # window'
    BY <1>1 DEF WindowsOf, is_type_a
  <2>3. R \in SUBSET (WindowsOf(a)' \X LoansOf(a))
    BY <2>1, <2>2 DEF Executions
  <2>4. \A id : <<window', id>> \notin R
    BY <2>1, <2>2 DEF Executions
  <2>5. Executions(a, R)'
    BY <1>1, <1>3, <2>1, <2>3, <2>4 DEF Executions
  <2> QED BY <2>5
<1>5. \A a \in BOOLEAN : (IsFiniteSet(LoansOf(a)) /\ Cardinality(LoansOf(a)) <= TotalOf(a))'
  BY <1>3 DEF TellInv
<1> QED BY <1>1, <1>2, <1>4, <1>5 DEF TellInv

\* The new call is of a loan that no call of the window and no record is of.
LEMMA SubmitTell ==
  ASSUME BenchInv, TellInv, NEW t \in Task, SubmitCall(t)
  PROVE  TellInv'
<1> DEFINE call == [window |-> window, task |-> t, loan_id |-> loan_id(t),
                    sent |-> known[t], status |-> "pending"]
<1>1. /\ UNCHANGED <<args, phase, window, ledger>> /\ phase = "open"
      /\ seq' = [seq EXCEPT ![t] = @ + 1] /\ seq[t] <= args.max_seq
      /\ pool' = pool \cup {call} /\ Task' = Task
  BY DEF SubmitCall, Submit, suiVars, Task
<1>2. /\ window \in Nat /\ window > 0 /\ args.max_seq \in Nat
      /\ seq \in [Task -> 1 .. args.max_seq + 1]
      /\ \A u \in Task : id_base(u) \in Int /\ loan_id(u) = id_base(u) + seq[u]
  BY <1>1, CountTypes DEF BenchInv
<1>3. call.window = window /\ call.loan_id = loan_id(t)
  OBVIOUS
<1> HIDE DEF call
<1>4. ASSUME NEW u \in Task
      PROVE  Unsubmitted(u)' \subseteq Unsubmitted(u) /\ loan_id(t) \notin Unsubmitted(u)'
  <2>1. id_base(u)' = id_base(u)
    BY DEF id_base
  <2>2. CASE u = t
    <3>1. seq'[u] = seq[u] + 1
      BY <1>1, <1>2, <2>2
    <3>2. loan_id(u)' = loan_id(u) + 1
      BY <1>2, <2>1, <3>1 DEF loan_id
    <3> QED BY <1>1, <1>2, <2>1, <2>2, <3>2 DEF Unsubmitted
  <2>3. CASE u # t
    <3>1. seq'[u] = seq[u]
      BY <1>1, <1>2, <2>3
    <3>2. Unsubmitted(u)' = Unsubmitted(u)
      BY <1>1, <2>1, <3>1 DEF Unsubmitted, loan_id
    <3> QED BY <1>1, <2>3, <3>2, LoansApart
  <2> QED BY <2>2, <2>3
<1>5. loan_id(t) \in Unsubmitted(t)
  BY <1>1, <1>2 DEF Unsubmitted
<1>6. \A c \in pool : ~(c.window = window /\ c.loan_id = loan_id(t))
  BY <1>1, <1>5 DEF TellInv
<1>7. \A a \in BOOLEAN : /\ TotalOf(a)' = TotalOf(a) /\ LoansOf(a)' = LoansOf(a)
                         /\ WindowsOf(a)' = WindowsOf(a)
  BY <1>1 DEF TotalOf, LoansOf, WindowsOf, is_type_a
<1>8. ASSUME NEW a \in BOOLEAN PROVE (\E R : Executions(a, R))'
  <2>1. PICK R : Executions(a, R)
    BY DEF TellInv
  <2>2. <<call.window, call.loan_id>> \notin R
    BY <1>1, <1>3, <1>5, <2>1 DEF Executions
  <2>3. \A c \in pool' : c.status = "pending" => <<c.window, c.loan_id>> \notin R
    BY <1>1, <2>1, <2>2 DEF Executions
  <2>4. \A u \in Task : \A id \in Unsubmitted(u)' : <<window, id>> \notin R
    BY <1>1, <1>4, <2>1 DEF Executions
  <2>5. Executions(a, R)'
    BY <1>1, <1>7, <2>1, <2>3, <2>4 DEF Executions
  <2> QED BY <2>5
<1>9. \A a \in BOOLEAN : (IsFiniteSet(LoansOf(a)) /\ Cardinality(LoansOf(a)) <= TotalOf(a))'
  BY <1>7 DEF TellInv
<1>10. \A c \in pool' : 1 <= c.window
  BY <1>1, <1>2, <1>3 DEF TellInv
<1>11. \A c, d \in pool' : c.window = d.window /\ c.loan_id = d.loan_id => c = d
  BY <1>1, <1>3, <1>6 DEF TellInv
<1>12. \A c \in pool' : c.window = window => \A u \in Task : c.loan_id \notin Unsubmitted(u)'
  BY <1>1, <1>3, <1>4 DEF TellInv
<1> QED BY <1>1, <1>8, <1>9, <1>10, <1>11, <1>12 DEF TellInv

\* A call that is settled is still of the same loan, and is pending no longer.
LEMMA SettleTell ==
  ASSUME BenchInv, TellInv, NEW c \in pool, NEW announced \in BOOLEAN, NEW status \in Statuses,
         Settle(c, announced, status), status # "pending"
  PROVE  /\ UNCHANGED <<args, phase, window, seq>>
         /\ \A d \in pool' : 1 <= d.window
         /\ \A d, e \in pool' : d.window = e.window /\ d.loan_id = e.loan_id => d = e
         /\ \A d \in pool' : \E e \in pool : d.window = e.window /\ d.loan_id = e.loan_id
         /\ \A d \in pool' : d.status = "pending" =>
              d \in pool /\ ~(d.window = c.window /\ d.loan_id = c.loan_id)
<1> DEFINE s == [c EXCEPT !.status = status]
<1>1. /\ UNCHANGED <<args, phase, window, seq>>
      /\ pool' = (pool \ {c}) \cup (IF Awaited(c) THEN {s} ELSE {})
  BY DEF Settle
<1>2. c \in Calls
  BY WindowType
<1>3. s.window = c.window /\ s.loan_id = c.loan_id /\ s.status = status
  BY <1>2 DEF Calls
<1> HIDE DEF s
<1>4. \A d \in pool' : d = s \/ (d \in pool /\ d # c)
  BY <1>1
<1>5. \A d \in pool : d # c => ~(d.window = c.window /\ d.loan_id = c.loan_id)
  BY DEF TellInv
<1>6. \A d \in pool' : 1 <= d.window
  BY <1>3, <1>4 DEF TellInv
<1>7. \A d, e \in pool' : d.window = e.window /\ d.loan_id = e.loan_id => d = e
  BY <1>3, <1>4, <1>5 DEF TellInv
<1>8. \A d \in pool' : \E e \in pool : d.window = e.window /\ d.loan_id = e.loan_id
  BY <1>3, <1>4
<1>9. \A d \in pool' : d.status = "pending" =>
        d \in pool /\ ~(d.window = c.window /\ d.loan_id = c.loan_id)
  BY <1>3, <1>4, <1>5
<1> QED BY <1>1, <1>6, <1>7, <1>8, <1>9

LEMMA RejectTell ==
  ASSUME BenchInv, TellInv, NEW c \in pool, Reject(c)
  PROVE  TellInv'
<1>1. Settle(c, FALSE, "error") /\ UNCHANGED suiVars /\ "error" \in Statuses /\ "error" # "pending"
  BY Zenon DEF Reject, Statuses
<1>2. /\ UNCHANGED <<args, phase, window, seq, ledger>>
      /\ \A d \in pool' : 1 <= d.window
      /\ \A d, e \in pool' : d.window = e.window /\ d.loan_id = e.loan_id => d = e
      /\ \A d \in pool' : \E e \in pool : d.window = e.window /\ d.loan_id = e.loan_id
      /\ \A d \in pool' : d.status = "pending" => d \in pool
  BY <1>1, SettleTell, Zenon DEF suiVars
<1>3. \A a \in BOOLEAN : /\ TotalOf(a)' = TotalOf(a) /\ LoansOf(a)' = LoansOf(a)
                         /\ WindowsOf(a)' = WindowsOf(a)
  BY <1>2 DEF TotalOf, LoansOf, WindowsOf, is_type_a
<1>4. Task' = Task /\ \A t \in Task : Unsubmitted(t)' = Unsubmitted(t)
  BY <1>2 DEF Task, Unsubmitted, loan_id, id_base
<1>5. ASSUME NEW a \in BOOLEAN PROVE (\E R : Executions(a, R))'
  <2>1. PICK R : Executions(a, R)
    BY DEF TellInv
  <2>2. Executions(a, R)'
    BY <1>2, <1>3, <1>4, <2>1 DEF Executions
  <2> QED BY <2>2
<1>6. \A a \in BOOLEAN : (IsFiniteSet(LoansOf(a)) /\ Cardinality(LoansOf(a)) <= TotalOf(a))'
  BY <1>3 DEF TellInv
<1>7. (phase \in {"open", "closing"} =>
         \A d \in pool : d.window = window => \A t \in Task : d.loan_id \notin Unsubmitted(t))'
  BY <1>2, <1>4 DEF TellInv
<1> QED BY <1>2, <1>5, <1>6, <1>7 DEF TellInv

\* A record adds its window and loan to the executions, and its loan to the
\* table, if it is not there.
LEMMA ExecuteTell ==
  ASSUME BenchInv, CountInv, CoverInv, TellInv, NEW c \in pool, NEW success \in BOOLEAN,
         ExecuteCall(c, success)
  PROVE  TellInv'
<1> DEFINE status == IF success THEN "success" ELSE "failure"
           of == is_type_a(c.window)
           pair == <<c.window, c.loan_id>>
<1>1. /\ c.status = "pending" /\ Settle(c, success, status)
      /\ ledger' = IF success THEN record_type(ledger, is_type_a(c.window), c.loan_id) ELSE ledger
  BY Zenon DEF ExecuteCall
<1>2. status \in Statuses /\ status # "pending" /\ of \in BOOLEAN
  BY DEF Statuses, is_type_a
<1> HIDE DEF status
<1>3. /\ UNCHANGED <<args, phase, window, seq>>
      /\ \A d \in pool' : 1 <= d.window
      /\ \A d, e \in pool' : d.window = e.window /\ d.loan_id = e.loan_id => d = e
      /\ \A d \in pool' : \E e \in pool : d.window = e.window /\ d.loan_id = e.loan_id
      /\ \A d \in pool' : d.status = "pending" =>
           d \in pool /\ ~(d.window = c.window /\ d.loan_id = c.loan_id)
  BY <1>1, <1>2, SettleTell, Zenon
<1>4. \A a \in BOOLEAN :
        /\ TotalOf(a) \in Nat
        /\ TotalOf(a)' = TotalOf(a) + (IF success /\ a = of THEN 1 ELSE 0)
        /\ LoansOf(a)' = IF success /\ a = of THEN LoansOf(a) \cup {c.loan_id} ELSE LoansOf(a)
  <2>1. \A a \in BOOLEAN : TotalOf(a) \in Nat
    BY DEF CoverInv
  <2>2. CASE success
    <3>1. ledger' = record_type(ledger, of, c.loan_id)
      BY <1>1, <2>2
    <3> HIDE DEF of
    <3>2. \A a \in BOOLEAN :
            /\ TotalOf(a)' = TotalOf(a) + (IF a = of THEN 1 ELSE 0)
            /\ LoansOf(a)' = IF a = of THEN LoansOf(a) \cup {c.loan_id} ELSE LoansOf(a)
      BY <1>2, <3>1, RecordStep, Zenon
    <3> QED BY <2>1, <2>2, <3>2, Zenon
  <2>3. CASE ~success
    <3>1. \A a \in BOOLEAN : TotalOf(a)' = TotalOf(a) /\ LoansOf(a)' = LoansOf(a)
      BY <1>1, <2>3 DEF TotalOf, LoansOf
    <3> HIDE DEF of
    <3> QED BY <2>1, <2>3, <3>1
  <2> QED BY <2>2, <2>3
<1>5. /\ Task' = Task /\ \A t \in Task : Unsubmitted(t)' = Unsubmitted(t)
      /\ \A a \in BOOLEAN : WindowsOf(a)' = WindowsOf(a)
  BY <1>3 DEF Task, Unsubmitted, loan_id, id_base, WindowsOf, is_type_a
<1>6. c.window \in WindowsOf(of)
  BY WindowType DEF TellInv, CountInv, WindowsOf
<1>7. phase \in {"open", "closing"} =>
        \A d \in pool : d.window = window => \A t \in Task : d.loan_id \notin Unsubmitted(t)
  BY DEF TellInv
<1> HIDE DEF of
<1>8. ASSUME NEW a \in BOOLEAN
      PROVE  /\ (IsFiniteSet(LoansOf(a)) /\ Cardinality(LoansOf(a)) <= TotalOf(a))'
             /\ (\E R : Executions(a, R))'
  <2>1. IsFiniteSet(LoansOf(a)) /\ Cardinality(LoansOf(a)) <= TotalOf(a)
    BY DEF TellInv
  <2>2. PICK R : Executions(a, R)
    BY DEF TellInv
  <2>3. IsFiniteSet(R) /\ Cardinality(R) = TotalOf(a) /\ pair \notin R
    BY <1>1, <2>1, <2>2, FewExecutions DEF Executions
  <2>4. Cardinality(LoansOf(a)) \in Nat
    BY <2>1, FS_CardinalityType
  <2>5. CASE success /\ a = of
    <3> DEFINE more == R \cup {pair}
    <3>1. /\ TotalOf(a)' = TotalOf(a) + 1 /\ LoansOf(a)' = LoansOf(a) \cup {c.loan_id}
          /\ TotalOf(a) \in Nat
      BY <1>4, <2>5
    <3>2. /\ IsFiniteSet(LoansOf(a) \cup {c.loan_id})
          /\ Cardinality(LoansOf(a) \cup {c.loan_id})
               = IF c.loan_id \in LoansOf(a) THEN Cardinality(LoansOf(a))
                 ELSE Cardinality(LoansOf(a)) + 1
      BY <2>1, FS_AddElement
    <3>3. (IsFiniteSet(LoansOf(a)) /\ Cardinality(LoansOf(a)) <= TotalOf(a))'
      BY <2>1, <2>4, <3>1, <3>2
    <3>4. Cardinality(more) = TotalOf(a) + 1
      BY <2>3, FS_AddElement
    <3>5. more \in SUBSET (WindowsOf(a) \X (LoansOf(a) \cup {c.loan_id}))
      BY <1>6, <2>2, <2>5 DEF Executions
    <3>6. \A d \in pool' : d.status = "pending" => <<d.window, d.loan_id>> \notin more
      BY <1>3, <2>2 DEF Executions
    <3>7. phase \in {"open", "closing"} =>
            \A t \in Task : \A id \in Unsubmitted(t) : <<window, id>> \notin more
      BY <1>7, <2>2 DEF Executions
    <3> HIDE DEF more
    <3>8. Executions(a, more)'
      BY <1>3, <1>5, <3>1, <3>4, <3>5, <3>6, <3>7 DEF Executions
    <3> QED BY <3>3, <3>8
  <2>6. CASE ~(success /\ a = of)
    <3>1. TotalOf(a)' = TotalOf(a) /\ LoansOf(a)' = LoansOf(a)
      BY <1>4, <2>6
    <3>2. Executions(a, R)'
      BY <1>3, <1>5, <2>2, <3>1 DEF Executions
    <3> QED BY <2>1, <3>1, <3>2
  <2> QED BY <2>5, <2>6
<1>9. (phase \in {"open", "closing"} =>
         \A d \in pool : d.window = window => \A t \in Task : d.loan_id \notin Unsubmitted(t))'
  BY <1>3, <1>5, <1>7
<1> QED BY <1>3, <1>8, <1>9 DEF TellInv

LEMMA NextTell ==
  SuiInv /\ CountInv /\ CoverInv /\ TellInv /\ [SuiNext]_allSuiVars => TellInv'
<1> SUFFICES ASSUME SuiInv, CountInv, CoverInv, TellInv, [SuiNext]_allSuiVars
             PROVE  TellInv'
  OBVIOUS
<1>1. BenchInv
  BY DEF SuiInv
<1>2. CASE Open /\ UNCHANGED suiVars
  BY <1>1, <1>2, OpenTell
<1>3. CASE (Stop \/ Report) /\ UNCHANGED suiVars
  <2>1. /\ UNCHANGED <<args, window, ledger, pool>>
        /\ phase' \in {"open", "closing"} => phase \in {"open", "closing"} /\ UNCHANGED seq
    BY <1>3 DEF Stop, Report, suiVars
  <2> QED BY <2>1, TellFrame
<1>4. ASSUME NEW status, RequestFaucet(status) PROVE TellInv'
  <2>1. /\ UNCHANGED <<args, window, ledger, pool>>
        /\ phase' \notin {"open", "closing"}
    BY <1>4 DEF RequestFaucet
  <2> QED BY <2>1, TellFrame
<1>5. ASSUME NEW t \in Task, SubmitCall(t) PROVE TellInv'
  BY <1>1, <1>5, SubmitTell
<1>6. ASSUME NEW t \in Task, LocalExecution(t) \/ (End(t) /\ UNCHANGED suiVars) PROVE TellInv'
  <2>1. UNCHANGED <<args, window, ledger, pool, phase, seq>>
    BY <1>6 DEF LocalExecution, benchVars, End, suiVars
  <2> QED BY <2>1, TellFrame
<1>7. ASSUME NEW c \in pool, ExecuteSigned(c) \/ SuiRpcError(c) PROVE TellInv'
  <2>1. UNCHANGED <<args, window, ledger, phase, seq>> /\ pool' \subseteq pool
    BY <1>7 DEF ExecuteSigned, Answer, SuiRpcError, GiveUp, suiVars
  <2> QED BY <2>1, TellFrame
<1>8. ASSUME NEW c \in pool, Reject(c) PROVE TellInv'
  BY <1>1, <1>8, RejectTell
<1>9. ASSUME NEW c \in pool, NEW success \in BOOLEAN, ExecuteCall(c, success) PROVE TellInv'
  BY <1>1, <1>9, ExecuteTell
<1>10. CASE UNCHANGED allSuiVars
  <2>1. UNCHANGED <<args, window, ledger, pool, phase, seq>>
    BY <1>10 DEF allSuiVars, benchVars, suiVars
  <2> QED BY <2>1, TellFrame
<1>11. CASE (Open \/ Stop \/ Report) /\ UNCHANGED suiVars
  BY <1>2, <1>3, <1>11
<1>12. CASE \E status \in {200, 429, 503, 400, 0} : RequestFaucet(status)
  BY <1>4, <1>12
<1>13. CASE \E t \in Task : SubmitCall(t) \/ LocalExecution(t) \/ (End(t) /\ UNCHANGED suiVars)
  BY <1>5, <1>6, <1>13, Zenon
<1>14. CASE \E c \in pool : Reject(c) \/ ExecuteSigned(c) \/ SuiRpcError(c)
                              \/ \E success \in BOOLEAN : ExecuteCall(c, success)
  BY <1>7, <1>8, <1>9, <1>14, Zenon
<1>15. CASE SuiNext
  BY <1>11, <1>12, <1>13, <1>14, <1>15 DEF SuiNext
<1> QED BY <1>10, <1>15

\* The contract's totals count at least what the benchmark has reported and
\* what is in the tables, and at most each loan once in each window, over any
\* number of tasks, windows and late calls (loan_ledger.move, run_benchmark).
THEOREM TotalsAlwaysTell == SuiSpec => []TotalsTellRecords
<1>1. BenchInv /\ CountInv /\ CoverInv /\ TellInv => TotalsTellRecords
  <2> SUFFICES ASSUME BenchInv, CountInv, CoverInv, TellInv, NEW a \in BOOLEAN
               PROVE  /\ total(reported(a), Len(reports)) <= TotalOf(a)
                      /\ Cardinality(LoansOf(a)) <= TotalOf(a)
                      /\ TotalOf(a) <= Cardinality(WindowsOf(a)) * Cardinality(LoansOf(a))
    BY DEF TotalsTellRecords
  <2>1. TotalOf(a) \in Nat /\ total(reported(a), Len(reports)) + OfWindow(a) <= TotalOf(a)
    BY DEF CoverInv
  <2>2. total(reported(a), Len(reports)) \in Nat /\ OfWindow(a) \in Nat
    BY ReportedType, FS_CardinalityType DEF CountInv, OfWindow
  <2>3. /\ IsFiniteSet(LoansOf(a)) /\ Cardinality(LoansOf(a)) <= TotalOf(a)
        /\ \E R : Executions(a, R)
    BY DEF TellInv
  <2>4. TotalOf(a) <= Cardinality(WindowsOf(a)) * Cardinality(LoansOf(a))
    BY <2>3, FewExecutions DEF Executions
  <2> QED BY <2>1, <2>2, <2>3, <2>4
<1>2. SuiSpec => []TellInv
  BY InitTell, NextTell, SuiInvariance, CoverInvariance, PTL DEF SuiSpec
<1>3. SuiInv => BenchInv
  BY DEF SuiInv
<1> QED BY <1>1, <1>2, <1>3, SuiInvariance, CoverInvariance, PTL
=============================================================================
