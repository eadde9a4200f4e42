------------------------------ MODULE SuiBench ------------------------------
(***************************************************************************)
(* sui_ledger: the client (client.rs) under tps_bench.rs, with the Move    *)
(* contract loan_ledger.move.  A transaction is built by the node, which   *)
(* puts in the version of the sender's gas coin that it knows of; each     *)
(* transaction of the sender makes a new version, and one that names an    *)
(* old version is not executed.  With a local node the client waits until  *)
(* the node has executed the transaction itself, so that it knows.         *)
(*                                                                         *)
(* The node, the validators and the faucet are not part of the repository. *)
(***************************************************************************)
EXTENDS Bench

VARIABLES
  is_local,  \* the node's address is local
  attempt,   \* of request_faucet, for the sender after the funded ones
  senders,   \* the tasks whose addresses setup_senders has
  funded,    \* the tasks whose addresses have coins
  version,   \* of the gas coin of each funded task
  known,     \* the version the node knows
  late,      \* the tasks whose client has given up on a call
  ledger     \* the LoanLedger: type_a, type_b, total_a, total_b

suiVars == <<is_local, attempt, senders, funded, version, known, late, ledger>>
allSuiVars == <<benchVars, suiVars>>

SuiInit ==
  /\ BenchInit
  /\ is_local \in BOOLEAN
  /\ attempt = 0 /\ senders = 0 /\ funded = {} /\ late = {}
  /\ version = [t \in Task |-> 0] /\ known = [t \in Task |-> 0]
  /\ ledger = [type_a |-> {}, type_b |-> {}, total_a |-> 0, total_b |-> 0]

----------------------------------------------------------------------------
\* Wrong variants of RequestFaucet, which the properties must detect: a sender
\* whose last attempt meets the rate limit passes for funded.
RequestFaucetLimited(status) ==
  /\ phase = "setup" /\ senders < args.concurrent
  /\ funded' = IF status = 200 THEN funded \cup {senders} ELSE funded
  /\ LET again == status = 429 \/ (status >= 500 /\ attempt < 9)
         over  == status = 429 /\ attempt = 9
     IN  /\ attempt' = IF again /\ ~over THEN attempt + 1 ELSE 0
         /\ senders' = IF status = 200 \/ over THEN senders + 1 ELSE senders
         /\ phase'   = IF status # 200 /\ ~again THEN "failed"
                       ELSE IF senders' = args.concurrent THEN "between" ELSE "setup"
  /\ UNCHANGED <<args, window, task, seq, committed, reports, pool, recorded, untold,
                 is_local, version, known, late, ledger>>

\* And another one: after the tenth attempt the count begins anew.
RequestFaucetForever(status) ==
  /\ phase = "setup" /\ senders < args.concurrent
  /\ funded' = IF status = 200 THEN funded \cup {senders} ELSE funded
  /\ LET again == status = 429 \/ status >= 500
     IN  /\ attempt' = IF again THEN (attempt + 1) % 10 ELSE 0
         /\ senders' = IF status = 200 THEN senders + 1 ELSE senders
         /\ phase'   = IF status # 200 /\ ~again THEN "failed"
                       ELSE IF senders' = args.concurrent THEN "between" ELSE "setup"
  /\ UNCHANGED <<args, window, task, seq, committed, reports, pool, recorded, untold,
                 is_local, version, known, late, ledger>>

\* setup_senders asks the faucet for one sender after the other: a request is
\* repeated when it meets the rate limit or an error of the server, ten times
\* in all; any other failure ends the program (0: no answer).
RequestFaucet(status) ==
  /\ phase = "setup" /\ senders < args.concurrent
  /\ funded' = IF status = 200 THEN funded \cup {senders} ELSE funded
  /\ LET again == (status = 429 \/ status >= 500) /\ attempt < 9
     IN  /\ attempt' = IF again THEN attempt + 1 ELSE 0
         /\ senders' = IF status = 200 THEN senders + 1 ELSE senders
         /\ phase'   = IF status # 200 /\ ~again THEN "failed"
                       ELSE IF senders' = args.concurrent THEN "between" ELSE "setup"
  /\ UNCHANGED <<args, window, task, seq, committed, reports, pool, recorded, untold,
                 is_local, version, known, late, ledger>>

\* submit_type_a and submit_type_b: the node builds the transaction with the
\* version that it knows, the client signs it and asks to execute it.
SubmitCall(t) == Submit(t, known[t], "pending") /\ UNCHANGED suiVars

\* Wrong variant of record_type, which the properties must detect: a record
\* that replaces another one is not counted.
record_type_once(l, is_a, id) ==
  IF is_a THEN [l EXCEPT !.type_a = @ \cup {id}, !.total_a = IF id \in l.type_a THEN @ ELSE @ + 1]
          ELSE [l EXCEPT !.type_b = @ \cup {id}, !.total_b = IF id \in l.type_b THEN @ ELSE @ + 1]

\* record_type_a and record_type_b of the contract.
record_type(l, is_a, id) ==
  IF is_a THEN [l EXCEPT !.type_a = @ \cup {id}, !.total_a = @ + 1]
          ELSE [l EXCEPT !.type_b = @ \cup {id}, !.total_b = @ + 1]

\* The validators execute a transaction, of which the contract's part may fail,
\* for want of gas; either way the coin has a new version.
ExecuteCall(c, success) ==
  /\ c.status = "pending" /\ c.sent = version[c.task] /\ c.task \in funded
  /\ Settle(c, success, IF success THEN "success" ELSE "failure")
  /\ version' = [version EXCEPT ![c.task] = @ + 1]
  /\ ledger' = IF success THEN record_type(ledger, is_type_a(c.window), c.loan_id) ELSE ledger
  /\ UNCHANGED <<is_local, attempt, senders, funded, known, late>>

\* They reject one with an old version, or one of two with the same version.
Reject(c) ==
  /\ c.status = "pending"
  /\ c.sent # version[c.task]
       \/ \E d \in pool \ {c} : d.status = "pending" /\ d.task = c.task /\ d.sent = c.sent
  /\ Settle(c, FALSE, "error")
  /\ UNCHANGED suiVars

\* The node learns of what has been executed.
LocalExecution(t) ==
  /\ known[t] # version[t]
  /\ known' = [known EXCEPT ![t] = version[t]]
  /\ UNCHANGED <<benchVars, is_local, attempt, senders, funded, version, late, ledger>>

\* Wrong variant of confirmed, which the properties must detect: the two modes
\* are mistaken for each other.
confirmed_swapped(c) == ~is_local => known[c.task] > c.sent

\* execute_signed: WaitForLocalExecution, or WaitForEffectsCert.
confirmed(c) == is_local => known[c.task] > c.sent

ExecuteSigned(c) ==
  /\ c.status \in {"success", "failure"} => confirmed(c)
  /\ c.status # "pending"
  /\ Answer(c, c.status = "success", TRUE)
  /\ UNCHANGED suiVars

\* rpc: the HTTP client's 60 s, or an error of the connection or the node.
SuiRpcError(c) ==
  /\ GiveUp(c, c.status = "pending")
  /\ late' = late \cup {c.task}
  /\ UNCHANGED <<is_local, attempt, senders, funded, version, known, ledger>>

SuiNext ==
  \/ (Open \/ Stop \/ Report) /\ UNCHANGED suiVars
  \/ \E status \in {200, 429, 503, 400, 0} : RequestFaucet(status)
  \/ \E t \in Task : SubmitCall(t) \/ LocalExecution(t) \/ (End(t) /\ UNCHANGED suiVars)
  \/ \E c \in pool : Reject(c) \/ ExecuteSigned(c) \/ SuiRpcError(c)
                     \/ \E success \in BOOLEAN : ExecuteCall(c, success)

SuiSpec == SuiInit /\ [][SuiNext]_allSuiVars

----------------------------------------------------------------------------
\* No window opens before every sender has coins, whatever the faucet answers:
\* a request ends with coins or the program with an error.
SendersFunded == phase \in {"between", "open", "closing", "done"} => Task \subseteq funded

\* With a local node, and unless an answer got lost, a transaction names the
\* last version of its sender's coin (client.rs:235): none is rejected, in a
\* window or from one to the next, and the throughput is not that of a race.
LocalBuildsFresh ==
  is_local =>
    \A c \in pool : (c.status = "pending" /\ c.task \notin late) => c.sent = version[c.task]

\* What was reported of the windows of one type, and nothing of the others.
reported(a) ==
  [w \in 0 .. Len(reports) - 1 |-> IF is_type_a(w + 1) = a THEN reports[w + 1] ELSE 0]

\* What the contract has counted, and the loans it has, of one type.
TotalOf(a) == IF a THEN ledger.total_a ELSE ledger.total_b
LoansOf(a) == IF a THEN ledger.type_a ELSE ledger.type_b

\* The windows so far in which loans of the type are submitted.
WindowsOf(a) == {w \in 1 .. window : is_type_a(w) = a}

\* A total of the contract counts at least what the benchmark reports, over
\* rows that record the same loans again, and at least the loans in its table;
\* but it exceeds the table by such rows alone: within a window no loan is
\* counted twice, by two tasks or by a call that is executed after its caller
\* has given up on it.  (Where there is a contract: MCLedgers runs the other
\* benchmark as well.)
TotalsTellRecords ==
  ledger # << >> =>
    \A a \in BOOLEAN :
      /\ total(reported(a), Len(reports)) <= TotalOf(a)
      /\ Cardinality(LoansOf(a)) <= TotalOf(a)
      /\ TotalOf(a) <= Cardinality(WindowsOf(a)) * Cardinality(LoansOf(a))
=============================================================================
