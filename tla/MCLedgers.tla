----------------------------- MODULE MCLedgers -----------------------------
(***************************************************************************)
(* A small instance, for TLC, of the benchmark on either ledger.  Each     *)
(* behaviour is of one of the two programs.                                *)
(***************************************************************************)
EXTENDS FiscoBench, SuiBench

\* Two tasks in one row; one task in two rows, of which the second records
\* the loans of the first again; one task with a series of submissions.
MCArgs == {[concurrent |-> 2, rows |-> 1, max_seq |-> 1], [concurrent |-> 1, rows |-> 2, max_seq |-> 1],
           [concurrent |-> 1, rows |-> 1, max_seq |-> 2]}

VARIABLE program  \* "fisco" or "sui"

allVars == <<benchVars, fiscoVars, suiVars, program>>

\* The other program's variables keep values that say nothing of this one.
MCInit ==
  /\ Init
  /\ \/ /\ program = "fisco"
        /\ is_local = FALSE /\ funded = Task
        /\ attempt = 0 /\ senders = 0 /\ late = {} /\ version = << >> /\ known = << >>
        /\ ledger = << >>
     \/ program = "sui" /\ block = 1 /\ SuiInit

OnFisco == program = "fisco" /\ Next /\ UNCHANGED <<suiVars, program>>
OnSui   == program = "sui" /\ SuiNext /\ UNCHANGED <<fiscoVars, program>>

\* What the runtime and the clock bring about: main goes on, a window's time
\* passes, a task goes on, and a call is answered or given up.
MainGoesOn ==
  IF program = "fisco" THEN (Start \/ OpenWindow \/ ((Stop \/ Report) /\ UNCHANGED fiscoVars))
                              /\ UNCHANGED <<suiVars, program>>
  ELSE (((Open \/ Stop \/ Report) /\ UNCHANGED suiVars)
          \/ \E status \in {200, 429, 503, 400, 0} : RequestFaucet(status))
         /\ UNCHANGED <<fiscoVars, program>>

TaskGoesOn(t) ==
  /\ t \in Task
  /\ \/ End(t) /\ UNCHANGED <<fiscoVars, suiVars, program>>
     \/ /\ program = "fisco"
        /\ \E c \in pool : c.task = t /\ (Receipt(c) \/ RpcError(c))
        /\ UNCHANGED <<suiVars, program>>
     \/ /\ program = "sui"
        /\ \E c \in pool : c.task = t /\ (ExecuteSigned(c) \/ SuiRpcError(c))
        /\ UNCHANGED <<fiscoVars, program>>

MCSpec ==
  /\ MCInit /\ [][OnFisco \/ OnSui]_allVars
  /\ WF_allVars(MainGoesOn) /\ \A t \in 0 .. 1 : WF_allVars(TaskGoesOn(t))

\* Every run ends, with the table or with an error: no rate limit of the
\* faucet, no silence of a node and no call that is executed late holds it up.
RunEnds == <>(phase \in {"done", "failed"})
=============================================================================
