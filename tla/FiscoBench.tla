----------------------------- MODULE FiscoBench -----------------------------
(***************************************************************************)
(* fisco_ledger: the client (client.rs, lib.rs) under tps_bench.rs.  A     *)
(* transaction is valid up to the block limit that it is signed with.  The *)
(* benchmark fetches it before each window and uses it for all of the      *)
(* window's transactions.                                                  *)
(*                                                                         *)
(* The nodes and the Solidity contracts are not part of the repository:    *)
(* a node refuses a transaction whose limit the chain has reached, and     *)
(* executes the others, one per block.                                     *)
(***************************************************************************)
EXTENDS Bench

CONSTANTS
  BlockLimit,  \* 600 in the code
  MaxBlock     \* bound on the blocks of other clients

ASSUME LimitAssumption == BlockLimit \in Nat /\ MaxBlock \in Nat

VARIABLES
  block,        \* the number of the last block
  first_block,  \* the number that main read at its start
  block_limit,  \* the limit of the window's transactions
  opened        \* [block, fresh]: the last block when the window opened, and
                \* whether getBlockNumber told it; only the properties use it

fiscoVars == <<block, first_block, block_limit, opened>>
vars == <<benchVars, fiscoVars>>

Init ==
  /\ BenchInit
  /\ block \in 1 .. 2
  /\ first_block = 0 /\ block_limit = 0 /\ opened = [block |-> 0, fresh |-> FALSE]

----------------------------------------------------------------------------
\* get_block_number: the last block; 0, if the answer is neither a number nor
\* hexadecimal; or an error.
GetBlockNumber == {[ok |-> block], [ok |-> 0], [err |-> TRUE]}
unwrap_or(result, default) == IF "ok" \in DOMAIN result THEN result.ok ELSE default

\* main begins with a number, or panics.
Start ==
  /\ phase = "setup"
  /\ \E r \in GetBlockNumber :
       /\ phase' = IF "ok" \in DOMAIN r THEN "between" ELSE "failed"
       /\ first_block' = unwrap_or(r, 0)
  /\ UNCHANGED <<args, window, task, seq, committed, reports, pool, recorded, untold,
                 block, block_limit, opened>>

\* Wrong variant of OpenWindow, which the properties must detect: the limit is
\* fetched once for both windows of a row.
OpenWindowOfRow ==
  /\ Open
  /\ \E r \in GetBlockNumber :
       /\ block_limit' = IF is_type_a(window + 1) THEN unwrap_or(r, first_block) + BlockLimit
                         ELSE block_limit
       /\ opened' = [block |-> block, fresh |-> r = [ok |-> block]]
  /\ UNCHANGED <<block, first_block>>

\* The limit is refreshed, from the first block after an error.
OpenWindow ==
  /\ Open
  /\ \E r \in GetBlockNumber :
       /\ block_limit' = unwrap_or(r, first_block) + BlockLimit
       /\ opened' = [block |-> block, fresh |-> r = [ok |-> block]]
  /\ UNCHANGED <<block, first_block>>

\* send_and_wait_with_limit up to the await: the transaction is signed.
SubmitWithLimit(t) == Submit(t, block_limit, "pending") /\ UNCHANGED fiscoVars

\* A node executes a transaction, with status 0 in the receipt; the contracts
\* revert one for loan 0.
Execute(c) ==
  /\ c.status = "pending" /\ c.sent > block
  /\ Settle(c, c.loan_id > 0, IF c.loan_id > 0 THEN "0x0" ELSE "0x10")
  /\ block' = block + 1
  /\ UNCHANGED <<first_block, block_limit, opened>>

Refuse(c) ==
  /\ c.status = "pending" /\ c.sent <= block
  /\ Settle(c, FALSE, "0x2714")
  /\ UNCHANGED fiscoVars

OtherBlock ==
  /\ phase \notin {"done", "failed"} /\ block < MaxBlock
  /\ block' = block + 1
  /\ UNCHANGED <<benchVars, first_block, block_limit, opened>>

\* Wrong variant of parse_inline_receipt, which the properties must detect:
\* a receipt is a success.
any_receipt(status) == TRUE

\* parse_status, of a number or of hexadecimal digits; anything else is 0.
parse_status(status) ==
  CASE status = "0x10" -> 16 [] status = "0x2714" -> 10004 [] OTHER -> 0

\* parse_inline_receipt: only status 0 is Ok, and a receipt without a status
\* ("none") has status 0.
parse_inline_receipt(status) == parse_status(status) = 0

\* A receipt has the status of the transaction, or none that can be read.
Receipt(c) ==
  /\ c.status # "pending"
  /\ \E status \in {c.status, "none"} :
       Answer(c, parse_inline_receipt(status), status # "none")
  /\ UNCHANGED fiscoVars

\* rpc: the HTTP client's 30 s, or an error of the connection.
RpcError(c) == GiveUp(c, c.status = "pending") /\ UNCHANGED fiscoVars

Next ==
  \/ Start \/ OpenWindow \/ OtherBlock
  \/ (Stop \/ Report) /\ UNCHANGED fiscoVars
  \/ \E t \in Task : SubmitWithLimit(t) \/ (End(t) /\ UNCHANGED fiscoVars)
  \/ \E c \in pool : Execute(c) \/ Refuse(c) \/ Receipt(c) \/ RpcError(c)

Spec == Init /\ [][Next]_vars

----------------------------------------------------------------------------
\* A transaction is refused for its limit only when the chain has grown by
\* BlockLimit blocks since its window opened, or when the refresh did not tell
\* the last block: the limit of an earlier window is never used.
RefusedAfterLimit ==
  \A c \in pool :
    (Awaited(c) /\ c.status = "0x2714" /\ opened.fresh) => block >= opened.block + BlockLimit
=============================================================================
