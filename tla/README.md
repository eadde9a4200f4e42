# Verification of the confidential distributed ledger

TLA+ models of this repository, the TLC configurations that check them, and
theorems that TLAPS proves about them. Paths are relative to the repository;
`C/` stands for `Confidential Distributed Ledgers/` and `node1.rs` and
`regulator.rs` for `C/intergration_test/src/node/node1/node1.rs` and
`C/intergration_test/src/regulator/regulator.rs`. The node2 to node4 binaries
are the same code with other paths.

    tlc -config MCDkg.cfg MCDkg        # model-check, likewise the other cfgs
    tlapm DkgProofs.tla                # prove, likewise the other *Proofs.tla

## The system

A group of lenders (nodes) and a regulator record syndicated loans. In a first
run the nodes generate a threshold Elgamal key pair and write their shares to
files. In a second run each node encrypts its amount under the group's key,
everybody sums the ciphertexts, and any `threshold + 1` decryption shares open
the sum. Records of the result go to a ledger, one by one or as checkpoints.

| component | state | operations | interacts through |
|---|---|---|---|
| registration, both runs (`regulator.rs`, `C/regulator/src/scheme/setup_phase.rs`, `C/node/src/scheme/setup_phase.rs`) | regulator: registrations counted, numbered list; node: its number and the list | register, count, number and broadcast, take the list | one TCP connection per message |
| key generation (`main()` of the binaries, `C/node/src/scheme/keygen_phase.rs`) | node: finish flags, shares, `sk`, `pk`, `pk_share_vec`; files `keypair.txt`, `pk_share.txt` | deal, check and sum, write | flags and shares between nodes |
| decryption (`decrypt()` of the binaries, `C/node/src/scheme/dec_phase.rs`) | regulator: finish flags; node: ciphertexts, shares, `batch_total_money` | encrypt, verify and sum, share, verify and combine | the files of key generation; broadcasts |
| Elgamal and proofs (`C/elgamal`) | none | encrypt, prove, batch-verify | called by decryption |
| Merkle tree (`C/message/src/merkle.rs`) | none | build, root, proof, verify | called by the next two |
| checkpoint buffer (`C/message/src/checkpoint.rs`) | buffered records | push, flush; verify of a batch | library: no caller but tests yet |
| off-chain shares (`assemble_aggregated_tx`, `C/message/src/tx.rs`) | none | commit to shares, hand out proofs | library: no caller but tests yet |
| transaction layouts (`C/message/src/tx.rs`) | none | sizes and bytes of the four payloads | the payloads of the clients |
| FISCO-BCOS client (`C/fisco_ledger/src`) | signer, configuration | encode, sign, send and wait, query | JSON-RPC to a node |
| Sui contract and client (`C/sui_ledger`) | contract: two tables, two totals; client: key, addresses of the package and the ledger | build, sign, execute; faucet | JSON-RPC to a node, HTTP to the faucet |
| benchmarks (`*/bin/tps_bench.rs`) | stop flag, counters, loan ids, block limit or senders | concurrent submission for a time window | the clients |
| comparison scheme (`Comparison Scheme/`) | regulator: flags and sums received; node: commitments and shares received, `M`, `share` | registration, key generation, the regulator's check of it | one TCP connection per message |
| range proofs (`Comparison Scheme/bulletproofs`) | none | prove and verify, in six ways | called by the comparison scheme; the main scheme calls a stub |

What is hard here is order. A process accepts each message on a connection of
its own and spawns a task for it, so two messages can be handled in either
order even when one was sent long before the other, by the same peer or
because of it. Phases are triggered by `len() == n` on vectors that the tasks
share. A task that meets a `None` or a failed verification ends by `unwrap()`;
its mutexes are released (tokio's are not poisoned), what it has pushed stays
pushed, and the process goes on. Files outlive runs: the repository even ships
the key files of an earlier one.

What makes the components correct:

- registration: numbers are a bijection on which everybody agrees;
- key generation: the key files, when written, are sums over all dealers; they
  are written once, for every node, and nobody deals early;
- decryption: nobody gives out a share of anything but the sum of everybody's
  amounts under one key; who decrypts does it with everybody's shares;
- Merkle tree, checkpoints, off-chain shares: what is committed verifies, what
  was not committed does not; no record is lost, repeated or reordered;
- transactions: the node reads, checks the hash of and executes what the client
  meant, and the client reads what was recorded or reports an error;
- benchmarks: what is reported as throughput has been recorded, nothing is
  submitted with a limit, a gas object or an account of an earlier time, and the
  run ends whatever the other side does;
- comparison scheme: the regulator's reconstruction is right whenever it comes
  about, and it comes about but for known accidents;
- range proofs: complete for every secret in range, and all verifiers decide
  alike.

The list of hazards with their lines is in `PROJECT.json`.

## The modules

| module | models | remarks |
|---|---|---|
| `Setup` | registration | extended by the two runs, which add their own variables and handlers |
| `Dkg` | the key generation run | extends `Setup` |
| `KeyGenPromise` | abstract: what key generation promises | refined by `Dkg` |
| `Decrypt` | the decryption run | extends `Setup`; starts from what `Dkg` can leave on disk |
| `Lockstep` | abstract: rounds with a barrier | refined by `Decrypt` |
| `Merkle` | the tree, as operators | the loops of `build`, `proof` and `verify` are recursive functions |
| `Checkpoint` | buffer and batches | over `Merkle` |
| `CheckpointLog` | abstract: a log with a committed prefix | refined by `Checkpoint` |
| `OffChain` | `assemble_aggregated_tx` | over `Merkle` |
| `Records` | `Checkpoint` and `OffChain` side by side | nothing in the code calls both yet |
| `Bytes` | integers as bytes | |
| `Tars`, `Abi`, `Tx` | `transaction.rs`, `abi.rs` of the FISCO-BCOS client, `tx.rs` | byte strings are sequences of bytes |
| `Wire` | the way of a payload through client, node and contract and back | extends these three |
| `Bench` | the loop of `run_benchmark`, over calls that may outlive their caller | the two benchmarks differ in their ledger only |
| `FiscoBench`, `SuiBench` | the two `tps_bench.rs` over their clients; the Move contract | extend `Bench` |
| `Comparison` | key generation of the comparison scheme | extends `Setup` |
| `Field` | scalars and points | |
| `InnerProduct`, `WeightedInnerProduct` | the two arguments, provers and verifiers | over `Field` |
| `RangeProof`, `RangeProofWIP` | the two range proofs over them | |
| `RangeProofs` | a prover, somebody who may change one part, the verifiers | extends both |
| `Elgamal` | `elgamal.rs`: ciphertexts, the proofs and their verifiers, Lagrange coefficients | over `Field` |
| `Amounts` | what the phases of a decryption compute, from the keys on disk to the opened sum | extends `Elgamal`; knows keys by the names that `Decrypt` gives them |
| `MC*` | symmetry sets, initial disks and inputs for TLC; `MCRecords`, `MCLedgers` and `MCCryptography` put several models in one run, of which each behaviour uses one | |
| `SetupProofs`, `DkgProofs`, `DecryptProofs`, `ComparisonProofs` | lemmas and theorems about the runs | the first is extended by the others |
| `LedgerProofs` | lemmas about the common loop; theorems about the two benchmarks | extends `FiscoBench` and `SuiBench`, which share the loop's variables |
| `RecordsProofs` | lemmas and theorems about `Merkle`, `Checkpoint` and `OffChain` | extends `Records` |
| `WireProofs` | lemmas and theorems about `Tars`, `Abi`, `Tx` and `Wire` | extends `Wire`, and `RecordsProofs` for its induction over numbers |
| `AmountsProofs` | lemmas about `Field` and `Elgamal`, theorems about `Amounts` | extends `Amounts` |

**Messages.** `msgs` is the set of messages in flight, delivered in any order.
A message is its type and its ends: its payload is a piece of the sender's
state that is assigned once, before the send, and is read there. The vectors
of received messages are sets of senders. Both need that no process sends a
message of one type twice to another; `SentOnce` checks it, and is proved for
both runs. Loss is possible in one place only: a node that registers
before the regulator listens logs the error and does not retry (`NodeStart`).
Every node in the regulator's list has bound its listener (it binds first and
registers then), and processes do not stop in the modelled runs, so the other
sends succeed.

**Atomicity.** A handler locks its process's mutex before it touches the state
and keeps it until it returns, sends included; the message was read before
(`get_message`, node1.rs:260). So an action is a whole handler. What a handler
sends is in flight from then on: its receivers handle it concurrently with the
sender's next steps, and cannot be told apart from receivers that see the
sends one by one, since a receiver only reads its own state.

**Keys.** In `Dkg` a key is the function that counts how often each dealer's
summand is in it: shares, public keys and public key shares are sums over
dealers, and a sum is right when every count is 1. `Zero` stands for the zero
of `Node::init`, and in the files for "not written by this run". In `Decrypt`
a key is the run of key generation it is of (`this`, `earlier`) or `partial`,
the incomplete key described below; the two batch verifications compare keys,
which is what they amount to for ciphertexts and shares made by this code.
Soundness of the proofs against anything else is not modelled, and the range
proof that the run calls is a stub that always succeeds
(`C/message/src/node/dec_msg.rs:10-33`).

**Hashes** of the Merkle tree are free terms, so that equality of hashes is
equality of what was hashed: no collisions, and leaves differ from inner nodes
by their prefix byte. In `Wire` the hash function, the signature and the
selectors are constants, given a concrete value in `MCRecords`; the properties
ask only that both ends apply them to the same bytes.

**Ledgers.** The nodes, the chain, the Solidity contracts, the validators and
the faucet are not in the repository. Their actions (`Execute`, `Refuse`,
`OtherBlock`, `ExecuteCall`, `Reject`, `LocalExecution`, and the status that
`RequestFaucet` receives) do whatever the client's code has to reckon with. That
includes answers without a readable value, which the FISCO-BCOS client takes
for 0: a receipt without a status counts as a success
(`C/fisco_ledger/src/client.rs:155-163` and `181-183`), and a block number that
cannot be read makes a block limit of 600 (`client.rs:126-137`). A
submission is an element of `pool` from the call to the answer; when the
client gives up on it (`GiveUp`: an HTTP timeout of 30 or 60 s, or an error of
the connection) it may stay there and be executed later, in the same window or
another. Contract totals count calls while the tables count loans, and loan
ids repeat from row to row, as in the code. `untold`, a variable that only the
properties read, has the loans of the window's receipts without a status.

**Comparison scheme.** As in `Dkg` a sum is the function that counts each
dealer's summand, and `Zero` stands for the `None` of a node that has not dealt.
The regulator's `sleep` before its broadcast is a blocking
`std::thread::sleep`; it delays a message and is left to the delay that every
message may have. `keygen_phase_five` sends whatever `share` holds; the model
sends only after the `unwrap` of phase four has succeeded, since otherwise the
task has ended.

**Points** of the range proofs are their discrete logarithms in a group of
prime order `q`: what the verifiers compare is then an equation between
scalars, the same one as in the code. Challenges come from a hash function that
is chosen at the start and never gives 0 (the code would panic on inverting it;
on secp256k1 the chance is negligible). The argument `P` that both `prove`
functions of the inner product arguments take is never read and is left out.
The labels from which `generate_bases` derives `h_vec` begin at the number of
bits, so that they overlap with those of `g_vec` when there is more than one
secret; the model keeps this. That no generator is a known combination of
others is a cryptographic assumption and not modelled.

## The runs

| run | question | instance | result |
|---|---|---|---|
| `dkg` | safety of key generation, and refinement of `KeyGenPromise` | 4 nodes, symmetry | 68,677 states, holds |
| `dkg_live` | does it finish, but for the named accidents? | 3 nodes, fairness | 3,674 states, holds |
| `dkg_stall` | does it finish? | 3 nodes, fairness | violated, finding 1 |
| `dkg_partial_key` | is every key written complete? | 3 nodes | violated, finding 2 |
| `decrypt` | safety of decryption on any disk, and refinement of `Lockstep` | 3 nodes, symmetry | 15,822 states, holds |
| `decrypt_live` | does it finish, but for the named accidents? | 3 nodes, fairness | 3,830 states, holds |
| `decrypt_stall` | does it finish? | 3 nodes, fairness | violated, finding 3 |
| `records` | batches, checkpoints and the log; proofs of shares in any order; transactions, answers and payloads byte by byte | 2 records, 7 pushes; 5 nodes; requests that differ in one field, answers cut short | 24,737 states, holds |
| `offchain_order` | is the leaf of node i at i - 1? | 5 nodes | violated, finding 4 |
| `cryptography` | are proofs accepted exactly when they should, by every verifier alike, and does every quorum of shares open the sum? | group of 101, up to 4 bits; 4 nodes, threshold 2 | 12,434 states, holds |
| `ledgers` | is what the benchmarks report real, and do they end? | 2 tasks, or 2 rows, or 2 submissions; fairness | 543,767 states, holds |
| `comparison` | is the reconstructed key right, and what can prevent it? | 3 nodes, fairness | 4,358 states, holds |

**Bounds.** The repository's configuration has 4 nodes (`share_counts` 4), the
instance of `dkg`. Three nodes are the least with which a node waits for two
others, so that "the last message" and "a message" differ; everything the
handlers do depends on lengths compared with `share_counts` or
`share_counts - 1` only. The same decryption run with 4 nodes and a clean disk
passes too (68,757 states), but not in the time that is convenient for the set
of all disks. Nothing else is unbounded in the two runs: every process does a
fixed number of steps. In `Checkpoint`, `MaxRecords` bounds the pushes. Seven
records give batches of every size from 1 to 7: 3 and 7 are odd at the leaves,
6 is odd one level up, 5 at two levels. Two record values make equal and
different neighbours. `IdRange` (10,000,000 in the code), `max_seq`, `MaxLate`,
`BlockLimit` (600) and `MaxBlock` bound `Bench` and `FiscoBench`: two tasks make
ids that could collide and calls that could be mistaken for another task's;
two rows make calls that outlive their row, and loans recorded twice; two
submissions of a task make a second gas version; a limit of 2 over a chain of 4
blocks, of which others make some, is reached within a window and between
two. The theorems below are free of these bounds. In `Wire` the requests vary
one field at a time: every length at a border of a width (0, 1, 31 to 33, 64, 255, 256)
and every integer next to a power of two at which TARS changes its width. In the
range proofs one, two and four bits make zero, one and two rounds of halving, in
every split into secrets; secrets are the ends of the range, the first value
beyond it and the largest scalar; two oracles give different challenges. With
101 elements a false equation may hold by chance, so `OutOfRangeRejected` says
exactly which challenges are such roots rather than that there are none, and
`WrongKeysShow` likewise. `Amounts` has the 4 nodes and the threshold 2 of the
repository's configuration, all 24 orders of arrival, two receivers (one whose
`pk_share.txt` can be the stale one), one amount per node as in the code and
two, since the proofs are written for vectors.
`Comparison` has 3 nodes for the reason given above; with 4 the run does not
end within minutes, and its safety properties are proved for any number.
In `OffChain` 5 nodes give the tree that is odd at two
levels, with all 120 orders of arrival, and fewer shares any smaller tree.

**Fairness.** Weak fairness of each handler and of the start of each process:
somebody starts the processes the readme tells to start, a connection that is
open is accepted by the loop and its task polled by tokio, and tokio's mutex is
granted in the order of requests. No order among different messages is
assumed, and none is guaranteed: the orders in the findings need no unfair
scheduler, only a delay of one connection. `Comparison` has the same fairness.
In `ledgers` the program's own steps are fair, those of the ledger are not: main
goes on (its durations are sleeps of the tokio runtime), and a task that waits
gets an answer or gives up, since the HTTP clients have timeouts
(`C/fisco_ledger/src/client.rs:80`, `C/sui_ledger/src/client.rs:106`). A run ends
even if no call is ever executed and the faucet never pays.

**Symmetry** is used with safety and step properties only, never with liveness.

**Stopping.** Processes wait for connections for ever and a model stops when all
messages are handled, so deadlock is not checked; that everything gets done is
the liveness properties' business.

### What the passing runs say

- `IdsAgree`: numbers and list agree, so key directories have one writer.
- `PublishedSharesComplete`, `WrongKeyLeavesTrace`, `AtMostOneWrongKey`: the
  possible damage to the key files is exactly one `keypair.txt` that lacks its
  owner's summand, with no `pk_share.txt` of this run beside it.
- `DealingBarrier`, `KeyFilesWrittenOnce`, `SentOnce`, `PromiseSpec`: the
  finish flags are a barrier, triggers fire at most once, and published tables
  are sums over everybody.
- `EventuallyWritten`, `EventuallyDecrypted`: the findings below and a
  registration before the regulator listens are the only ways to stall.
- `SharesUnderOneKey`, `DecryptsTheTotal`: whatever key files an interrupted or
  partial key generation left, nobody gives out a share under mixed keys and
  nobody decrypts a wrong sum; the run stops with failed verifications.
- `SentOnce`, `PhasesInStep`: one share per node; no share before everybody's
  ciphertext, no decryption before everybody's share.
- `NodeReadsTransaction`, `AnswersAreRecords`, `PayloadReadable`: whatever the
  widths and lengths, the node decodes the fields the client encoded and comes
  to the same hash; a client gets the payload that was recorded, or an error if
  the answer is cut short, except that an answer of no bytes is an empty
  payload; and every field of a payload is where its layout says.
  `abi.rs:54-55` says that a form without the offset word is handled as well; the
  code that follows has no such case.
- `InRangeAccepted`, `OutOfRangeRejected`, `VerifiersAgree`: completeness for
  every secret in range; a secret out of range is committed to as its lowest bits, with the rest added
  to its neighbour's, and accepted for the roots of one polynomial only; the
  fast, the plain and the aggregated verifiers agree, also on proofs of which
  one part was changed. `aggregated_verify` of `RangeProof` adds up the two
  equations of `verify`, so its verdict follows from theirs unless both fail.
- `QuorumOpensTotal`: with one key, any `threshold + 1` shares open the sum of
  the amounts, and `dec_phase_three` does so with the first ones, in every order
  of arrival. The second aggregate, of the ciphertexts for the regulator, is made
  with the regulator's key that each node has on disk, and every run of key
  generation has another one (`C/regulator/src/scheme/setup_phase.rs:38-39`,
  `dec_phase.rs:31`). If the nodes' files are of one run, the secret of that run
  would open the same sum; of mixed files the aggregate opens under no key. In the
  code nothing opens it: the secret is a local variable of the regulator's setup,
  and is dropped there. All this is
  so for ciphertexts that this code makes: `dec_phase_two` does not look at
  `equal_proof_vec`, whose proofs `BatchAgrees` shows to be acceptable.
- `WrongKeysShow`: why `Decrypt` may compare keys. The proofs do not name a key;
  a wrong one shows by the challenges, which the verifier computes with its own
  keys. What passes with wrong keys is a coincidence of hashes, and the property
  says which.
- `BatchAgrees`: the sums that a batch verifier compares fail if exactly one of
  the proofs fails, and hold if all of them do. Errors of several failing proofs
  may cancel out; the property says nothing of them.
- `CountedIsRecorded`: every commit that a benchmark counts is a record of a
  different loan, or its receipt had no status, whatever comes late or gets lost;
  the converse is false, a record may remain uncounted. The exception is the
  FISCO-BCOS client's only: an answer of Sui that does not say `success` is not
  counted.
- `RefusedAfterLimit`, `LocalBuildsFresh`, `SendersFunded`: nothing that was
  fetched earlier is stale when used: the block limit is the window's, the gas
  version that a local node builds with is the last one unless the client has
  given up on a call, and no window opens with an unfunded sender. A block limit
  from a failed or unreadable answer is excepted (`opened.fresh`): it may make
  every submission of the window fail.
- `TotalsTellRecords`: a total of the contract covers what was reported of its type
  and the loans in its table, and exceeds the table by the repetition of ids from
  row to row alone; within a window no loan is counted twice, by two tasks or by
  a call that is executed after its caller has given up on it.
- `RunEnds`: ten attempts, timeouts and the stop flag suffice.
- `KeyReconstructs`, `FinishAfterAllDealt`, `VerdictReached`: in the comparison
  scheme the regulator's `assert_eq` holds whenever it is reached. It is not
  reached when a node's own commitment is the last one it pushes (`node1.rs`
  lines 129 to 166 do not look at the length: the node never deals, and nobody
  finishes), when the last share reaches a node that has not dealt
  (`keygen_phase.rs:157` unwraps a `None`; the other nodes finish), or when a
  registration comes before the regulator listens; and in no other way. The
  readme (lines 244 to 246) refers to the procedure of the main scheme for it.
- `BatchesVerify`, `CheckpointFixesBatch`, `LogSpec`, `SharesProve`: see the
  comments in the modules. The root alone does not fix a batch, since an odd
  node is paired with itself: a, b, c and a, b, c, c have the same root.
  `CheckpointFixesBatch` therefore speaks of root and `batch_size` together;
  `OffChainCheckpointBatch::verify` compares the root only.

### Findings

1. **Flags overtake the list** (`dkg_stall`). The regulator's broadcast reaches
   the other nodes, they take their numbers and send their finish flags, and
   the last node gets all of these before the regulator's list. Its
   `keygen_phase_one` unwraps `node_info_vec`, a `None`
   (`C/node/src/scheme/keygen_phase.rs:22`). The flags stay pushed and no
   further one comes, so the trigger does not fire again and the node never
   deals. The others miss its share for ever and write no files; the node, once
   it has its number and the others have dealt, has all shares and writes the
   incomplete key of finding 2. The readme (line 61) says that the key pairs
   will be written. `EventuallyWritten` shows that this accident and the one of
   the unheard registration are the only ones that stop the run.
2. **Shares overtake flags** (`dkg_partial_key`). All other nodes deal to a
   node to which one of the flags is still under way. `keygen_phase_two` then sums
   onto the zero that `Node::init` left, writes `keypair.txt` without the
   node's own summand, and panics on `pk_share_vec` (keygen_phase.rs:93). When
   the last flag comes, the node deals and overwrites the sum in memory. The
   others have complete keys; this one has not, and every later decryption
   stops at its verifications.
3. **The own message is the last one** (`decrypt_stall`). The two places where
   a node pushes its own ciphertext (node1.rs:121) and its own share
   (node1.rs:170) do not look at the length. When all peers' messages came
   first, the phase they should trigger does not start. A missed `dec_phase_two`
   stops everybody, a missed `dec_phase_three` only the node itself. The readme
   (line 76) says that results are written to each node's log.
4. **Leaves are in arrival order** (`offchain_order`). Even with a share of every
   node, `assemble_aggregated_tx`
   enumerates `phase_two_msgs` as they came (dec_phase.rs:263); tx.rs:140 and
   tx.rs:157 document the leaf at `node_id - 1` and entries ordered by
   `node_id`. `SharesProve` shows that the proofs are right all the same; only
   who finds a share by its index goes wrong.

## The proofs

For every finite set of at least two nodes and any regulator outside it
(`NodeAssumption`, the only assumption), `DkgProofs` proves of
`Dkg!Spec` all safety properties of the run `dkg`: `Types`, `Numbering`,
`SharesComplete`, `WrongKeyTraced`, `OneWrongKey`, `NothingTwice`, `Barrier`,
`WrittenOnce`, and `Implements`, the refinement of `KeyGenPromise`.

All follow from one inductive invariant, `DkgInv` (`DkgInvariance`). The listed
properties are not inductive: they say what the files hold, and a file's
content is the content of a vector at the time of an earlier step. `DkgInv`
closes the gap with

- `SetupInv` (of `SetupProofs`): each node is in at most one place of the way
  from its start to its number (registration in flight, counted, list in
  flight, list taken), so arrival order is a permutation of the nodes;
- `FlagsInv`, `SharesInv`: what is in flight is not yet pushed, and what is in
  flight or pushed was sent by a node that had its number, or had dealt;
- `DealInv`: who dealt had all flags, hence everybody has a number;
- `KeyInv`: by what a node has pushed, its key and files are one of: nothing
  yet, everything, or the failure of finding 2;
- `OneFailedInv`: a node that failed had the shares of all others before it
  dealt, so of two such nodes each would have been first;
- `UnownedInv`: nothing is written under a number nobody has taken.

The proof that steps keep it has one lemma per action, with a step for each
part the action can disturb. Finite-set cardinalities enter in a few lemmas
only (a set of `share_counts - 1` others is all others; a list of
`share_counts` different nodes has them all). The invariant was model-checked
on three nodes before it was proved.

**Decryption.** Under the same assumption `DecryptProofs` proves of
`Decrypt!Spec` all safety properties of the run `decrypt`, for every disk that
key generation can leave: `Types`, `OneKey`, `TheTotal`, `NothingTwice`, and
`Implements`, the refinement of `Lockstep`. `DecryptInv` has, besides `SetupInv`:

- `StartInv`: who has broadcast its ciphertext has seen every finish flag come in
  at the regulator, so everybody has a number, hence a key on its disk that is
  told by that number;
- `CipherInv`, `ShareInv`: what is in flight or pushed was sent by a node that has
  done so itself, and nothing in flight is pushed already. They turn a length
  that is compared with `share_counts` into "from everybody";
- `SumInv`: a sum is there exactly when it was shared, is of everybody, and was
  made after all ciphertexts had verified under the node's own key; a panic in
  phase two leaves no sum;
- `EndInv`: the same of phase three.

That the keys agree (`OneKey`) is then a matter of `SumInv` at one node: it found
the ciphertexts of all others under its own key. That this key is complete
needs two nodes, for at most one of the keys on the disks is partial.
`Implements` maps a node to round 0, 1, 2 or 3 by what it has broadcast and
decrypted, and rests on the same parts.

**Records.** `RecordsProofs` proves of `Checkpoint!Spec`, for any set of records
and batches of any length, `Types`, `BatchesAlwaysVerify`,
`CheckpointsFixBatches` and `ImplementsLog`, and of `OffChain!Spec`, for any number
of nodes, whichever shares have come and in any order, `SharesAlwaysProve`. There is no assumption on
the constants. The state machines are simple (`CheckInv`: every checkpoint is
that of the batch flushed with it; `OffInv`: the entries are those of the first
`Len(entries)` messages, as many as had come), and the argument is about the tree:

- `LevelsShape`, `BuildShape`: the lengths of the levels depend on the number of
  leaves only, each is half of the one below rounded up, and the first of
  length 1 exists;
- `ParentOf`: the parent at `idx \div 2` hashes the node at `idx` and its
  `Sibling` in the order that `is_left` tells, also where the odd node is its own
  sibling. So the walk of `verify` follows the nodes above the leaf if it starts
  with the leaf's hash and, since hashes are free, leaves them for good if it
  does not (`ProofProvesLeaf`);
- `ParentsInjective`, `RootFixesLeaves`: two trees over equally many leaves with
  the same root agree level by level, from the root down. Equally many is
  needed, see `CheckpointFixesBatch` above;
- `FlattenAppend`: a flush appends the buffer to the concatenated batches, so the
  log does not change and its committed prefix becomes all of it.

**Transactions.** `WireProofs` proves of `Wire!WireSpec` the three properties
`NodesReadTransactions`, `AnswersAlwaysRecords` and `PayloadsReadable`, for requests
with texts and payloads of any length and integers of any value. The
assumptions (`RequestsAssumption`, `ClientAssumption`, `HashAssumption`,
`SelectorAssumption`) are the types in the code: bytes, arrays of fixed lengths, a
`u32` batch size; a hash has 32 bytes and a signature 65; the selectors of the
two contracts differ. The one bound, `MaxLength`, is the largest length that
TARS can write (an `i32`; the code casts to it). TLC evaluates the assumptions on the
instance of `records`.

The state machine is simple: `WireInv` says of each variable that has been
assigned which function of the request it is (`RecordOf`, `Signed`); of an answer it says only
that it is a front part. It was model-checked on the instance of `records` before it was
proved. The argument is about the codecs, and has three parts.

- TARS. `Stands(w, p, s)`: the bytes `s` are at place `p` of the string `w`.
  What is written for a field stands in the joined string (`Inside`, `Behind`), and
  where it stands the node reads tag and value and goes on after it (`Reads`;
  a lemma per form in which a number or a length is written, so the widths at which
  `Tars` changes form are cases of the proof). A list of fields that follow each
  other is a path through the string, and `Fields`, a recursive function over
  positions, yields exactly the fields on it (`FieldsOnPath`, `TransactionRead`). An
  empty `to` or `input` is not written at all, and the default of `Decoded` is what makes
  that right; the end of the struct is told from the values since only
  heads, never a byte of a value, are on the path (`EndFound`).
- ABI. `Shape(s, n)` and `Holds(s, from, part)`, 0-based as offsets are, of the call
  and of the returned value; `CutHolds` and `AnswerDecoded` follow
  `decode_bytes_return` over every length that a cut can leave.
- Layouts. `OurMpcHolds`, `RepaymentHolds`, `AggregatedHolds` and `CheckpointHolds`
  join fields of fixed sizes; the blocks of the lenders, of which there are any
  number, need induction over the number of them (`FlatBlocks`).

**Recursive functions.** The library's induction theorems cannot be used (they take
an operator as a parameter), but induction over a *set* of numbers can be had
from `NatLessThanWellFounded`: a nonempty set has a least element (`LeastOf`), so a
set that has 0 and with each number the next has them all (`FromZero`). With it
a recursive function is shown to satisfy its equation (`LevelsEquation`,
`IndicesEquation`, `WalkEquation`, `FlattenEquation`, `TotalEquation`), and what it
computes follows by the same induction. The two lemmas stand in
`LedgerProofs`, in `AmountsProofs` and in `RecordsProofs`, which share no other
fact; `WireProofs` uses those of the latter.

**Comparison scheme.** `ComparisonProofs` proves `Reconstruction` and
`DealingBarrier` under the same assumption. What has to be known of a state is
what a length stands for: `KeygenInv` says that who has dealt had everybody's
commitments, its own among them; that shares in flight or pushed come from
nodes that have dealt; that the sum of a node is nothing, its own share or
everybody's, according to how many shares it has pushed and whether its task
panicked; and that the regulator's sums are complete. Since `share_counts - 1`
others are all others, a complete sum needs that everybody has dealt.

**Benchmarks.** `LedgerProofs` proves of the common loop, for any arguments
(`BenchAssumption`: at least one task and row) and any number of late calls, an
invariant `BenchInv` and its preservation by each action: a waiting task has
the call it waits for among those under way, has counted less than it has
submitted, and all tasks have ended between windows.

- For FISCO-BCOS, there is also `LimitInv`: calls of the open window carry its limit, calls
  of earlier windows are told by their number, a refused call's limit was
  reached, and statuses are those that `Execute` and `Refuse` give
  (`FiscoStatuses`). `TypeCorrectness` and `RefusedOnlyAfterLimit` follow for any limit
  (`LimitAssumption`) and any growth of the chain.
- For Sui, there are `FundedInv` (senders are funded in order, and only a complete
  setup opens a window) and `FreshInv`: with a local node, a task that has lost
  no answer has either no call and a node that knows its last version, or
  exactly the one call it awaits, which names the last version until it is
  executed and the one before afterwards. That there is just one such call is
  what a task's sequential loop ensures, and the reason why a call given up on
  excludes the task. `Funded` and `LocalNeverStale` follow.
- `CountInv` relates the counters of the tasks to the ledger: there
  is a set of loans that are recorded or of a receipt without a status (`Backed`),
  as many as the tasks have counted together, of
  which none is waited for or will be submitted again; and a success that is
  under way to its caller is recorded. So an answer counts a loan that was not
  counted before (loans of different tasks differ, `TasksApart`, from
  `max_seq < IdRange`), and the sum of the counts is at most the cardinality of
  `Backed`. A late call of an earlier window adds nothing to this window's
  records. `CountedAreRecorded` follows, and `SuiCountedAreRecorded`, where
  `untold` stays empty, so that the bound is the records alone.
- `CoverInv`: each total of the contract is at least what is reported
  of its type and, while a window of that type is not reported, the records of the
  window in addition. The part that is reported is the lower bound of
  `TotalsTellRecords`.
- `TellInv`: of either type there is a set of pairs of a window and a loan
  (`Executions`), as many as the contract has counted, of loans in its table, and
  with none that a pending call has or a task may still submit. No two calls
  under way have the same window and loan (`LoansApart`), so each record adds a
  new pair, and there are no more pairs than windows times loans. This is the
  upper bound; `TotalsAlwaysTell` has both. `TellInv` was model-checked on the
  instance of `ledgers` before it was proved.

**Amounts.** `AmountsProofs` proves of `Amounts!AmountSpec` all its properties,
`BatchAgrees`, `QuorumOpensTotal` and `WrongKeysShow`, for a group of any prime order
but 2, any number of nodes less than the order, any threshold, polynomials, randomness and
hash function, vectors of amounts of any length, and any keys on the disks.
Its assumptions are `FieldAssumption` (the order is prime),
`BasePointAssumption` (the second base point is not zero) and
`AmountsAssumption`: the types of the inputs, node numbers that are different
scalars but zero, at most one partial key on the disks, nonzero randomness of
ciphertexts (`ECScalar::new_random` yields no zero), and that every node encrypts
as many amounts, at least one, as the code's `batch_size` has it. TLC evaluates them
on the instance of `cryptography`.

`AmountsInv` has four parts: what a run begins with does not change (`Given`);
messages are vectors of points and scalars as long as the amounts, also after a
part of one was changed (`Typed`); shares are of different nodes (`OneShareEach`);
and, unless something was changed, every message is what the phase computes
from the keys on disk, a node went on or gave up by the verdict that still stands,
and the result is what the first shares open (`Computed`). It is the second part that
lets `BatchAgrees` hold of changed messages, and the fourth that the two other
properties need: they say what comes out at the end of data that several steps
made. The argument is the arithmetic:

- Congruence. `Cong(a, b)` of integers is kept by sums and products (`CongAdd`,
  `CongTimes`), two congruent scalars are equal, and every operator of `Field` is
  congruent to that of the integers (`OpInt`, `TimesInt`). `Sum`, `Product` and `pow` are
  shown to satisfy their recursions, and a sum is linear (`SumLinear`, `SumScaled`)
  and the sum of a matrix is that of its rows or its columns (`SumSwap`).
- Inverses. That a prime order gives every scalar but zero an inverse is proved,
  not assumed: of the multiples of a scalar the least positive one divides the order
  (by division with remainder), so it is 1.
- Interpolation. The Lagrange coefficients of different numbers add up to 1, and
  their moments up to the degree vanish (`Moments`, by induction on how many
  numbers there are, over sets of positions, since removing a number from a quorum
  leaves no prefix of it). So they take any polynomial of the degree to its value at
  zero (`Interpolation`), in whatever order `s` lists the nodes; `map_share_to_new_params`
  is that coefficient.
- Ciphertexts. The sum of ciphertexts encrypts the sum under the same key
  (`SumEncrypted`, `AggregateIs`), a share is the sum of the dealers' polynomials
  at the node's number (`WholeKey`), and `QuorumOpens` combines the three.
- Verdicts. Each verifier compares two sums, which differ by the sum of what
  its parts differ by; one part that differs makes a sum that is not zero
  (`EncBatch`, `DecBatch`). With another key the difference is the randomness times
  the difference of the challenges (`ChallengesDiffer`), which is where `WrongKeysShow`
  gets its equations from.

Only model-checked: liveness (the prover has no fairness or `ENABLED`
reasoning), and the properties of `RangeProofs`, whose arguments halve their
vectors recursively and transform the challenges in each round. The laws of sums in
`AmountsProofs` hold for them as well; what is missing is the induction over the
rounds, whose statement relates both provers' whole transcripts.

## Not modelled

Messages that change nothing (`RegSetupPhaseFinishFlag`, `RegDecPhaseStartFlag`
at a node) and handlers that no message reaches (the regulator's for finish
flags in `main()`: the nodes of that run send them to each other only). A
`keypair.txt` or `pk_share.txt` that does not exist at all: the repository
ships both for every node.

Registration: a node that is stopped and started again, which registers twice,
and a peer that cannot be reached, at which a broadcast stops. In the modelled
runs nobody stops. The mutex that a handler keeps while it connects to peers is
not a variable of the models: the peers' `get_message` reads before it locks, so
connecting needs no mutex of theirs (see Atomicity).

JSON of the main scheme's messages, logging and configuration files; the
arithmetic of the Pedersen sharing of the comparison scheme, beyond which
summands are in a sum; `eckeypair.rs` beyond the key pair that the regulator's setup
makes with it (`reg_sk` of `Amounts`), which nodes only store and encrypt to; `deploy_contract` and the
block number that `send_and_wait` fetches for itself (the benchmark passes its own);
keys, addresses and signatures of Sui; the printed tables; the types of
`lending.rs` and `params.rs`, which nothing constructs; the Sui framework build, the
demos and the scripts.

## Plan

Done, in this order: `Setup` and `Dkg` with their proofs, `Decrypt`, `Merkle`,
`Checkpoint`, `OffChain`, the range proofs, `Wire`, the ledgers and
`Comparison`, the last two with proofs, `Elgamal` with `Amounts`, and the proofs
about `Decrypt`, the records, the counts and totals of the benchmarks, the
codecs of `Wire`, and the arithmetic of `Amounts`. Next:

1. `InRangeAccepted` for any number of bits, from the laws of sums of
   `AmountsProofs` and an induction over the rounds of the inner product.
2. Restarts: a second registration of one address and a broadcast that stops
   at an unreachable peer, as a module over `Setup`; what is left of `IdsAgree`.
3. `OffChain` composed with `Decrypt`, for the coordinator that takes a node's
   vector of shares as it is.
