-------------------------------- MODULE Wire --------------------------------
(***************************************************************************)
(* The way of one payload through fisco_ledger: submit_type_a or _b of     *)
(* lib.rs encodes the call of a record contract, sign_tx the transaction;  *)
(* a node decodes both and executes the call; query_type_a or _b asks for  *)
(* the payload and decodes the answer, of which a part may be missing.     *)
(*                                                                         *)
(* The node and its contracts are not part of the repository: they read    *)
(* TARS and ABI encodings as their definitions say.                        *)
(***************************************************************************)
EXTENDS Tars, Abi, Tx

CONSTANTS
  Requests,   \* [kind, loan_id, payload, chain_id, group_id, block_limit, to]
  nonce, import_time, pub_bytes,
  Cuts        \* the numbers of bytes an answer may be short of

VARIABLES
  request,  \* what is submitted
  tx,       \* its TransactionData, << >> before
  wire,     \* the signed transaction, << >> before
  fields,   \* what the node reads of it, << >> before
  record,   \* what the contract keeps, << >> before
  raw,      \* the answers to the query, each as short as it arrived
  result    \* what the client makes of it

wireVars == <<request, tx, wire, fields, record, raw, result>>

payload_bytes(p) ==
  CASE p.type = "our_mpc"    -> our_mpc_bytes(p.tx)
    [] p.type = "repayment"  -> repayment_bytes(p.tx)
    [] p.type = "aggregated" -> aggregated_bytes(p.tx)
    [] p.type = "checkpoint" -> checkpoint_bytes(p.tx)
    [] p.type = "plain"      -> p.tx.data

WireInit ==
  /\ request \in Requests
  /\ tx = << >> /\ wire = << >> /\ fields = << >> /\ record = << >> /\ raw = << >> /\ result = << >>

\* The call of the contract is encoded; a deployment has no address.
TransactionData(r) ==
  LET data == payload_bytes(r.payload)
  IN  [chain_id |-> r.chain_id, group_id |-> r.group_id, block_limit |-> r.block_limit,
       nonce |-> nonce, to |-> r.to,
       input |-> IF r.to = << >> THEN data ELSE encode_record(r.kind, r.loan_id, data)]

Encode ==
  /\ tx = << >>
  /\ tx' = TransactionData(request)
  /\ UNCHANGED <<request, wire, fields, record, raw, result>>

Send ==
  /\ tx # << >> /\ wire = << >>
  /\ wire' = sign_tx(tx, pub_bytes, import_time)
  /\ UNCHANGED <<request, tx, fields, record, raw, result>>

----------------------------------------------------------------------------
\* Reading TARS: the fields of a string of bytes, flat.
At(w, p)      == IF p <= Len(w) THEN w[p] ELSE 0
Cut(w, p, to) == SubSeq(w, p, IF to <= Len(w) THEN to ELSE Len(w))

Integer(w, p, t) ==
  LET b == Cut(w, p, p + 2 ^ t - 1)
  IN  IF t > 3 \/ Len(b) < 2 ^ t THEN Zeros(8)
      ELSE [i \in 1 .. 8 |-> IF i > 8 - 2 ^ t THEN b[i - 8 + 2 ^ t]
                             ELSE IF b[1] >= 128 THEN 255 ELSE 0]

Natural(v) == IF (\E i \in 1 .. 4 : v[i] # 0) \/ v[5] >= 128 THEN 0 ELSE from_be_bytes(v)

FieldAt(w, p) ==
  LET ty  == At(w, p) % 16
      tag == IF At(w, p) >= 240 THEN At(w, p + 1) ELSE At(w, p) \div 16
      q   == IF At(w, p) >= 240 THEN p + 2 ELSE p + 1
      Field(val, next) == [tag |-> tag, ty |-> ty, val |-> val, next |-> next]
      Sized(from, n)   == Field(Cut(w, from, from + n - 1), from + n)
  IN  CASE ty \in 0 .. 3 -> Field(Integer(w, q, ty), q + 2 ^ ty)
        [] ty = 12       -> Field(Zeros(8), q)
        [] ty = 6        -> Sized(q + 1, At(w, q))
        [] ty = 7        -> Sized(q + 4, Natural([i \in 1 .. 8 |-> IF i <= 4 THEN 0 ELSE At(w, q + i - 5)]))
        [] ty = 13       -> LET t == At(w, q + 1) % 16
                            IN  Sized(IF t = 12 THEN q + 2 ELSE q + 2 + 2 ^ t,
                                      Natural(Integer(w, q + 2, t)))
        [] OTHER         -> Field(<< >>, q)

Fields(w) ==
  LET f[p \in 1 .. Len(w)] ==
        LET x == FieldAt(w, p)
        IN  IF x.next > Len(w) THEN <<x>> ELSE <<x>> \o f[x.next]
  IN  f[1]

Receive ==
  /\ wire # << >> /\ fields = << >>
  /\ fields' = Fields(wire)
  /\ UNCHANGED <<request, tx, wire, record, raw, result>>

\* The transaction that the fields make: those between the ends of the struct,
\* and those after it.
end == SelectInSeq(fields, LAMBDA x : x.ty = 11)
Value(from, to, tag, default) ==
  IF \E i \in from .. to : fields[i].tag = tag
  THEN fields[CHOOSE i \in from .. to : fields[i].tag = tag].val ELSE default
Inner(tag, default) == Value(2, end - 1, tag, default)
Outer(tag, default) == Value(end + 1, Len(fields), tag, default)

Decoded ==
  [tx |-> [chain_id |-> Inner(2, << >>), group_id |-> Inner(3, << >>),
           block_limit |-> Inner(4, Zeros(8)), nonce |-> Inner(5, << >>),
           to |-> Inner(6, << >>), input |-> Inner(7, << >>)],
   data_hash |-> Outer(2, << >>), signature |-> Outer(3, << >>),
   import_time |-> Outer(4, Zeros(8)), sender |-> Outer(7, << >>)]

\* The node checks hash and signature, and the contract reads its arguments.
Execute ==
  /\ fields # << >> /\ record = << >> /\ request.to # << >>
  /\ \E d \in {Decoded} :
       /\ d.data_hash = Keccak256(Preimage(d.tx)) /\ d.signature = sign(d.data_hash)
       /\ \E in \in {d.tx.input} : \E arg \in {4 + from_be_bytes(Slice(in, 60, 8))}, kind \in {"A", "B"} :
            /\ SubSeq(in, 1, 4) = selector(<<"record", kind>>)
            /\ record' = [kind |-> kind, loan_id |-> Slice(in, 28, 8),
                          data |-> Slice(in, arg + 32, from_be_bytes(Slice(in, arg + 24, 8)))]
  /\ UNCHANGED <<request, tx, wire, fields, raw, result>>

\* The value of type bytes that a getter returns.
Returned(d) ==
  u64_to_u256_bytes(to_be_bytes(32, 8)) \o u64_to_u256_bytes(to_be_bytes(Len(d), 8)) \o d
    \o Zeros((32 - (Len(d) % 32)) % 32)

\* The client asks for the payload of its loan: the contract of that kind has
\* it, or has nothing for the loan.  The last bytes of the answer may be lost.
Query ==
  /\ record # << >> /\ raw = << >>
  /\ \E call \in {encode_get(request.kind, request.loan_id)} :
       LET kept == \E kind \in {"A", "B"} :
                     /\ SubSeq(call, 1, 4) = selector(<<"get", kind>>)
                     /\ record.kind = kind /\ record.loan_id = Slice(call, 28, 8)
       IN  \E full \in {Returned(IF kept THEN record.data ELSE << >>)} :
             \E c \in {k \in Cuts \cup {Len(full)} : k <= Len(full)} :
               raw' = <<SubSeq(full, 1, Len(full) - c)>>
  /\ UNCHANGED <<request, tx, wire, fields, record, result>>

Decode ==
  /\ raw # << >> /\ result = << >>
  /\ result' = decode_bytes_return(raw[1])
  /\ UNCHANGED <<request, tx, wire, fields, record, raw>>

WireNext == Encode \/ Send \/ Receive \/ Execute \/ Query \/ Decode

WireSpec == WireInit /\ [][WireNext]_wireVars

----------------------------------------------------------------------------
\* What the types of the code say of the constants.  Lengths are written as an
\* i32; texts that long do not occur.
Byte         == 0 .. 255
ByteArray(n) == [1 .. n -> Byte]
MaxLength    == 2147483647
IsU32(n)     == n \in Nat /\ n \div 16777216 < 256
IsText(s)    == s \in Seq(Byte) /\ Len(s) <= MaxLength

IsPayload(p) ==
  /\ p.type \in {"our_mpc", "repayment", "aggregated", "checkpoint", "plain"}
  /\ p.type = "our_mpc" =>
       /\ p.tx.meta \in ByteArray(32) /\ p.tx.sig \in ByteArray(64)
       /\ p.tx.lenders \in Seq([group_c1 : ByteArray(33), group_c2 : ByteArray(33),
                                regulator_c1 : ByteArray(33), regulator_c2 : ByteArray(33),
                                partial_dec_share : ByteArray(33)])
  /\ p.type = "repayment" =>
       p.tx.payload \in ByteArray(32) /\ p.tx.sig \in ByteArray(64)
  /\ p.type = "aggregated" =>
       /\ p.tx.meta \in ByteArray(32) /\ p.tx.sig \in ByteArray(64)
       /\ p.tx.c1_agg \in ByteArray(33) /\ p.tx.c2_agg \in ByteArray(33)
       /\ p.tx.reg_c1_agg \in ByteArray(33) /\ p.tx.reg_c2_agg \in ByteArray(33)
       /\ p.tx.shares_merkle_root \in ByteArray(32)
  /\ p.type = "checkpoint" =>
       /\ p.tx.meta \in ByteArray(32) /\ p.tx.sig \in ByteArray(64)
       /\ p.tx.records_merkle_root \in ByteArray(32)
       /\ IsU32(p.tx.batch_size)
  /\ p.type = "plain" => p.tx.data \in Seq(Byte)

ASSUME RequestsAssumption ==
  \A r \in Requests :
    /\ r.kind \in {"A", "B"} /\ r.loan_id \in ByteArray(8) /\ r.block_limit \in ByteArray(8)
    /\ IsText(r.chain_id) /\ IsText(r.group_id) /\ IsText(r.to)
    /\ IsPayload(r.payload)
    /\ Len(payload_bytes(r.payload)) <= MaxLength /\ Len(TransactionData(r).input) <= MaxLength

ASSUME ClientAssumption ==
  IsText(nonce) /\ import_time \in ByteArray(8) /\ Cuts \subseteq Nat

\* The sizes of hashes and signatures; the contracts have selectors of their own.
ASSUME HashAssumption ==
  /\ Keccak256(pub_bytes) \in ByteArray(32)
  /\ \A r \in Requests :
       LET h == Keccak256(Preimage(TransactionData(r)))
       IN  h \in ByteArray(32) /\ sign(h) \in ByteArray(65)

ASSUME SelectorAssumption ==
  \A f \in {"record", "get"} :
    /\ selector(<<f, "A">>) \in ByteArray(4) /\ selector(<<f, "B">>) \in ByteArray(4)
    /\ selector(<<f, "A">>) # selector(<<f, "B">>)

----------------------------------------------------------------------------
\* A node reads the transaction that was signed, whatever the lengths of the
\* fields and the width of the block limit, and finds the hash, the signature
\* and the sender that go with it.
NodeReadsTransaction ==
  fields # << >> =>
    \A d \in {Decoded} :
      /\ d.tx = tx
      /\ d.data_hash = Keccak256(Preimage(d.tx))
      /\ d.signature = sign(d.data_hash)
      /\ d.import_time = import_time
      /\ d.sender = address_from_signing_key(pub_bytes)

\* verify_roundtrip: the payload that a client queries is the one it has
\* submitted.  An answer that is cut within the payload is an error and never
\* data; only an answer without any byte is taken for empty data.
AnswersAreRecords ==
  result # << >> =>
    \A data \in {payload_bytes(request.payload)} :
      result = IF Len(raw[1]) >= 64 + Len(data) THEN Ok(data)
               ELSE IF raw[1] = << >> THEN Ok(<< >>)
               ELSE Err

\* The layouts: where the fields of the record t are in the bytes d.
OurMpcAt(d, t) ==
  /\ Len(d) = our_mpc_size(t)
  /\ Slice(d, 0, 32) = t.meta /\ Slice(d, 32, 64) = t.sig
  /\ \A i \in DOMAIN t.lenders :
       LET from == 96 + 165 * (i - 1)
       IN  /\ Slice(d, from, 33)       = t.lenders[i].group_c1
           /\ Slice(d, from + 33, 33)  = t.lenders[i].group_c2
           /\ Slice(d, from + 66, 33)  = t.lenders[i].regulator_c1
           /\ Slice(d, from + 99, 33)  = t.lenders[i].regulator_c2
           /\ Slice(d, from + 132, 33) = t.lenders[i].partial_dec_share

RepaymentAt(d, t) ==
  /\ Len(d) = repayment_size
  /\ Slice(d, 0, 32) = t.payload /\ Slice(d, 32, 64) = t.sig

AggregatedAt(d, t) ==
  /\ Len(d) = aggregated_size
  /\ Slice(d, 0, 32) = t.meta /\ Slice(d, 32, 64) = t.sig
  /\ Slice(d, 96, 33) = t.c1_agg /\ Slice(d, 129, 33) = t.c2_agg
  /\ Slice(d, 162, 33) = t.reg_c1_agg /\ Slice(d, 195, 33) = t.reg_c2_agg
  /\ Slice(d, 228, 32) = t.shares_merkle_root

CheckpointAt(d, t) ==
  /\ Len(d) = checkpoint_size
  /\ Slice(d, 0, 32) = t.meta /\ Slice(d, 32, 64) = t.sig
  /\ Slice(d, 96, 32) = t.records_merkle_root
  /\ from_be_bytes(Reversed(Slice(d, 128, 4))) = t.batch_size

\* Whoever reads a recorded payload finds each field where its layout says.
PayloadReadable ==
  record # << >> =>
    \A d \in {record.data}, p \in {request.payload}, t \in {request.payload.tx} :
      /\ p.type = "our_mpc"    => OurMpcAt(d, t)
      /\ p.type = "repayment"  => RepaymentAt(d, t)
      /\ p.type = "aggregated" => AggregatedAt(d, t)
      /\ p.type = "checkpoint" => CheckpointAt(d, t)
=============================================================================
