-------------------------------- MODULE Tars --------------------------------
(***************************************************************************)
(* fisco_ledger/src/transaction.rs: a transaction for FISCO-BCOS, hashed,  *)
(* signed and encoded with TARS.                                           *)
(***************************************************************************)
EXTENDS Bytes

CONSTANTS
  Keccak256(_),  \* 32 bytes
  sign(_)        \* the 65 bytes of a recoverable signature of a hash

\* The header of a field: its tag and the type of its value.
head(tag, ty) == IF tag < 15 THEN <<16 * tag + ty>> ELSE <<16 * 15 + ty, tag>>

\* Wrong variant of Fits, which the properties must detect: a value that needs
\* the sign bit is taken to fit.
FitsUnsigned(v, w) == \A i \in 1 .. 8 - w : v[i] = 0

\* A 64-bit integer lies in the range of w bytes: the bytes above repeat the
\* sign.
Fits(v, w) == \A i \in 1 .. 8 - w : v[i] = IF v[9 - w] >= 128 THEN 255 ELSE 0

\* The smallest type, whose code is the number of doublings of its width.
int64(tag, v) ==
  IF v = Zeros(8) THEN head(tag, 12)
  ELSE LET t == CHOOSE t \in 0 .. 3 : Fits(v, 2 ^ t) /\ \A u \in 0 .. t - 1 : ~Fits(v, 2 ^ u)
       IN  head(tag, t) \o SubSeq(v, 9 - 2 ^ t, 8)

int32(tag, n) == int64(tag, to_be_bytes(n, 8))

string(tag, s) ==
  (IF Len(s) <= 255 THEN head(tag, 6) \o <<Len(s)>>
                    ELSE head(tag, 7) \o to_be_bytes(Len(s), 4)) \o s

bytes(tag, data) == head(tag, 13) \o <<0>> \o int32(0, Len(data)) \o data

struct_begin(tag) == head(tag, 10)
struct_end        == head(0, 11)

\* Empty fields at the end are left out.
encode_tx_data(tx) ==
  string(2, tx.chain_id) \o string(3, tx.group_id) \o int64(4, tx.block_limit)
    \o string(5, tx.nonce)
    \o (IF tx.to = << >> THEN << >> ELSE string(6, tx.to))
    \o (IF tx.input = << >> THEN << >> ELSE bytes(7, tx.input))

encode_transaction(tx_data, data_hash, signature, sender, import_time) ==
  struct_begin(1) \o tx_data \o struct_end
    \o bytes(2, data_hash) \o bytes(3, signature) \o int64(4, import_time)
    \o (IF sender = << >> THEN << >> ELSE bytes(7, sender))

\* What is hashed: the fields one after the other, the integers in full width,
\* the abi empty.
Preimage(tx) ==
  to_be_bytes(0, 4) \o tx.chain_id \o tx.group_id \o tx.block_limit \o tx.nonce \o tx.to \o tx.input

\* The last 20 bytes of the hash of the public key.
address_from_signing_key(pub_bytes) == SubSeq(Keccak256(pub_bytes), 13, 32)

sign_tx(tx, pub_bytes, import_time) ==
  LET data_hash == Keccak256(Preimage(tx))
  IN  encode_transaction(encode_tx_data(tx), data_hash, sign(data_hash),
                         address_from_signing_key(pub_bytes), import_time)
=============================================================================
