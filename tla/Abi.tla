-------------------------------- MODULE Abi --------------------------------
(***************************************************************************)
(* fisco_ledger/src/abi.rs: the calls of the two record contracts, and the *)
(* value that their getters return.                                        *)
(***************************************************************************)
EXTENDS Bytes

CONSTANT selector(_)  \* the four bytes that select a function of a contract

Err == [err |-> TRUE]
Ok(data) == [ok |-> data]

pad32(n) == IF n = 0 THEN 32 ELSE ((n + 31) \div 32) * 32

\* A 64-bit integer in a word of 32 bytes.
u64_to_u256_bytes(v) == Zeros(24) \o v

encode_call(sel, loan_id, data) ==
  sel \o u64_to_u256_bytes(loan_id) \o u64_to_u256_bytes(to_be_bytes(64, 8))
    \o u64_to_u256_bytes(to_be_bytes(Len(data), 8)) \o data
    \o Zeros(pad32(Len(data)) - Len(data))

encode_record(kind, loan_id, data) == encode_call(selector(<<"record", kind>>), loan_id, data)
encode_get(kind, loan_id) == selector(<<"get", kind>>) \o u64_to_u256_bytes(loan_id)

\* Wrong variant of decode_bytes_return, which the properties must detect: it
\* does not ask whether all the data is there.
decode_what_is_there(raw) ==
  IF raw = << >> THEN Ok(<< >>)
  ELSE IF Len(raw) < 64 THEN Err
  ELSE LET offset   == from_be_bytes(Slice(raw, 24, 8))
           data_len == from_be_bytes(Slice(raw, offset + 24, 8))
       IN  Ok(SubSeq(raw, offset + 33, IF offset + 32 + data_len <= Len(raw)
                                       THEN offset + 32 + data_len ELSE Len(raw)))

\* An empty answer is empty data; one that is cut short is an error.
decode_bytes_return(raw) ==
  IF raw = << >> THEN Ok(<< >>)
  ELSE IF Len(raw) < 64 THEN Err
  ELSE LET offset     == from_be_bytes(Slice(raw, 24, 8))
           data_len   == from_be_bytes(Slice(raw, offset + 24, 8))
           data_start == offset + 32
       IN  IF Len(raw) < offset + 32 \/ Len(raw) < data_start + data_len THEN Err
           ELSE Ok(Slice(raw, data_start, data_len))
=============================================================================
