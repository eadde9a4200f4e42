----------------------------- MODULE WireProofs -----------------------------
(***************************************************************************)
(* What fisco_ledger writes is read as it was meant, for texts and         *)
(* payloads of any length and integers of any width: the transaction by a  *)
(* node, the call by a contract, the answer by the client, and the fields  *)
(* of a payload by whoever knows its layout.                               *)
(*                                                                         *)
(* First lemmas about places in a string of bytes and about integers; then *)
(* TARS, from one field to all of a signed transaction; ABI; the layouts;  *)
(* and last the invariant of Wire and the theorems.                        *)
(***************************************************************************)
EXTENDS Wire, RecordsProofs, TLAPS

----------------------------------------------------------------------------
(***************************************************************************)
(* Sequences of bytes that stand in a longer one.                          *)
(***************************************************************************)
\* The bytes s stand in w from position p on.
Stands(w, p, s) ==
  /\ p \in Nat \ {0} /\ p + Len(s) <= Len(w) + 1
  /\ \A i \in 1 .. Len(s) : w[p + i - 1] = s[i]

LEMMA StandsWhole ==
  ASSUME NEW w \in Seq(Byte)
  PROVE  Stands(w, 1, w)
BY DEF Stands

LEMMA StandsParts ==
  ASSUME NEW w \in Seq(Byte), NEW a \in Seq(Byte), NEW b \in Seq(Byte), NEW p \in Nat,
         Stands(w, p, a \o b)
  PROVE  Stands(w, p, a) /\ Stands(w, p + Len(a), b)
<1>1. Len(a \o b) = Len(a) + Len(b) /\ Len(a) \in Nat /\ Len(b) \in Nat
  OBVIOUS
<1>2. \A i \in 1 .. Len(a) : (a \o b)[i] = a[i]
  OBVIOUS
<1>3. \A i \in 1 .. Len(b) : (a \o b)[Len(a) + i] = b[i]
  OBVIOUS
<1>4. Stands(w, p, a)
  BY <1>1, <1>2 DEF Stands
<1>5. Stands(w, p + Len(a), b)
  <2>1. ASSUME NEW i \in 1 .. Len(b) PROVE w[(p + Len(a)) + i - 1] = b[i]
    <3>1. Len(a) + i \in 1 .. Len(a \o b) /\ (p + Len(a)) + i - 1 = p + (Len(a) + i) - 1
      BY <1>1
    <3> QED BY <1>3, <3>1 DEF Stands
  <2> QED BY <1>1, <2>1 DEF Stands
<1> QED BY <1>4, <1>5

LEMMA PartStands ==
  ASSUME NEW w \in Seq(Byte), NEW s \in Seq(Byte), NEW p \in Nat, Stands(w, p, s)
  PROVE  /\ SubSeq(w, p, p + Len(s) - 1) = s
         /\ Cut(w, p, p + Len(s) - 1) = s
<1>1. /\ Len(s) \in Nat /\ Len(w) \in Nat /\ p \in Nat \ {0} /\ p + Len(s) - 1 <= Len(w)
      /\ \A i \in 1 .. Len(s) : w[p + i - 1] = s[i]
  BY DEF Stands
<1> DEFINE to == p + Len(s) - 1
<1>2. Cut(w, p, to) = SubSeq(w, p, to)
  BY <1>1 DEF Cut
<1>3. \A i \in p .. to : w[i] \in Byte
  BY <1>1
<1>4. SubSeq(w, p, to) \in Seq(Byte) /\ Len(SubSeq(w, p, to)) = Len(s)
  BY <1>1, <1>3, SubSeqProperties
<1>5. ASSUME NEW i \in 1 .. Len(s) PROVE SubSeq(w, p, to)[i] = s[i]
  <2>1. i \in 1 .. to - p + 1
    BY <1>1
  <2>2. SubSeq(w, p, to)[i] = w[p + i - 1]
    BY <1>1, <1>3, <2>1, SubSeqProperties
  <2> QED BY <1>1, <2>2
<1>6. SubSeq(w, p, to) = s
  BY <1>4, <1>5, SeqEqual
<1> QED BY <1>2, <1>6

LEMMA AtStands ==
  ASSUME NEW w \in Seq(Byte), NEW s \in Seq(Byte), NEW p \in Nat, Stands(w, p, s),
         NEW i \in 1 .. Len(s)
  PROVE  At(w, p + i - 1) = s[i]
BY DEF Stands, At

LEMMA Joined ==
  ASSUME NEW a \in Seq(Byte), NEW b \in Seq(Byte)
  PROVE  a \o b \in Seq(Byte) /\ Len(a \o b) = Len(a) + Len(b)
OBVIOUS

----------------------------------------------------------------------------
(***************************************************************************)
(* Numbers and their bytes.                                                *)
(***************************************************************************)
LEMMA ByteIsNat ==
  ASSUME NEW x \in Byte
  PROVE  x \in Nat /\ x <= 255
BY DEF Byte

\* What from_be_bytes adds up, byte by byte.
Adds(v, b) == v = [i \in 0 .. Len(b) |-> IF i = 0 THEN 0 ELSE 256 * v[i - 1] + b[i]]

LEMMA FromBytesEquation ==
  ASSUME NEW b, Len(b) \in Nat
  PROVE  \E v : Adds(v, b) /\ from_be_bytes(b) = v[Len(b)]
<1> DEFINE P(g, m) == g = [i \in 0 .. m |-> IF i = 0 THEN 0 ELSE 256 * g[i - 1] + b[i]]
           S == {m \in Nat : \E g : P(g, m)}
<1>1. 0 \in S
  <2>1. P([i \in 0 .. 0 |-> 0], 0)
    OBVIOUS
  <2> QED BY <2>1
<1>2. ASSUME NEW m \in Nat, m \in S PROVE m + 1 \in S
  <2>1. PICK g : P(g, m)
    BY <1>2
  <2>2. \A k \in 0 .. m : g[k] = IF k = 0 THEN 0 ELSE 256 * g[k - 1] + b[k]
    BY <2>1
  <2> DEFINE top == 256 * g[m] + b[m + 1]
             h == [k \in 0 .. m + 1 |-> IF k = m + 1 THEN top ELSE g[k]]
  <2> HIDE DEF top
  <2>3. ASSUME NEW k \in 0 .. m + 1 PROVE h[k] = IF k = 0 THEN 0 ELSE 256 * h[k - 1] + b[k]
    <3>1. CASE k = m + 1
      <4>1. h[k] = top /\ h[k - 1] = g[m] /\ k # 0
        BY <3>1
      <4> QED BY <3>1, <4>1 DEF top
    <3>2. CASE k # m + 1
      <4>1. h[k] = g[k] /\ k \in 0 .. m
        BY <3>2
      <4>2. k # 0 => h[k - 1] = g[k - 1]
        BY <3>2
      <4> QED BY <2>2, <4>1, <4>2
    <3> QED BY <3>1, <3>2
  <2>4. h = [k \in 0 .. m + 1 |-> h[k]]
    OBVIOUS
  <2> HIDE DEF h
  <2>5. P(h, m + 1)
    BY <2>3, <2>4
  <2> QED BY <2>5
<1>3. Len(b) \in S
  <2> HIDE DEF S
  <2> QED BY <1>1, <1>2, FromZero
<1> DEFINE f == CHOOSE g : P(g, Len(b))
<1>4. P(f, Len(b))
  BY <1>3, Zenon
<1>5. from_be_bytes(b) = f[Len(b)]
  BY Zenon DEF from_be_bytes
<1> QED BY <1>4, <1>5 DEF Adds

\* Four and eight bytes make the number whose digits they are.
LEMMA FromBytes ==
  ASSUME NEW b \in Seq(Byte)
  PROVE  /\ Len(b) = 4 => /\ from_be_bytes(b) \in Nat
                          /\ from_be_bytes(b) = 256 * (256 * (256 * b[1] + b[2]) + b[3]) + b[4]
         /\ Len(b) = 8 =>
              /\ from_be_bytes(b) \in Nat
              /\ b[1] = 0 /\ b[2] = 0 /\ b[3] = 0 /\ b[4] = 0 =>
                   from_be_bytes(b) = 256 * (256 * (256 * b[5] + b[6]) + b[7]) + b[8]
<1>1. PICK v : Adds(v, b) /\ from_be_bytes(b) = v[Len(b)]
  BY FromBytesEquation
<1>2. \A i \in 0 .. Len(b) : v[i] = IF i = 0 THEN 0 ELSE 256 * v[i - 1] + b[i]
  BY <1>1 DEF Adds
<1>3. \A i \in 1 .. Len(b) : v[i - 1] \in Nat => v[i] = 256 * v[i - 1] + b[i] /\ v[i] \in Nat
  <2> SUFFICES ASSUME NEW i \in 1 .. Len(b), v[i - 1] \in Nat
               PROVE  v[i] = 256 * v[i - 1] + b[i] /\ v[i] \in Nat
    OBVIOUS
  <2>1. b[i] \in Byte
    OBVIOUS
  <2>2. b[i] \in Nat
    BY <2>1, ByteIsNat
  <2> QED BY <1>2, <2>2
<1>6. \A i \in 1 .. Len(b) : b[i] \in Nat
  <2> SUFFICES ASSUME NEW i \in 1 .. Len(b) PROVE b[i] \in Nat
    OBVIOUS
  <2>1. b[i] \in Byte
    OBVIOUS
  <2> QED BY <2>1, ByteIsNat
<1>4. CASE Len(b) = 4
  <2>1. v[0] = 0
    BY <1>2, <1>4
  <2>2. v[1] = 256 * v[0] + b[1] /\ v[1] \in Nat
    BY <1>3, <1>4, <2>1
  <2>3. v[2] = 256 * v[1] + b[2] /\ v[2] \in Nat
    BY <1>3, <1>4, <2>2
  <2>4. v[3] = 256 * v[2] + b[3] /\ v[3] \in Nat
    BY <1>3, <1>4, <2>3
  <2>5. v[4] = 256 * v[3] + b[4] /\ v[4] \in Nat
    BY <1>3, <1>4, <2>4
  <2>6. b[1] \in Nat /\ b[2] \in Nat /\ b[3] \in Nat /\ b[4] \in Nat
    BY <1>4, <1>6
  <2> QED BY <1>1, <1>4, <2>1, <2>2, <2>3, <2>4, <2>5, <2>6
<1>5. CASE Len(b) = 8
  <2>1. v[0] = 0
    BY <1>2, <1>5
  <2>2. v[1] = 256 * v[0] + b[1] /\ v[1] \in Nat
    BY <1>3, <1>5, <2>1
  <2>3. v[2] = 256 * v[1] + b[2] /\ v[2] \in Nat
    BY <1>3, <1>5, <2>2
  <2>4. v[3] = 256 * v[2] + b[3] /\ v[3] \in Nat
    BY <1>3, <1>5, <2>3
  <2>5. v[4] = 256 * v[3] + b[4] /\ v[4] \in Nat
    BY <1>3, <1>5, <2>4
  <2>6. v[5] = 256 * v[4] + b[5] /\ v[5] \in Nat
    BY <1>3, <1>5, <2>5
  <2>7. v[6] = 256 * v[5] + b[6] /\ v[6] \in Nat
    BY <1>3, <1>5, <2>6
  <2>8. v[7] = 256 * v[6] + b[7] /\ v[7] \in Nat
    BY <1>3, <1>5, <2>7
  <2>9. v[8] = 256 * v[7] + b[8] /\ v[8] \in Nat
    BY <1>3, <1>5, <2>8
  <2>10. b[1] = 0 /\ b[2] = 0 /\ b[3] = 0 /\ b[4] = 0 => v[4] = 0
    BY <2>1, <2>2, <2>3, <2>4, <2>5
  <2>11. b[5] \in Nat /\ b[6] \in Nat /\ b[7] \in Nat /\ b[8] \in Nat
    BY <1>5, <1>6
  <2> QED BY <1>1, <1>5, <2>6, <2>7, <2>8, <2>9, <2>10, <2>11, SMTT(30)
<1> QED BY <1>4, <1>5

\* A function on 1 .. n is a sequence of length n.
LEMMA ArrayIsSeq ==
  ASSUME NEW n \in Nat, NEW b \in ByteArray(n)
  PROVE  b \in Seq(Byte) /\ Len(b) = n /\ \A i \in 1 .. n : b[i] \in Byte
BY DEF ByteArray

\* The digits of a number make the number.
LEMMA Digits ==
  ASSUME NEW n \in Nat, IsU32(n)
  PROVE  /\ n = 256 * (256 * (256 * ((n \div 256 ^ 3) % 256) + ((n \div 256 ^ 2) % 256))
                        + ((n \div 256 ^ 1) % 256)) + ((n \div 256 ^ 0) % 256)
         /\ \A i \in 0 .. 3 : (n \div 256 ^ i) % 256 \in Byte
<1>1. n \in Nat /\ n \div 16777216 < 256
  BY SMT DEF IsU32
<1>2. 256 ^ 0 = 1 /\ 256 ^ 1 = 256 /\ 256 ^ 2 = 65536 /\ 256 ^ 3 = 16777216
  BY SMT
<1>3. /\ n \div 16777216 \in Nat /\ n \div 16777216 < 256
      /\ n \div 65536 \in Nat /\ n \div 256 \in Nat /\ n \div 1 = n
  BY <1>1, SMT
<1>4. n = 256 * (256 * (256 * ((n \div 16777216) % 256) + ((n \div 65536) % 256))
                        + ((n \div 256) % 256)) + (n % 256)
  BY <1>1, SMT
<1>5. \A i \in 0 .. 3 : i = 0 \/ i = 1 \/ i = 2 \/ i = 3
  BY SMT
<1>6. (n \div 16777216) % 256 \in Byte /\ (n \div 65536) % 256 \in Byte /\ (n \div 256) % 256 \in Byte
      /\ n % 256 \in Byte
  BY <1>1, <1>3, SMT DEF Byte
<1> QED BY <1>2, <1>3, <1>4, <1>5, <1>6, SMT

\* A length has no sign.
LEMMA HighDigit ==
  ASSUME NEW n \in Nat, n <= MaxLength
  PROVE  IsU32(n) /\ (n \div 256 ^ 3) % 256 < 128
<1>1. n \in Nat /\ n <= 2147483647
  BY SMT DEF MaxLength
<1>2. n \div 16777216 \in Nat /\ n \div 16777216 < 128 /\ 256 ^ 3 = 16777216
  BY <1>1, SMT
<1> QED BY <1>2, SMT DEF IsU32

\* A u32 is read from its low-endian bytes as it was written.
LEMMA U32RoundTrip ==
  ASSUME NEW n \in Nat, IsU32(n)
  PROVE  /\ to_le_bytes(n, 4) \in ByteArray(4)
         /\ from_be_bytes(Reversed(to_le_bytes(n, 4))) = n
<1> DEFINE l == to_le_bytes(n, 4)
           r == Reversed(l)
           d(i) == (n \div 256 ^ i) % 256
<1>1. /\ n = 256 * (256 * (256 * d(3) + d(2)) + d(1)) + d(0)
      /\ \A i \in 0 .. 3 : d(i) \in Byte
  BY Digits, ZenonT(60)
<1>2. l[1] = d(0) /\ l[2] = d(1) /\ l[3] = d(2) /\ l[4] = d(3)
  BY DEF to_le_bytes
<1>3. l = [i \in 1 .. 4 |-> l[i]]
  BY DEF to_le_bytes
<1> HIDE DEF l, d
<1>4. d(0) \in Byte /\ d(1) \in Byte /\ d(2) \in Byte /\ d(3) \in Byte
  BY <1>1
<1>5. l \in ByteArray(4)
  <2>1. \A i \in 1 .. 4 : l[i] \in Byte
    BY <1>2, <1>4
  <2> QED BY <1>3, <2>1 DEF ByteArray
<1>6. l \in Seq(Byte) /\ Len(l) = 4
  BY <1>5, ArrayIsSeq
<1>7. r \in Seq(Byte) /\ Len(r) = 4 /\ r[1] = d(3) /\ r[2] = d(2) /\ r[3] = d(1) /\ r[4] = d(0)
  BY <1>2, <1>6, <1>4 DEF Reversed
<1> HIDE DEF r
<1>8. from_be_bytes(r) = n
  BY <1>1, <1>7, FromBytes
<1> QED BY <1>5, <1>8, Zenon DEF l, r

\* A length is read as it was written.
LEMMA LengthRoundTrip ==
  ASSUME NEW n \in Nat, n <= MaxLength
  PROVE  /\ to_be_bytes(n, 8) \in ByteArray(8)
         /\ \A i \in 1 .. 4 : to_be_bytes(n, 8)[i] = 0
         /\ to_be_bytes(n, 8)[5] < 128
         /\ from_be_bytes(to_be_bytes(n, 8)) = n
         /\ to_be_bytes(n, 4) \in ByteArray(4)
         /\ \A i \in 1 .. 4 : to_be_bytes(n, 4)[i] = to_be_bytes(n, 8)[i + 4]
<1> DEFINE b == to_be_bytes(n, 8)
           c == to_be_bytes(n, 4)
           d(i) == (n \div 256 ^ i) % 256
<1>1. /\ n = 256 * (256 * (256 * d(3) + d(2)) + d(1)) + d(0)
      /\ \A i \in 0 .. 3 : d(i) \in Byte
      /\ d(3) < 128
  <2>1. IsU32(n)
    BY HighDigit, Zenon
  <2>2. /\ n = 256 * (256 * (256 * d(3) + d(2)) + d(1)) + d(0)
        /\ \A i \in 0 .. 3 : d(i) \in Byte
    BY <2>1, Digits, ZenonT(60)
  <2>3. d(3) < 128
    BY HighDigit, Zenon
  <2> QED BY <2>2, <2>3, ZenonT(60)
<1>2. /\ b[1] = 0 /\ b[2] = 0 /\ b[3] = 0 /\ b[4] = 0
      /\ b[5] = d(3) /\ b[6] = d(2) /\ b[7] = d(1) /\ b[8] = d(0)
  BY DEF to_be_bytes
<1>3. c[1] = d(3) /\ c[2] = d(2) /\ c[3] = d(1) /\ c[4] = d(0)
  BY DEF to_be_bytes
<1>4. /\ b = [i \in 1 .. 8 |-> b[i]] /\ c = [i \in 1 .. 4 |-> c[i]]
  BY DEF to_be_bytes
<1> HIDE DEF b, c, d
<1>5. 0 \in Byte /\ d(0) \in Byte /\ d(1) \in Byte /\ d(2) \in Byte /\ d(3) \in Byte
  BY <1>1 DEF Byte
<1>6. b \in ByteArray(8)
  <2>1. \A i \in 1 .. 8 : b[i] \in Byte
    BY <1>2, <1>5
  <2> QED BY <1>4, <2>1 DEF ByteArray
<1>7. c \in ByteArray(4)
  <2>1. \A i \in 1 .. 4 : c[i] \in Byte
    BY <1>3, <1>5
  <2> QED BY <1>4, <2>1 DEF ByteArray
<1>8. b \in Seq(Byte) /\ Len(b) = 8
  BY <1>6, ArrayIsSeq
<1>9. from_be_bytes(b) = n
  BY <1>1, <1>2, <1>8, FromBytes
<1>10. \A i \in 1 .. 4 : b[i] = 0 /\ c[i] = b[i + 4]
  BY <1>2, <1>3
<1>11. b[5] < 128
  BY <1>1, <1>2
<1> QED BY <1>6, <1>7, <1>9, <1>10, <1>11, Zenon DEF b, c

----------------------------------------------------------------------------
(***************************************************************************)
(* What the node reads where a field stands.                               *)
(***************************************************************************)
\* At p the node reads a field of n bytes, with this tag and value; it is not
\* the end of a struct.
Reads(w, p, tag, val, n) ==
  /\ FieldAt(w, p).tag = tag /\ FieldAt(w, p).ty # 11
  /\ FieldAt(w, p).val = val /\ FieldAt(w, p).next = p + n

\* The byte at p is the head of a field.
Headed(w, p, tag, ty) == At(w, p) = 16 * tag + ty

LEMMA HeadRead ==
  ASSUME NEW w \in Seq(Byte), NEW p \in Nat, NEW tag \in 0 .. 14, NEW ty \in 0 .. 15,
         Stands(w, p, head(tag, ty))
  PROVE  Headed(w, p, tag, ty)
<1>1. head(tag, ty) = <<16 * tag + ty>>
  BY DEF head
<1>2. Len(head(tag, ty)) = 1 /\ head(tag, ty)[1] = 16 * tag + ty
  BY <1>1
<1>3. p + 1 - 1 = p /\ p <= Len(w) /\ w[p + 1 - 1] = 16 * tag + ty
  BY <1>2 DEF Stands
<1> QED BY <1>3 DEF At, Headed

LEMMA HeadParts ==
  ASSUME NEW w, NEW p \in Nat, NEW tag \in 0 .. 14, NEW ty \in 0 .. 15, Headed(w, p, tag, ty)
  PROVE  At(w, p) % 16 = ty /\ At(w, p) \div 16 = tag /\ ~(At(w, p) >= 240)
BY DEF Headed

\* One lemma per type: where the value of the field stands, and the next field.
LEMMA FieldInt ==
  ASSUME NEW w, NEW p \in Nat, NEW tag \in 0 .. 14, NEW ty \in 0 .. 3, Headed(w, p, tag, ty)
  PROVE  /\ FieldAt(w, p).tag = tag /\ FieldAt(w, p).ty = ty
         /\ FieldAt(w, p).val = Integer(w, p + 1, ty)
         /\ FieldAt(w, p).next = p + 1 + 2 ^ ty
<1>1. ty \in 0 .. 15
  OBVIOUS
<1>2. At(w, p) % 16 = ty /\ At(w, p) \div 16 = tag /\ ~(At(w, p) >= 240)
  BY <1>1, HeadParts
<1>3. FieldAt(w, p).tag = tag /\ FieldAt(w, p).ty = ty
  BY <1>2 DEF FieldAt
<1>4. FieldAt(w, p).val = Integer(w, p + 1, ty)
  BY <1>2, SMTT(30) DEF FieldAt
<1>5. FieldAt(w, p).next = p + 1 + 2 ^ ty
  BY <1>2 DEF FieldAt
<1> QED BY <1>3, <1>4, <1>5

LEMMA FieldZero ==
  ASSUME NEW w, NEW p \in Nat, NEW tag \in 0 .. 14, Headed(w, p, tag, 12)
  PROVE  FieldAt(w, p) = [tag |-> tag, ty |-> 12, val |-> Zeros(8), next |-> p + 1]
<1>1. 12 \in 0 .. 15
  OBVIOUS
<1>2. At(w, p) % 16 = 12 /\ At(w, p) \div 16 = tag /\ ~(At(w, p) >= 240)
  BY <1>1, HeadParts
<1> QED BY <1>2, SMTT(30) DEF FieldAt

LEMMA FieldShort ==
  ASSUME NEW w, NEW p \in Nat, NEW tag \in 0 .. 14, Headed(w, p, tag, 6)
  PROVE  FieldAt(w, p) = [tag |-> tag, ty |-> 6,
                          val |-> Cut(w, p + 1 + 1, p + 1 + 1 + At(w, p + 1) - 1),
                          next |-> p + 1 + 1 + At(w, p + 1)]
<1>1. 6 \in 0 .. 15
  OBVIOUS
<1>2. At(w, p) % 16 = 6 /\ At(w, p) \div 16 = tag /\ ~(At(w, p) >= 240)
  BY <1>1, HeadParts
<1> QED BY <1>2, SMTT(30) DEF FieldAt

LEMMA FieldLong ==
  ASSUME NEW w, NEW p \in Nat, NEW tag \in 0 .. 14, Headed(w, p, tag, 7), NEW n,
         n = Natural([i \in 1 .. 8 |-> IF i <= 4 THEN 0 ELSE At(w, p + 1 + i - 5)])
  PROVE  FieldAt(w, p) = [tag |-> tag, ty |-> 7, val |-> Cut(w, p + 1 + 4, p + 1 + 4 + n - 1),
                          next |-> p + 1 + 4 + n]
<1>1. 7 \in 0 .. 15
  OBVIOUS
<1>2. At(w, p) % 16 = 7 /\ At(w, p) \div 16 = tag /\ ~(At(w, p) >= 240)
  BY <1>1, HeadParts
<1> QED BY <1>2 DEF FieldAt

\* A byte list: its length is an integer of type t and value n, and q the place
\* behind it.
ListOf(w, p, tag, t, n, q) ==
  /\ p \in Nat /\ tag \in 0 .. 14 /\ Headed(w, p, tag, 13)
  /\ t = At(w, p + 1 + 1) % 16 /\ n = Natural(Integer(w, p + 1 + 2, t))
  /\ q = IF t = 12 THEN p + 1 + 2 ELSE p + 1 + 2 + 2 ^ t

LEMMA FieldList ==
  ASSUME NEW w, NEW p, NEW tag, NEW t, NEW n, NEW q, ListOf(w, p, tag, t, n, q)
  PROVE  /\ FieldAt(w, p).tag = tag /\ FieldAt(w, p).ty = 13
         /\ FieldAt(w, p).val = Cut(w, q, q + n - 1) /\ FieldAt(w, p).next = q + n
<1>1. 13 \in 0 .. 15
  OBVIOUS
<1>2. At(w, p) % 16 = 13 /\ At(w, p) \div 16 = tag /\ ~(At(w, p) >= 240)
  BY <1>1, HeadParts DEF ListOf
<1> QED BY <1>2 DEF FieldAt, ListOf

LEMMA FieldStruct ==
  ASSUME NEW w, NEW p \in Nat, NEW tag \in 0 .. 14, NEW ty \in {10, 11}, Headed(w, p, tag, ty)
  PROVE  FieldAt(w, p) = [tag |-> tag, ty |-> ty, val |-> << >>, next |-> p + 1]
<1>1. ty \in 0 .. 15
  OBVIOUS
<1>2. At(w, p) % 16 = ty /\ At(w, p) \div 16 = tag /\ ~(At(w, p) >= 240)
  BY <1>1, HeadParts
<1>3. CASE ty = 10
  <2>1. At(w, p) % 16 = 10
    BY <1>2, <1>3
  <2> QED BY <1>2, <1>3, <2>1, SMTT(30) DEF FieldAt
<1>4. CASE ty = 11
  <2>1. At(w, p) % 16 = 11
    BY <1>2, <1>4
  <2> QED BY <1>2, <1>4, <2>1, SMTT(30) DEF FieldAt
<1> QED BY <1>3, <1>4

\* The last 2^t bytes of an integer that fits in them, read back.
LEMMA IntegerRead ==
  ASSUME NEW w \in Seq(Byte), NEW q \in Nat, NEW v \in ByteArray(8), NEW t \in 0 .. 3,
         Fits(v, 2 ^ t), Stands(w, q, SubSeq(v, 9 - 2 ^ t, 8))
  PROVE  Integer(w, q, t) = v
<1> DEFINE n == 2 ^ t
           s == SubSeq(v, 9 - n, 8)
           b == Cut(w, q, q + n - 1)
<1>1. n \in {1, 2, 4, 8}
  <2>1. t = 0 \/ t = 1 \/ t = 2 \/ t = 3
    OBVIOUS
  <2>2. 2 ^ 0 = 1 /\ 2 ^ 1 = 2 /\ 2 ^ 2 = 4 /\ 2 ^ 3 = 8
    BY SMT
  <2> QED BY <2>1, <2>2
<1>2. v \in Seq(Byte) /\ Len(v) = 8 /\ v = [i \in 1 .. 8 |-> v[i]]
  <2>1. v = [i \in 1 .. 8 |-> v[i]]
    BY DEF ByteArray
  <2> QED BY <2>1, ArrayIsSeq
<1>3. \A i \in 1 .. 8 - n : v[i] = IF v[9 - n] >= 128 THEN 255 ELSE 0
  BY DEF Fits
<1>4. Stands(w, q, s)
  OBVIOUS
<1> HIDE DEF n
<1>5. s \in Seq(Byte) /\ Len(s) = n /\ \A j \in 1 .. n : s[j] = v[9 - n + j - 1]
  <2>1. 9 - n \in Int /\ \A i \in 9 - n .. 8 : v[i] \in Byte
    BY <1>1, <1>2, SMTT(30)
  <2>2. /\ s \in Seq(Byte)
        /\ Len(s) = IF 9 - n <= 8 THEN 8 - (9 - n) + 1 ELSE 0
        /\ \A j \in 1 .. 8 - (9 - n) + 1 : s[j] = v[9 - n + j - 1]
    BY <2>1, SubSeqProperties
  <2>3. 8 - (9 - n) + 1 = n /\ 9 - n <= 8
    BY <1>1
  <2> QED BY <2>2, <2>3
<1>6. b = s
  BY <1>4, <1>5, PartStands
<1>7. Integer(w, q, t) = [i \in 1 .. 8 |-> IF i > 8 - n THEN b[i - 8 + n]
                                          ELSE IF b[1] >= 128 THEN 255 ELSE 0]
  <2>1. ~(t > 3 \/ Len(b) < n)
    BY <1>1, <1>5, <1>6
  <2> QED BY <2>1 DEF Integer, n
<1> HIDE DEF s, b
<1>8. ASSUME NEW i \in 1 .. 8
      PROVE  v[i] = IF i > 8 - n THEN b[i - 8 + n] ELSE IF b[1] >= 128 THEN 255 ELSE 0
  <2>1. CASE i > 8 - n
    <3>1. i - 8 + n \in 1 .. n /\ 9 - n + (i - 8 + n) - 1 = i
      BY <1>1, <2>1
    <3> QED BY <1>5, <1>6, <2>1, <3>1
  <2>2. CASE ~(i > 8 - n)
    <3>1. i \in 1 .. 8 - n /\ 1 \in 1 .. n /\ 9 - n + 1 - 1 = 9 - n
      BY <1>1, <2>2
    <3>2. b[1] = v[9 - n]
      BY <1>5, <1>6, <3>1
    <3> QED BY <1>3, <2>2, <3>1, <3>2
  <2> QED BY <2>1, <2>2
<1> QED BY <1>2, <1>7, <1>8

\* The type that int64 chooses, and the bytes that it writes.
LEMMA IntegerWritten ==
  ASSUME NEW tag \in 0 .. 14, NEW v \in ByteArray(8), v # Zeros(8)
  PROVE  \E t \in 0 .. 3 :
           /\ Fits(v, 2 ^ t) /\ 2 ^ t \in 1 .. 8
           /\ SubSeq(v, 9 - 2 ^ t, 8) \in Seq(Byte) /\ Len(SubSeq(v, 9 - 2 ^ t, 8)) = 2 ^ t
           /\ int64(tag, v) = head(tag, t) \o SubSeq(v, 9 - 2 ^ t, 8)
<1> DEFINE Least(t) == Fits(v, 2 ^ t) /\ \A u \in 0 .. t - 1 : ~Fits(v, 2 ^ u)
           t == CHOOSE t \in 0 .. 3 : Least(t)
<1>1. 2 ^ 0 = 1 /\ 2 ^ 1 = 2 /\ 2 ^ 2 = 4 /\ 2 ^ 3 = 8
  BY SMT
<1>2. Fits(v, 2 ^ 3)
  BY <1>1 DEF Fits
<1>3. \E u \in 0 .. 3 : Least(u)
  <2> DEFINE F(u) == Fits(v, 2 ^ u)
  <2> HIDE DEF F
  <2>1. F(3)
    BY <1>2 DEF F
  <2>2. \E u \in 0 .. 3 : F(u) /\ \A y \in 0 .. u - 1 : ~F(y)
    <3>1. CASE F(0)
      BY <3>1
    <3>2. CASE ~F(0) /\ F(1)
      BY <3>2
    <3>3. CASE ~F(0) /\ ~F(1) /\ F(2)
      BY <3>3
    <3>4. CASE ~F(0) /\ ~F(1) /\ ~F(2)
      BY <2>1, <3>4
    <3> QED BY <3>1, <3>2, <3>3, <3>4
  <2> QED BY <2>2 DEF F
<1>4. t \in 0 .. 3 /\ Least(t)
  BY <1>3, Zenon
<1>5. int64(tag, v) = head(tag, t) \o SubSeq(v, 9 - 2 ^ t, 8)
  BY Zenon DEF int64
<1> HIDE DEF t
<1>6. 2 ^ t \in {1, 2, 4, 8}
  <2>1. t = 0 \/ t = 1 \/ t = 2 \/ t = 3
    BY <1>4
  <2> QED BY <1>1, <2>1
<1>7. /\ SubSeq(v, 9 - 2 ^ t, 8) \in Seq(Byte)
      /\ Len(SubSeq(v, 9 - 2 ^ t, 8)) = 2 ^ t
  <2> DEFINE n == 2 ^ t
  <2> HIDE DEF n
  <2>1. n \in {1, 2, 4, 8}
    BY <1>6 DEF n
  <2>2. v \in Seq(Byte) /\ Len(v) = 8 /\ \A i \in 1 .. 8 : v[i] \in Byte
    BY ArrayIsSeq
  <2>3. 9 - n \in Int /\ \A i \in 9 - n .. 8 : v[i] \in Byte
    BY <2>1, <2>2
  <2>4. /\ SubSeq(v, 9 - n, 8) \in Seq(Byte)
        /\ Len(SubSeq(v, 9 - n, 8)) = IF 9 - n <= 8 THEN 8 - (9 - n) + 1 ELSE 0
    BY <2>3, SubSeqProperties
  <2>5. 9 - n <= 8 /\ 8 - (9 - n) + 1 = n
    BY <2>1
  <2> QED BY <2>4, <2>5 DEF n
<1>8. 2 ^ t \in 1 .. 8
  BY <1>6
<1> QED BY <1>4, <1>5, <1>7, <1>8

\* Heads are one byte.
LEMMA HeadIsByte ==
  ASSUME NEW tag \in 0 .. 14, NEW ty \in 0 .. 15
  PROVE  /\ head(tag, ty) = <<16 * tag + ty>> /\ 16 * tag + ty \in Byte
         /\ head(tag, ty) \in Seq(Byte) /\ Len(head(tag, ty)) = 1
         /\ head(tag, ty)[1] = 16 * tag + ty
<1>1. head(tag, ty) = <<16 * tag + ty>>
  BY DEF head
<1>2. 16 * tag + ty \in Byte
  BY DEF Byte
<1> QED BY <1>1, <1>2

LEMMA IntRead ==
  ASSUME NEW w \in Seq(Byte), NEW p \in Nat, NEW tag \in 0 .. 14, NEW v \in ByteArray(8),
         Stands(w, p, int64(tag, v))
  PROVE  Reads(w, p, tag, v, Len(int64(tag, v)))
<1>1. CASE v = Zeros(8)
  <2>1. int64(tag, v) = head(tag, 12)
    BY <1>1, Zenon DEF int64
  <2>2. 12 \in 0 .. 15
    OBVIOUS
  <2>3. Headed(w, p, tag, 12)
    BY <2>1, <2>2, HeadRead
  <2>4. Len(int64(tag, v)) = 1
    BY <2>1, <2>2, HeadIsByte
  <2>5. FieldAt(w, p) = [tag |-> tag, ty |-> 12, val |-> Zeros(8), next |-> p + 1]
    BY <2>3, FieldZero
  <2>6. /\ FieldAt(w, p).tag = tag /\ FieldAt(w, p).ty # 11
        /\ FieldAt(w, p).val = v /\ FieldAt(w, p).next = p + 1
    BY <1>1, <2>5
  <2> QED BY <2>4, <2>6, Zenon DEF Reads
<1>2. CASE v # Zeros(8)
  <2>1. PICK t \in 0 .. 3 :
           /\ Fits(v, 2 ^ t) /\ 2 ^ t \in 1 .. 8
           /\ SubSeq(v, 9 - 2 ^ t, 8) \in Seq(Byte) /\ Len(SubSeq(v, 9 - 2 ^ t, 8)) = 2 ^ t
           /\ int64(tag, v) = head(tag, t) \o SubSeq(v, 9 - 2 ^ t, 8)
    BY <1>2, IntegerWritten
  <2> DEFINE n == 2 ^ t
             s == SubSeq(v, 9 - n, 8)
             h == head(tag, t)
  <2>2. t \in 0 .. 15
    OBVIOUS
  <2>3. h \in Seq(Byte) /\ Len(h) = 1
    BY <2>2, HeadIsByte
  <2>4. n \in 1 .. 8 /\ s \in Seq(Byte) /\ Len(s) = n /\ int64(tag, v) = h \o s
    BY <2>1
  <2>5. Stands(w, p, h \o s)
    BY <2>4
  <2>6. Headed(w, p, tag, t) /\ Stands(w, p + 1, s)
    <3> HIDE DEF s, h
    <3>1. Stands(w, p, h) /\ Stands(w, p + 1, s)
      BY <2>3, <2>4, <2>5, StandsParts
    <3> QED BY <2>2, <3>1, HeadRead DEF h
  <2>7. Integer(w, p + 1, t) = v
    <3>1. p + 1 \in Nat
      OBVIOUS
    <3> QED BY <2>1, <2>6, <3>1, IntegerRead
  <2>8. Len(int64(tag, v)) = 1 + n
    <3> HIDE DEF s, h, n
    <3>1. Len(h \o s) = Len(h) + Len(s)
      BY <2>3, <2>4, Joined, Zenon
    <3> QED BY <2>3, <2>4, <3>1, ZenonT(30)
  <2>9. /\ FieldAt(w, p).tag = tag /\ FieldAt(w, p).ty = t
        /\ FieldAt(w, p).val = Integer(w, p + 1, t) /\ FieldAt(w, p).next = p + 1 + n
    BY <2>6, FieldInt
  <2>10. p + 1 + n = p + (1 + n)
    BY <2>4
  <2>11. t # 11
    OBVIOUS
  <2> HIDE DEF s, h, n
  <2>12. FieldAt(w, p).next = p + Len(int64(tag, v))
    BY <2>4, <2>8, <2>9, <2>10
  <2> QED BY <2>7, <2>9, <2>11, <2>12, Zenon DEF Reads
<1> QED BY <1>1, <1>2

\* The length in front of a byte string, as the node takes it.
LEMMA NaturalOf ==
  ASSUME NEW n \in Nat, n <= MaxLength
  PROVE  Natural(to_be_bytes(n, 8)) = n
<1> DEFINE v == to_be_bytes(n, 8)
<1>1. (\A i \in 1 .. 4 : v[i] = 0) /\ v[5] < 128 /\ from_be_bytes(v) = n
      /\ v \in ByteArray(8)
  BY LengthRoundTrip
<1>2. v[5] \in Nat
  <2>1. v[5] \in Byte
    BY <1>1, ArrayIsSeq
  <2> QED BY <2>1, ByteIsNat
<1> HIDE DEF v
<1>3. ~((\E i \in 1 .. 4 : v[i] # 0) \/ v[5] >= 128)
  BY <1>1, <1>2
<1>4. Natural(v) = n
  BY <1>1, <1>3, Zenon DEF Natural
<1> QED BY <1>4 DEF v

LEMMA IntShape ==
  ASSUME NEW tag \in 0 .. 14, NEW v \in ByteArray(8)
  PROVE  int64(tag, v) \in Seq(Byte) /\ Len(int64(tag, v)) \in 1 .. 9
<1>1. CASE v = Zeros(8)
  <2>1. int64(tag, v) = head(tag, 12)
    BY <1>1, Zenon DEF int64
  <2>2. 12 \in 0 .. 15
    OBVIOUS
  <2>3. head(tag, 12) \in Seq(Byte) /\ Len(head(tag, 12)) = 1
    BY <2>2, HeadIsByte
  <2> QED BY <2>1, <2>3
<1>2. CASE v # Zeros(8)
  <2>1. PICK t \in 0 .. 3 :
           /\ Fits(v, 2 ^ t) /\ 2 ^ t \in 1 .. 8
           /\ SubSeq(v, 9 - 2 ^ t, 8) \in Seq(Byte) /\ Len(SubSeq(v, 9 - 2 ^ t, 8)) = 2 ^ t
           /\ int64(tag, v) = head(tag, t) \o SubSeq(v, 9 - 2 ^ t, 8)
    BY <1>2, IntegerWritten
  <2> DEFINE n == 2 ^ t
             s == SubSeq(v, 9 - n, 8)
             h == head(tag, t)
  <2>2. t \in 0 .. 15
    OBVIOUS
  <2>3. h \in Seq(Byte) /\ Len(h) = 1
    BY <2>2, HeadIsByte
  <2>4. n \in 1 .. 8 /\ s \in Seq(Byte) /\ Len(s) = n /\ int64(tag, v) = h \o s
    BY <2>1
  <2> HIDE DEF n, s, h
  <2>5. 1 \in Nat /\ n \in Nat
    BY <2>4
  <2>6. h \o s \in Seq(Byte) /\ Len(h \o s) = 1 + n
    BY <2>3, <2>4, <2>5, Joined, Zenon
  <2>7. 1 + n \in 1 .. 9
    BY <2>4
  <2> QED BY <2>4, <2>6, <2>7, Zenon
<1> QED BY <1>1, <1>2

\* The parts of a text field: head, length, text.
LEMMA StringParts ==
  ASSUME NEW tag \in 0 .. 14, NEW s, IsText(s)
  PROVE  /\ Len(s) <= 255 => string(tag, s) = (head(tag, 6) \o <<Len(s)>>) \o s
         /\ ~(Len(s) <= 255) => string(tag, s) = (head(tag, 7) \o to_be_bytes(Len(s), 4)) \o s
         /\ string(tag, s) \in Seq(Byte)
         /\ Len(string(tag, s)) = (IF Len(s) <= 255 THEN 2 ELSE 5) + Len(s)
<1> DEFINE n == Len(s)
<1>1. s \in Seq(Byte) /\ n \in Nat /\ n <= MaxLength
  BY DEF IsText
<1>2. 6 \in 0 .. 15 /\ 7 \in 0 .. 15
  OBVIOUS
<1>5. 1 \in Nat /\ 4 \in Nat /\ 2 = 1 + 1 /\ 5 = 1 + 4
  OBVIOUS
<1> HIDE DEF n
<1>3. CASE n <= 255
  <2>1. string(tag, s) = (head(tag, 6) \o <<n>>) \o s
    BY <1>3, Zenon DEF string, n
  <2>2. n \in Byte
    BY <1>1, <1>3 DEF Byte
  <2>3. <<n>> \in Seq(Byte) /\ Len(<<n>>) = 1
    BY <2>2
  <2>4. head(tag, 6) \in Seq(Byte) /\ Len(head(tag, 6)) = 1
    BY <1>2, HeadIsByte
  <2>5. head(tag, 6) \o <<n>> \in Seq(Byte) /\ Len(head(tag, 6) \o <<n>>) = 2
    BY <1>5, <2>3, <2>4, Joined, Zenon
  <2>6. string(tag, s) \in Seq(Byte) /\ Len(string(tag, s)) = 2 + n
    BY <1>1, <2>1, <2>5 DEF n
  <2> QED BY <1>3, <2>1, <2>6 DEF n
<1>4. CASE ~(n <= 255)
  <2>1. string(tag, s) = (head(tag, 7) \o to_be_bytes(n, 4)) \o s
    BY <1>4, Zenon DEF string, n
  <2>2. to_be_bytes(n, 4) \in ByteArray(4)
    BY <1>1, LengthRoundTrip
  <2>3. to_be_bytes(n, 4) \in Seq(Byte) /\ Len(to_be_bytes(n, 4)) = 4
    BY <2>2, ArrayIsSeq
  <2>4. head(tag, 7) \in Seq(Byte) /\ Len(head(tag, 7)) = 1
    BY <1>2, HeadIsByte
  <2>5. head(tag, 7) \o to_be_bytes(n, 4) \in Seq(Byte) /\ Len(head(tag, 7) \o to_be_bytes(n, 4)) = 5
    BY <1>5, <2>3, <2>4, Joined, Zenon
  <2>6. string(tag, s) \in Seq(Byte) /\ Len(string(tag, s)) = 5 + n
    BY <1>1, <2>1, <2>5 DEF n
  <2> QED BY <1>4, <2>1, <2>6 DEF n
<1> QED BY <1>3, <1>4

LEMMA StringRead ==
  ASSUME NEW w \in Seq(Byte), NEW p \in Nat, NEW tag \in 0 .. 14, NEW s, IsText(s),
         Stands(w, p, string(tag, s))
  PROVE  Reads(w, p, tag, s, Len(string(tag, s)))
<1> DEFINE n == Len(s)
<1>1. s \in Seq(Byte) /\ n \in Nat /\ n <= MaxLength
  BY DEF IsText
<1>2. 6 \in 0 .. 15 /\ 7 \in 0 .. 15
  OBVIOUS
<1>5. 1 \in Nat /\ 4 \in Nat /\ 2 = 1 + 1 /\ 5 = 1 + 4
  OBVIOUS
<1> HIDE DEF n
<1>3. CASE n <= 255
  <2> DEFINE h == head(tag, 6)
             l == <<n>>
  <2>1. string(tag, s) = (h \o l) \o s /\ Len(string(tag, s)) = 2 + n
    BY <1>3, StringParts DEF n
  <2>2. n \in Byte
    BY <1>1, <1>3 DEF Byte
  <2>3. l \in Seq(Byte) /\ Len(l) = 1 /\ l[1] = n
    BY <2>2
  <2>4. h \in Seq(Byte) /\ Len(h) = 1
    BY <1>2, HeadIsByte
  <2>5. Stands(w, p, h) /\ Stands(w, p + 1, l) /\ Stands(w, p + 2, s)
    <3> HIDE DEF h, l
    <3>1. h \o l \in Seq(Byte) /\ Len(h \o l) = 2
      BY <1>5, <2>3, <2>4, Joined, Zenon
    <3>2. Stands(w, p, h \o l) /\ Stands(w, p + 2, s)
      BY <1>1, <2>1, <3>1, StandsParts, ZenonT(60)
    <3>3. Stands(w, p, h) /\ Stands(w, p + 1, l)
      BY <2>3, <2>4, <3>2, StandsParts
    <3> QED BY <3>2, <3>3
  <2>6. Headed(w, p, tag, 6)
    BY <1>2, <2>5, HeadRead
  <2>7. At(w, p + 1) = n
    <3> HIDE DEF l
    <3>1. At(w, (p + 1) + 1 - 1) = l[1]
      BY <2>3, <2>5, AtStands
    <3> QED BY <2>3, <3>1
  <2>8. FieldAt(w, p) = [tag |-> tag, ty |-> 6,
                         val |-> Cut(w, p + 1 + 1, p + 1 + 1 + n - 1), next |-> p + 1 + 1 + n]
    BY <2>6, <2>7, FieldShort
  <2>9. Cut(w, p + 2, p + 2 + n - 1) = s
    BY <1>1, <2>5, PartStands DEF n
  <2>10. p + 1 + 1 = p + 2 /\ p + 2 + n = p + (2 + n)
    BY <1>1
  <2>11. /\ FieldAt(w, p).tag = tag /\ FieldAt(w, p).ty # 11
         /\ FieldAt(w, p).val = s /\ FieldAt(w, p).next = p + (2 + n)
    BY <2>8, <2>9, <2>10
  <2> QED BY <2>1, <2>11, Zenon DEF Reads
<1>4. CASE ~(n <= 255)
  <2> DEFINE h == head(tag, 7)
             l == to_be_bytes(n, 4)
             v == to_be_bytes(n, 8)
             u == [i \in 1 .. 8 |-> IF i <= 4 THEN 0 ELSE At(w, p + 1 + i - 5)]
  <2>1. string(tag, s) = (h \o l) \o s /\ Len(string(tag, s)) = 5 + n
    BY <1>4, StringParts DEF n
  <2>2. /\ l \in ByteArray(4) /\ v \in ByteArray(8)
        /\ \A i \in 1 .. 4 : v[i] = 0 /\ l[i] = v[i + 4]
    BY <1>1, LengthRoundTrip
  <2>3. l \in Seq(Byte) /\ Len(l) = 4
    BY <2>2, ArrayIsSeq
  <2>4. h \in Seq(Byte) /\ Len(h) = 1
    BY <1>2, HeadIsByte
  <2>5. Stands(w, p, h) /\ Stands(w, p + 1, l) /\ Stands(w, p + 5, s)
    <3> HIDE DEF h, l
    <3>1. h \o l \in Seq(Byte) /\ Len(h \o l) = 5
      BY <1>5, <2>3, <2>4, Joined, Zenon
    <3>2. Stands(w, p, h \o l) /\ Stands(w, p + 5, s)
      BY <1>1, <2>1, <3>1, StandsParts, ZenonT(60)
    <3>3. Stands(w, p, h) /\ Stands(w, p + 1, l)
      BY <2>3, <2>4, <3>2, StandsParts
    <3> QED BY <3>2, <3>3
  <2>6. Headed(w, p, tag, 7)
    BY <1>2, <2>5, HeadRead
  <2>7. u = v
    <3> HIDE DEF l, v
    <3>1. v = [i \in 1 .. 8 |-> v[i]]
      BY <2>2 DEF ByteArray
    <3>2. ASSUME NEW i \in 1 .. 8 PROVE v[i] = IF i <= 4 THEN 0 ELSE At(w, p + 1 + i - 5)
      <4>1. CASE i <= 4
        BY <2>2, <4>1
      <4>2. CASE ~(i <= 4)
        <5>1. /\ i - 4 \in 1 .. Len(l) /\ (i - 4) + 4 = i /\ i - 4 \in 1 .. 4
              /\ p + 1 + i - 5 = (p + 1) + (i - 4) - 1 /\ p + 1 \in Nat
          BY <2>3, <4>2
        <5>2. At(w, (p + 1) + (i - 4) - 1) = l[i - 4]
          BY <2>3, <2>5, <5>1, AtStands, Zenon
        <5> QED BY <2>2, <4>2, <5>1, <5>2
      <4> QED BY <4>1, <4>2
    <3> QED BY <3>1, <3>2
  <2>8. n = Natural(u)
    BY <1>1, <2>7, NaturalOf
  <2>9. FieldAt(w, p) = [tag |-> tag, ty |-> 7,
                         val |-> Cut(w, p + 1 + 4, p + 1 + 4 + n - 1), next |-> p + 1 + 4 + n]
    BY <2>6, <2>8, FieldLong
  <2>10. Cut(w, p + 5, p + 5 + n - 1) = s
    BY <1>1, <2>5, PartStands DEF n
  <2>11. p + 1 + 4 = p + 5 /\ p + 5 + n = p + (5 + n)
    BY <1>1
  <2>12. /\ FieldAt(w, p).tag = tag /\ FieldAt(w, p).ty # 11
         /\ FieldAt(w, p).val = s /\ FieldAt(w, p).next = p + (5 + n)
    BY <2>9, <2>10, <2>11
  <2> QED BY <2>1, <2>12, Zenon DEF Reads
<1> QED BY <1>3, <1>4

\* The parts of a byte field: head, type of its elements, length, bytes.
LEMMA BytesParts ==
  ASSUME NEW tag \in 0 .. 14, NEW d, IsText(d)
  PROVE  /\ to_be_bytes(Len(d), 8) \in ByteArray(8)
         /\ int32(0, Len(d)) = int64(0, to_be_bytes(Len(d), 8))
         /\ int32(0, Len(d)) \in Seq(Byte) /\ Len(int32(0, Len(d))) \in 1 .. 9
         /\ head(tag, 13) \o <<0>> \in Seq(Byte) /\ Len(head(tag, 13) \o <<0>>) = 2
         /\ (head(tag, 13) \o <<0>>) \o int32(0, Len(d)) \in Seq(Byte)
         /\ Len((head(tag, 13) \o <<0>>) \o int32(0, Len(d))) = 2 + Len(int32(0, Len(d)))
         /\ bytes(tag, d) = ((head(tag, 13) \o <<0>>) \o int32(0, Len(d))) \o d
         /\ bytes(tag, d) \in Seq(Byte)
         /\ Len(bytes(tag, d)) = (2 + Len(int32(0, Len(d)))) + Len(d)
<1> DEFINE h == head(tag, 13)
           z == <<0>>
           l == int32(0, Len(d))
<1>1. d \in Seq(Byte) /\ Len(d) \in Nat /\ Len(d) <= MaxLength
  BY DEF IsText
<1>2. to_be_bytes(Len(d), 8) \in ByteArray(8)
  BY <1>1, LengthRoundTrip
<1>3. l = int64(0, to_be_bytes(Len(d), 8))
  BY Zenon DEF int32
<1>4. 0 \in 0 .. 14 /\ 13 \in 0 .. 15 /\ 0 \in Byte /\ 2 = 1 + 1
  BY DEF Byte
<1>5. l \in Seq(Byte) /\ Len(l) \in 1 .. 9
  BY <1>2, <1>3, <1>4, IntShape
<1>6. h \in Seq(Byte) /\ Len(h) = 1
  BY <1>4, HeadIsByte
<1>7. z \in Seq(Byte) /\ Len(z) = 1
  BY <1>4
<1>8. bytes(tag, d) = ((h \o z) \o l) \o d
  BY Zenon DEF bytes
<1> HIDE DEF h, z, l
<1>9. h \o z \in Seq(Byte) /\ Len(h \o z) = 2
  BY <1>4, <1>6, <1>7, Joined, Zenon
<1>10. (h \o z) \o l \in Seq(Byte) /\ Len((h \o z) \o l) = 2 + Len(l)
  BY <1>5, <1>9, Joined, Zenon
<1>11. ((h \o z) \o l) \o d \in Seq(Byte) /\ Len(((h \o z) \o l) \o d) = (2 + Len(l)) + Len(d)
  BY <1>1, <1>10, Joined, Zenon
<1> QED BY <1>2, <1>3, <1>5, <1>8, <1>9, <1>10, <1>11, Zenon DEF h, z, l

LEMMA BytesRead ==
  ASSUME NEW w \in Seq(Byte), NEW p \in Nat, NEW tag \in 0 .. 14, NEW d, IsText(d), d # << >>,
         Stands(w, p, bytes(tag, d))
  PROVE  Reads(w, p, tag, d, Len(bytes(tag, d)))
<1> DEFINE n == Len(d)
           v == to_be_bytes(n, 8)
           h == head(tag, 13)
           z == <<0>>
           l == int32(0, n)
<1>1. d \in Seq(Byte) /\ n \in Nat /\ n <= MaxLength /\ n # 0
  BY DEF IsText
<1>2. /\ v \in ByteArray(8) /\ from_be_bytes(v) = n
  BY <1>1, LengthRoundTrip
<1>3. /\ l = int64(0, v) /\ l \in Seq(Byte) /\ Len(l) \in 1 .. 9
      /\ h \o z \in Seq(Byte) /\ Len(h \o z) = 2
      /\ (h \o z) \o l \in Seq(Byte) /\ Len((h \o z) \o l) = 2 + Len(l)
      /\ bytes(tag, d) = ((h \o z) \o l) \o d
      /\ Len(bytes(tag, d)) = (2 + Len(l)) + n
  BY BytesParts, Zenon
<1>4. 0 \in 0 .. 14 /\ 13 \in 0 .. 15 /\ 0 \in Byte
  BY DEF Byte
<1>5. h \in Seq(Byte) /\ Len(h) = 1
  BY <1>4, HeadIsByte
<1>6. z \in Seq(Byte) /\ Len(z) = 1
  BY <1>4
<1>7. v # Zeros(8)
  <2> SUFFICES ASSUME v = Zeros(8) PROVE FALSE
    OBVIOUS
  <2>1. v \in Seq(Byte) /\ Len(v) = 8
    BY <1>2, ArrayIsSeq
  <2>2. /\ v[1] = 0 /\ v[2] = 0 /\ v[3] = 0 /\ v[4] = 0
        /\ v[5] = 0 /\ v[6] = 0 /\ v[7] = 0 /\ v[8] = 0
    BY DEF Zeros
  <2> HIDE DEF v
  <2>3. from_be_bytes(v) = 256 * (256 * (256 * v[5] + v[6]) + v[7]) + v[8]
    <3>1. v[1] = 0 /\ v[2] = 0 /\ v[3] = 0 /\ v[4] = 0 =>
            from_be_bytes(v) = 256 * (256 * (256 * v[5] + v[6]) + v[7]) + v[8]
      BY <2>1, FromBytes, Zenon
    <3> QED BY <2>2, <3>1, Zenon
  <2> QED BY <1>1, <1>2, <2>2, <2>3
<1> HIDE DEF v, h, z, l
<1>8. /\ Stands(w, p, (h \o z) \o l) /\ Stands(w, p + (2 + Len(l)), d)
  <2>1. Stands(w, p, ((h \o z) \o l) \o d)
    BY <1>3
  <2> DEFINE a == (h \o z) \o l
  <2>2. a \in Seq(Byte) /\ Len(a) = 2 + Len(l) /\ Stands(w, p, a \o d)
    BY <1>3, <2>1
  <2> HIDE DEF a
  <2>3. Stands(w, p, a) /\ Stands(w, p + Len(a), d)
    BY <1>1, <2>2, StandsParts, Zenon
  <2> QED BY <2>2, <2>3, Zenon DEF a
<1>9. Stands(w, p, h \o z) /\ Stands(w, p + 2, l)
  BY <1>3, <1>8, StandsParts, Zenon
<1>10. Headed(w, p, tag, 13)
  <2>1. Stands(w, p, h)
    BY <1>5, <1>6, <1>9, StandsParts, Zenon
  <2> QED BY <1>4, <2>1, HeadRead, Zenon DEF h
<1>11. PICK t \in 0 .. 3 :
           /\ Fits(v, 2 ^ t) /\ 2 ^ t \in 1 .. 8
           /\ SubSeq(v, 9 - 2 ^ t, 8) \in Seq(Byte) /\ Len(SubSeq(v, 9 - 2 ^ t, 8)) = 2 ^ t
           /\ int64(0, v) = head(0, t) \o SubSeq(v, 9 - 2 ^ t, 8)
  BY <1>2, <1>4, <1>7, IntegerWritten, Zenon
<1> DEFINE m == 2 ^ t
           s == SubSeq(v, 9 - m, 8)
           k == head(0, t)
<1>12. k = <<t>> /\ k \in Seq(Byte) /\ Len(k) = 1 /\ k[1] = t
  <2>1. t \in 0 .. 15 /\ 16 * 0 + t = t
    OBVIOUS
  <2>2. k = <<16 * 0 + t>> /\ k \in Seq(Byte) /\ Len(k) = 1
    BY <1>4, <2>1, HeadIsByte, Zenon
  <2> QED BY <2>1, <2>2
<1>13. /\ s \in Seq(Byte) /\ Len(s) = m /\ m \in 1 .. 8 /\ l = k \o s
       /\ Fits(v, m)
  BY <1>3, <1>11
<1>14. Stands(w, p + 2, k) /\ Stands(w, p + 3, s) /\ Len(l) = 1 + m
  <2> HIDE DEF k, s, m
  <2>1. p + 2 \in Nat /\ (p + 2) + 1 = p + 3
    OBVIOUS
  <2>2. Stands(w, p + 2, k \o s)
    BY <1>9, <1>13
  <2>3. Stands(w, p + 2, k) /\ Stands(w, (p + 2) + Len(k), s)
    BY <1>12, <1>13, <2>1, <2>2, StandsParts, Zenon
  <2>4. Len(k \o s) = Len(k) + Len(s)
    BY <1>12, <1>13, Joined, Zenon
  <2> QED BY <1>12, <1>13, <2>1, <2>3, <2>4, Zenon
<1>15. At(w, p + 2) = t
  <2>1. 1 \in 1 .. Len(k) /\ (p + 2) + 1 - 1 = p + 2 /\ p + 2 \in Nat
    BY <1>12
  <2>2. At(w, (p + 2) + 1 - 1) = k[1]
    <3> HIDE DEF k
    <3> QED BY <1>12, <1>14, <2>1, AtStands, Zenon
  <2> QED BY <1>12, <2>1, <2>2, Zenon
<1>16. Integer(w, p + 3, t) = v
  <2>1. p + 3 \in Nat
    OBVIOUS
  <2>2. Fits(v, 2 ^ t) /\ Stands(w, p + 3, SubSeq(v, 9 - 2 ^ t, 8))
    BY <1>11, <1>14, Zenon
  <2> QED BY <1>2, <2>1, <2>2, IntegerRead, Zenon
<1> DEFINE q == p + 3 + m
<1>17. /\ FieldAt(w, p).tag = tag /\ FieldAt(w, p).ty = 13
       /\ FieldAt(w, p).val = Cut(w, q, q + n - 1) /\ FieldAt(w, p).next = q + n
  <2>1. t = At(w, p + 1 + 1) % 16
    <3>1. p + 1 + 1 = p + 2 /\ t % 16 = t
      OBVIOUS
    <3> QED BY <1>15, <3>1, Zenon
  <2>2. q = IF t = 12 THEN p + 1 + 2 ELSE p + 1 + 2 + 2 ^ t
    <3>1. t # 12 /\ p + 1 + 2 = p + 3
      OBVIOUS
    <3> QED BY <3>1, Zenon
  <2>3. n = Natural(Integer(w, p + 1 + 2, t))
    <3>1. p + 1 + 2 = p + 3
      OBVIOUS
    <3>2. Natural(v) = n
      BY <1>1, NaturalOf DEF v
    <3> QED BY <1>16, <3>1, <3>2, Zenon
  <2>4. ListOf(w, p, tag, t, n, q)
    BY <1>10, <2>1, <2>2, <2>3, Zenon DEF ListOf
  <2> HIDE DEF q, n
  <2> QED BY <2>4, FieldList
<1>18. Stands(w, q, d) /\ q + n = p + Len(bytes(tag, d))
  <2> HIDE DEF m, n
  <2>1. p + (2 + (1 + m)) = p + 3 + m /\ p + 3 + m + n = p + ((2 + (1 + m)) + n)
    BY <1>1, <1>13
  <2>2. Len(l) = 1 + m /\ Len(bytes(tag, d)) = (2 + Len(l)) + n
    BY <1>3, <1>14
  <2> QED BY <1>8, <2>1, <2>2, Zenon
<1>19. Cut(w, q, q + n - 1) = d
  <2>1. q \in Nat
    BY <1>13
  <2> HIDE DEF q
  <2> QED BY <1>1, <1>18, <2>1, PartStands, Zenon
<1> HIDE DEF q, n
<1>20. FieldAt(w, p).tag = tag /\ FieldAt(w, p).ty # 11 /\ FieldAt(w, p).val = d
       /\ FieldAt(w, p).next = q + n
  BY <1>17, <1>19
<1> QED BY <1>18, <1>20, Zenon DEF Reads

----------------------------------------------------------------------------
(***************************************************************************)
(* The fields of a string of bytes.  Every field is longer than nothing,   *)
(* so the reading ends.                                                    *)
(***************************************************************************)
LEMMA AtIsByte ==
  ASSUME NEW w \in Seq(Byte), NEW p \in Nat \ {0}
  PROVE  At(w, p) \in Byte /\ At(w, p) \in Nat
<1>1. CASE p <= Len(w)
  <2>1. w[p] \in Byte
    BY <1>1
  <2> QED BY <1>1, <2>1, ByteIsNat DEF At
<1>2. CASE ~(p <= Len(w))
  <2>1. At(w, p) = 0
    BY <1>2, Zenon DEF At
  <2>2. 0 \in Byte
    BY DEF Byte
  <2> QED BY <2>1, <2>2
<1> QED BY <1>1, <1>2

LEMMA PowerIsNat ==
  ASSUME NEW t \in 0 .. 15
  PROVE  2 ^ t \in Nat
<1>1. t = 0 \/ t = 1 \/ t = 2 \/ t = 3 \/ t = 4 \/ t = 5 \/ t = 6 \/ t = 7 \/ t = 8
      \/ t = 9 \/ t = 10 \/ t = 11 \/ t = 12 \/ t = 13 \/ t = 14 \/ t = 15
  OBVIOUS
<1>2. /\ 2 ^ 0 \in Nat /\ 2 ^ 1 \in Nat /\ 2 ^ 2 \in Nat /\ 2 ^ 3 \in Nat
      /\ 2 ^ 4 \in Nat /\ 2 ^ 5 \in Nat /\ 2 ^ 6 \in Nat /\ 2 ^ 7 \in Nat
      /\ 2 ^ 8 \in Nat /\ 2 ^ 9 \in Nat /\ 2 ^ 10 \in Nat /\ 2 ^ 11 \in Nat
      /\ 2 ^ 12 \in Nat /\ 2 ^ 13 \in Nat /\ 2 ^ 14 \in Nat /\ 2 ^ 15 \in Nat
  BY SMT
<1> QED BY <1>1, <1>2, Zenon

LEMMA IntegerType ==
  ASSUME NEW w \in Seq(Byte), NEW p \in Nat \ {0}, NEW t \in 0 .. 15
  PROVE  Integer(w, p, t) \in ByteArray(8)
<1> DEFINE n == 2 ^ t
           b == Cut(w, p, p + n - 1)
<1>1. 0 \in Byte /\ 255 \in Byte
  BY DEF Byte
<1>2. CASE t > 3 \/ Len(b) < n
  <2>1. Integer(w, p, t) = Zeros(8)
    BY <1>2, Zenon DEF Integer
  <2>2. Zeros(8) \in ByteArray(8)
    BY <1>1 DEF Zeros, ByteArray
  <2> QED BY <2>1, <2>2
<1>3. CASE ~(t > 3 \/ Len(b) < n)
  <2>1. Integer(w, p, t) = [i \in 1 .. 8 |-> IF i > 8 - n THEN b[i - 8 + n]
                                            ELSE IF b[1] >= 128 THEN 255 ELSE 0]
    BY <1>3, Zenon DEF Integer
  <2>2. n \in {1, 2, 4, 8}
    <3>1. t = 0 \/ t = 1 \/ t = 2 \/ t = 3
      BY <1>3
    <3>2. 2 ^ 0 = 1 /\ 2 ^ 1 = 2 /\ 2 ^ 2 = 4 /\ 2 ^ 3 = 8
      BY SMT
    <3> QED BY <3>1, <3>2
  <2> HIDE DEF n
  <2> DEFINE to == IF p + n - 1 <= Len(w) THEN p + n - 1 ELSE Len(w)
  <2>3. to \in Int /\ p \in Int /\ b = SubSeq(w, p, to) /\ \A i \in p .. to : w[i] \in Byte
    BY <2>2 DEF Cut
  <2>4. b \in Seq(Byte)
    <3> HIDE DEF to, b
    <3>1. SubSeq(w, p, to) \in Seq(Byte)
      BY <2>3, SubSeqProperties, Zenon
    <3> QED BY <2>3, <3>1, Zenon
  <2> HIDE DEF b
  <2>5. ASSUME NEW i \in 1 .. 8
        PROVE  (IF i > 8 - n THEN b[i - 8 + n] ELSE IF b[1] >= 128 THEN 255 ELSE 0) \in Byte
    <3>1. CASE i > 8 - n
      <4>1. i - 8 + n \in 1 .. Len(b)
        BY <1>3, <2>2, <2>4, <3>1
      <4>2. b[i - 8 + n] \in Byte
        BY <2>4, <4>1
      <4> QED BY <3>1, <4>2
    <3>2. CASE ~(i > 8 - n)
      BY <1>1, <3>2
    <3> QED BY <3>1, <3>2
  <2> QED BY <2>1, <2>5 DEF ByteArray
<1> QED BY <1>2, <1>3

LEMMA NaturalType ==
  ASSUME NEW v \in ByteArray(8)
  PROVE  Natural(v) \in Nat
<1>1. v \in Seq(Byte) /\ Len(v) = 8
  BY ArrayIsSeq
<1>2. from_be_bytes(v) \in Nat
  BY <1>1, FromBytes
<1> QED BY <1>2 DEF Natural

\* The next field stands behind this one.
LEMMA NextIsBehind ==
  ASSUME NEW w \in Seq(Byte), NEW p \in Nat \ {0}
  PROVE  FieldAt(w, p).next \in Nat /\ FieldAt(w, p).next > p
<1> DEFINE b   == At(w, p)
           ty  == b % 16
           q   == IF b >= 240 THEN p + 2 ELSE p + 1
           t   == At(w, q + 1) % 16
           m   == Natural([i \in 1 .. 8 |-> IF i <= 4 THEN 0 ELSE At(w, q + i - 5)])
           n   == Natural(Integer(w, q + 2, t))
           l   == At(w, q)
<1>1. q \in Nat \ {0} /\ q > p
  OBVIOUS
<1>2. ty \in 0 .. 15
  <2>1. b \in Nat
    BY AtIsByte
  <2> QED BY <2>1, SMTT(30)
<1>3. l \in Nat
  <2> HIDE DEF q
  <2> QED BY <1>1, AtIsByte
<1>4. t \in 0 .. 15
  <2> HIDE DEF q
  <2>1. q + 1 \in Nat \ {0}
    BY <1>1
  <2>2. At(w, q + 1) \in Nat
    BY <2>1, AtIsByte
  <2> QED BY <2>2
<1>5. m \in Nat
  <2> DEFINE u == [i \in 1 .. 8 |-> IF i <= 4 THEN 0 ELSE At(w, q + i - 5)]
  <2> HIDE DEF q
  <2>1. ASSUME NEW i \in 1 .. 8 PROVE (IF i <= 4 THEN 0 ELSE At(w, q + i - 5)) \in Byte
    <3>1. 0 \in Byte
      BY DEF Byte
    <3>2. ~(i <= 4) => q + i - 5 \in Nat \ {0}
      BY <1>1
    <3>3. ~(i <= 4) => At(w, q + i - 5) \in Byte
      BY <3>2, AtIsByte
    <3> QED BY <3>1, <3>3
  <2>2. u \in ByteArray(8)
    BY <2>1 DEF ByteArray
  <2> HIDE DEF u
  <2>3. Natural(u) \in Nat
    BY <2>2, NaturalType
  <2> QED BY <2>3 DEF u
<1>6. n \in Nat
  <2> HIDE DEF q, t
  <2>1. q + 2 \in Nat \ {0}
    BY <1>1
  <2>2. Integer(w, q + 2, t) \in ByteArray(8)
    BY <1>4, <2>1, IntegerType
  <2> QED BY <2>2, NaturalType
<1>7. 2 ^ ty \in Nat /\ 2 ^ t \in Nat
  <2> HIDE DEF ty, t
  <2> QED BY <1>2, <1>4, PowerIsNat
<1>8. FieldAt(w, p).next \in {q, q + 2 ^ ty, q + 1 + l, q + 4 + m, q + 2 + n, q + 2 + 2 ^ t + n}
  BY SMTT(60) DEF FieldAt
<1> HIDE DEF q, ty, t, m, n, l
<1> QED BY <1>1, <1>3, <1>5, <1>6, <1>7, <1>8, SMTT(30)

\* The fields from every position on.
Parses(f, w) ==
  f = [p \in 1 .. Len(w) |-> IF FieldAt(w, p).next > Len(w) THEN <<FieldAt(w, p)>>
                             ELSE <<FieldAt(w, p)>> \o f[FieldAt(w, p).next]]

LEMMA FieldsEquation ==
  ASSUME NEW w \in Seq(Byte), w # << >>
  PROVE  \E f : Parses(f, w) /\ Fields(w) = f[1]
<1> DEFINE n == Len(w)
           x(p) == FieldAt(w, p)
           e(g, p) == IF x(p).next > n THEN <<x(p)>> ELSE <<x(p)>> \o g[x(p).next]
           P(g, m) == g = [p \in n + 1 - m .. n |-> e(g, p)]
           S == {m \in Nat : m <= n => \E g : P(g, m)}
<1>1. n \in Nat \ {0}
  OBVIOUS
<1>2. \A p \in 1 .. n : x(p).next \in Nat /\ x(p).next > p
  BY NextIsBehind
<1> HIDE DEF n, x
<1>3. 0 \in S
  <2>1. P([p \in n + 1 - 0 .. n |-> 0], 0)
    <3>1. n + 1 - 0 .. n = {}
      BY <1>1
    <3> QED BY <3>1
  <2> QED BY <2>1
<1>4. ASSUME NEW m \in Nat, m \in S PROVE m + 1 \in S
  <2> SUFFICES ASSUME m + 1 <= n PROVE \E g : P(g, m + 1)
    OBVIOUS
  <2>1. PICK g : P(g, m)
    BY <1>1, <1>4
  <2>2. \A p \in n + 1 - m .. n : g[p] = e(g, p)
    BY <2>1
  <2> DEFINE q == n + 1 - (m + 1)
             top == e(g, q)
             h == [p \in q .. n |-> IF p = q THEN top ELSE g[p]]
  <2>3. q \in Nat \ {0} /\ q + 1 = n + 1 - m /\ q <= n
    BY <1>1
  <2> HIDE DEF q, top
  <2>4. ASSUME NEW p \in q .. n PROVE h[p] = e(h, p)
    <3>1. p \in 1 .. n
      BY <1>1, <2>3
    <3>2. x(p).next \in Nat /\ x(p).next > p
      BY <1>2, <3>1
    <3>3. ~(x(p).next > n) => h[x(p).next] = g[x(p).next]
      <4> SUFFICES ASSUME ~(x(p).next > n) PROVE h[x(p).next] = g[x(p).next]
        OBVIOUS
      <4>1. x(p).next \in q .. n /\ x(p).next # q
        BY <1>1, <2>3, <3>1, <3>2
      <4> QED BY <4>1
    <3>4. e(h, p) = e(g, p)
      <4>1. CASE x(p).next > n
        BY <4>1
      <4>2. CASE ~(x(p).next > n)
        <5>1. h[x(p).next] = g[x(p).next]
          BY <3>3, <4>2
        <5> HIDE DEF h
        <5> QED BY <4>2, <5>1
      <4> QED BY <4>1, <4>2
    <3>5. CASE p = q
      <4>1. h[p] = top
        BY <3>5
      <4> QED BY <3>4, <3>5, <4>1, Zenon DEF top
    <3>6. CASE p # q
      <4>1. h[p] = g[p] /\ p \in n + 1 - m .. n
        BY <1>1, <2>3, <3>6
      <4> QED BY <2>2, <3>4, <4>1, Zenon
    <3> QED BY <3>5, <3>6
  <2>5. h = [p \in q .. n |-> h[p]]
    OBVIOUS
  <2> HIDE DEF h
  <2>6. h = [p \in q .. n |-> e(h, p)]
    BY <2>4, <2>5
  <2>7. P(h, m + 1)
    BY <2>6, Zenon DEF q
  <2> QED BY <2>7
<1>5. \E g : P(g, n)
  <2> HIDE DEF P
  <2>1. n \in Nat /\ n <= n
    BY <1>1
  <2>2. n \in S
    <3> HIDE DEF S
    <3> QED BY <1>3, <1>4, <2>1, FromZero
  <2> QED BY <2>1, <2>2, Zenon
<1> DEFINE Q(g) == g = [p \in 1 .. n |-> e(g, p)]
           f == CHOOSE g : Q(g)
<1>6. \E g : Q(g)
  <2>1. n + 1 - n = 1
    BY <1>1
  <2> QED BY <1>5, <2>1
<1>7. Q(f)
  BY <1>6, Zenon
<1>8. Fields(w) = f[1]
  BY Zenon DEF Fields, n, x
<1>9. Parses(f, w)
  <2> HIDE DEF f
  <2> QED BY <1>7, Zenon DEF Parses, n, x
<1> QED BY <1>8, <1>9

\* One more field in front.
LEMMA InFront ==
  ASSUME NEW x, NEW m \in Nat, NEW s, s = [k \in 1 .. m |-> s[k]]
  PROVE  <<x>> \o s = [k \in 1 .. m + 1 |-> IF k = 1 THEN x ELSE s[k - 1]]
<1> DEFINE T == {x} \cup {s[k] : k \in 1 .. m}
           t == <<x>> \o s
           u == [k \in 1 .. m + 1 |-> IF k = 1 THEN x ELSE s[k - 1]]
<1>1. x \in T /\ \A k \in 1 .. m : s[k] \in T
  OBVIOUS
<1> HIDE DEF T
<1>2. s \in [1 .. m -> T]
  BY <1>1
<1>3. s \in Seq(T) /\ Len(s) = m
  BY <1>2
<1>4. <<x>> \in Seq(T) /\ Len(<<x>>) = 1 /\ <<x>>[1] = x
  BY <1>1
<1>5. t \in Seq(T) /\ Len(t) = m + 1
  <2> DEFINE a == <<x>>
  <2>1. a \in Seq(T) /\ Len(a) = 1
    BY <1>4
  <2> HIDE DEF a
  <2>2. a \o s \in Seq(T) /\ Len(a \o s) = Len(a) + Len(s)
    BY <1>3, <2>1, ConcatProperties
  <2>3. Len(a) + Len(s) = m + 1
    BY <1>3, <2>1
  <2> QED BY <2>2, <2>3 DEF a
<1>6. \A k \in 1 .. m + 1 : t[k] = IF k = 1 THEN x ELSE s[k - 1]
  <2> DEFINE a == <<x>>
  <2>1. a \in Seq(T) /\ Len(a) = 1 /\ a[1] = x
    BY <1>4
  <2> HIDE DEF a
  <2>2. \A k \in 1 .. Len(a) + Len(s) : (a \o s)[k] = IF k <= Len(a) THEN a[k] ELSE s[k - Len(a)]
    BY <1>3, <2>1, ConcatProperties
  <2>3. ASSUME NEW k \in 1 .. m + 1 PROVE (a \o s)[k] = IF k = 1 THEN x ELSE s[k - 1]
    <3>1. k \in 1 .. Len(a) + Len(s)
      BY <1>3, <2>1
    <3>2. (a \o s)[k] = IF k <= Len(a) THEN a[k] ELSE s[k - Len(a)]
      BY <2>2, <3>1, Zenon
    <3>3. k <= 1 <=> k = 1
      OBVIOUS
    <3>4. (a \o s)[k] = IF k = 1 THEN a[k] ELSE s[k - 1]
      BY <2>1, <3>2, <3>3, Zenon
    <3>5. CASE k = 1
      BY <2>1, <3>4, <3>5, Zenon
    <3>6. CASE k # 1
      BY <3>4, <3>6, Zenon
    <3> QED BY <3>5, <3>6
  <2> QED BY <2>3 DEF a
<1>7. t = [k \in 1 .. m + 1 |-> t[k]]
  <2> HIDE DEF t
  <2>1. t \in [1 .. Len(t) -> T]
    BY <1>5, LenProperties, Zenon
  <2> QED BY <1>5, <2>1
<1> HIDE DEF t
<1> QED BY <1>6, <1>7 DEF t

\* A path: the positions of n fields, one behind the other, that fill w.
Path(w, pos, n) ==
  /\ n \in Nat \ {0} /\ pos[1] = 1
  /\ \A k \in 1 .. n : pos[k] \in 1 .. Len(w)
  /\ \A k \in 1 .. n - 1 : FieldAt(w, pos[k]).next = pos[k + 1]
  /\ FieldAt(w, pos[n]).next > Len(w)

LEMMA FieldsOnPath ==
  ASSUME NEW w \in Seq(Byte), NEW pos, NEW n, Path(w, pos, n)
  PROVE  Fields(w) = [k \in 1 .. n |-> FieldAt(w, pos[k])]
<1> DEFINE x(k) == FieldAt(w, pos[k])
<1>1. n \in Nat \ {0} /\ w # << >> /\ pos[1] = 1
  BY DEF Path
<1>2. PICK f : Parses(f, w) /\ Fields(w) = f[1]
  BY <1>1, FieldsEquation
<1>3. \A p \in 1 .. Len(w) : f[p] = IF FieldAt(w, p).next > Len(w) THEN <<FieldAt(w, p)>>
                             ELSE <<FieldAt(w, p)>> \o f[FieldAt(w, p).next]
  BY <1>2 DEF Parses
<1>4. f[pos[n]] = <<x(n)>>
  <2>1. n \in 1 .. n
    BY <1>1
  <2>2. pos[n] \in 1 .. Len(w) /\ FieldAt(w, pos[n]).next > Len(w)
    BY <2>1, Zenon DEF Path
  <2> QED BY <1>3, <2>2, Zenon
<1>5. \A k \in 1 .. n - 1 : f[pos[k]] = <<x(k)>> \o f[pos[k + 1]]
  <2> SUFFICES ASSUME NEW k \in 1 .. n - 1 PROVE f[pos[k]] = <<x(k)>> \o f[pos[k + 1]]
    OBVIOUS
  <2>1. k \in 1 .. n /\ k + 1 \in 1 .. n
    BY <1>1
  <2>2. pos[k] \in 1 .. Len(w) /\ pos[k + 1] \in 1 .. Len(w) /\ FieldAt(w, pos[k]).next = pos[k + 1]
    BY <2>1 DEF Path
  <2>3. ~(pos[k + 1] > Len(w))
    BY <2>2
  <2> QED BY <1>3, <2>2, <2>3
<1> HIDE DEF x
<1> DEFINE From(m) == f[pos[n - m]] = [k \in 1 .. m + 1 |-> x(n - m + k - 1)]
           S == {m \in Nat : m < n => From(m)}
<1>6. 0 \in S
  <2>1. n - 0 = n
    BY <1>1
  <2>2. <<x(n)>> = [k \in 1 .. 0 + 1 |-> x(n - 0 + k - 1)]
    <3>1. \A k \in 1 .. 0 + 1 : k = 1 /\ n - 0 + k - 1 = n
      BY <1>1
    <3>2. [k \in 1 .. 0 + 1 |-> x(n - 0 + k - 1)] = [k \in 1 .. 0 + 1 |-> x(n)]
      BY <3>1
    <3>3. <<x(n)>> = [k \in 1 .. 0 + 1 |-> x(n)]
      OBVIOUS
    <3> QED BY <3>2, <3>3, Zenon
  <2>3. From(0)
    BY <1>4, <2>1, <2>2
  <2> QED BY <2>3
<1>7. ASSUME NEW m \in Nat, m \in S PROVE m + 1 \in S
  <2> SUFFICES ASSUME m + 1 < n PROVE From(m + 1)
    OBVIOUS
  <2> DEFINE q == n - (m + 1)
             s == f[pos[n - m]]
  <2>1. q \in 1 .. n - 1 /\ q + 1 = n - m /\ m < n
    BY <1>1
  <2>2. s = [k \in 1 .. m + 1 |-> x(n - m + k - 1)]
    BY <1>7, <2>1
  <2>3. f[pos[q]] = <<x(q)>> \o s
    BY <1>5, <2>1
  <2>4. \A k \in 1 .. m + 1 : s[k] = x(n - m + k - 1)
    BY <2>2
  <2>5. s = [k \in 1 .. m + 1 |-> s[k]]
    BY <2>2
  <2> HIDE DEF q, s
  <2>6. m + 1 \in Nat
    OBVIOUS
  <2>7. <<x(q)>> \o s = [k \in 1 .. (m + 1) + 1 |-> IF k = 1 THEN x(q) ELSE s[k - 1]]
    <3> DEFINE y == x(q)
    <3> HIDE DEF y
    <3>1. <<y>> \o s = [k \in 1 .. (m + 1) + 1 |-> IF k = 1 THEN y ELSE s[k - 1]]
      BY <2>5, <2>6, InFront
    <3> QED BY <3>1 DEF y
  <2>8. ASSUME NEW k \in 1 .. (m + 1) + 1
        PROVE  (IF k = 1 THEN x(q) ELSE s[k - 1]) = x(n - (m + 1) + k - 1)
    <3>1. CASE k = 1
      <4>1. n - (m + 1) + k - 1 = q
        BY <1>1, <3>1 DEF q
      <4> QED BY <3>1, <4>1
    <3>2. CASE k # 1
      <4>1. k - 1 \in 1 .. m + 1 /\ n - m + (k - 1) - 1 = n - (m + 1) + k - 1
        BY <1>1, <3>2
      <4> QED BY <2>4, <3>2, <4>1
    <3> QED BY <3>1, <3>2
  <2>9. f[pos[q]] = [k \in 1 .. (m + 1) + 1 |-> x(n - (m + 1) + k - 1)]
    BY <2>3, <2>7, <2>8
  <2> QED BY <2>9, Zenon DEF q
<1>8. From(n - 1)
  <2>1. n - 1 \in Nat /\ n - 1 < n
    BY <1>1
  <2> HIDE DEF From
  <2>2. n - 1 \in S
    <3> HIDE DEF S
    <3> QED BY <1>6, <1>7, <2>1, FromZero
  <2> QED BY <2>1, <2>2
<1>9. n - (n - 1) = 1 /\ (n - 1) + 1 = n
  BY <1>1
<1>10. f[1] = [k \in 1 .. n |-> x(1 + k - 1)]
  BY <1>1, <1>8, <1>9, Zenon
<1>11. \A k \in 1 .. n : 1 + k - 1 = k
  BY <1>1
<1>12. [k \in 1 .. n |-> x(1 + k - 1)] = [k \in 1 .. n |-> x(k)]
  BY <1>11, Zenon
<1> QED BY <1>2, <1>10, <1>12, Zenon DEF x

----------------------------------------------------------------------------
\* The n fields before the position p of w are those of F.
Before(w, F, n, p) ==
  /\ n \in Nat /\ p \in Nat
  /\ \E pos : /\ pos[1] = 1 /\ pos[n + 1] = p
              /\ \A k \in 1 .. n : /\ pos[k] \in 1 .. Len(w)
                                   /\ FieldAt(w, pos[k]).next = pos[k + 1]
                                   /\ F[k] = FieldAt(w, pos[k])

\* One more field behind n others.
Grown(F, n, x) == [k \in 1 .. n + 1 |-> IF k = n + 1 THEN x ELSE F[k]]

LEMMA NoneBefore ==
  ASSUME NEW w, NEW F
  PROVE  Before(w, F, 0, 1)
<1> DEFINE pos == [k \in {1} |-> 1]
<1>1. pos[1] = 1 /\ 0 + 1 = 1 /\ 1 .. 0 = {}
  OBVIOUS
<1> HIDE DEF pos
<1>2. pos[0 + 1] = 1
  BY <1>1
<1> QED BY <1>1, <1>2 DEF Before

LEMMA OneMore ==
  ASSUME NEW w \in Seq(Byte), NEW F, NEW n, NEW p, Before(w, F, n, p), p <= Len(w)
  PROVE  Before(w, Grown(F, n, FieldAt(w, p)), n + 1, FieldAt(w, p).next)
<1> DEFINE q == FieldAt(w, p).next
           G == Grown(F, n, FieldAt(w, p))
<1>1. PICK pos : /\ pos[1] = 1 /\ pos[n + 1] = p
                 /\ \A k \in 1 .. n : /\ pos[k] \in 1 .. Len(w)
                                      /\ FieldAt(w, pos[k]).next = pos[k + 1]
                                      /\ F[k] = FieldAt(w, pos[k])
  BY Zenon DEF Before
<1>2. n \in Nat /\ p \in Nat
  BY DEF Before
<1>3. p # 0
  <2>1. CASE n = 0
    BY <1>1, <2>1
  <2>2. CASE n # 0
    <3>1. n \in 1 .. n
      BY <1>2, <2>2
    <3>2. pos[n] \in Nat \ {0} /\ FieldAt(w, pos[n]).next = p
      BY <1>1, <3>1
    <3> QED BY <3>2, NextIsBehind
  <2> QED BY <2>1, <2>2
<1>4. q \in Nat
  BY <1>2, <1>3, NextIsBehind
<1> DEFINE pos2 == [k \in 1 .. n + 2 |-> IF k = n + 2 THEN q ELSE pos[k]]
<1>5. pos2[1] = 1 /\ pos2[n + 2] = q
  BY <1>1, <1>2
<1>6. \A k \in 1 .. n + 1 : pos2[k] = pos[k]
  BY <1>2
<1>7. (n + 1) + 1 = n + 2 /\ n + 1 \in Nat /\ n + 1 \in 1 .. n + 1
  BY <1>2
<1>8. \A k \in 1 .. n + 1 : G[k] = IF k = n + 1 THEN FieldAt(w, p) ELSE F[k]
  BY DEF Grown
<1> HIDE DEF pos2, G, q
<1>9. ASSUME NEW k \in 1 .. n + 1
      PROVE  /\ pos2[k] \in 1 .. Len(w)
             /\ FieldAt(w, pos2[k]).next = pos2[k + 1]
             /\ G[k] = FieldAt(w, pos2[k])
  <2>1. CASE k = n + 1
    <3>1. pos2[k] = p /\ pos2[k + 1] = q
      BY <1>1, <1>5, <1>6, <1>7, <2>1
    <3>2. p \in 1 .. Len(w)
      BY <1>2, <1>3
    <3>3. G[k] = FieldAt(w, p)
      BY <1>8, <2>1
    <3> QED BY <3>1, <3>2, <3>3 DEF q
  <2>2. CASE k # n + 1
    <3>1. k \in 1 .. n /\ k + 1 \in 1 .. n + 1
      BY <1>2, <2>2
    <3>2. pos2[k] = pos[k] /\ pos2[k + 1] = pos[k + 1] /\ G[k] = F[k]
      BY <1>6, <1>8, <2>2, <3>1, Zenon
    <3> QED BY <1>1, <3>1, <3>2, Zenon
  <2> QED BY <2>1, <2>2
<1>10. pos2[(n + 1) + 1] = q
  BY <1>5, <1>7
<1>11. \E ps : /\ ps[1] = 1 /\ ps[(n + 1) + 1] = q
               /\ \A k \in 1 .. n + 1 : /\ ps[k] \in 1 .. Len(w)
                                        /\ FieldAt(w, ps[k]).next = ps[k + 1]
                                        /\ G[k] = FieldAt(w, ps[k])
  BY <1>5, <1>9, <1>10, Zenon
<1> QED BY <1>4, <1>7, <1>11, Zenon DEF Before, G, q

LEMMA AllBefore ==
  ASSUME NEW w \in Seq(Byte), NEW F, NEW n, NEW p, Before(w, F, n, p), n # 0, p > Len(w)
  PROVE  Fields(w) = [k \in 1 .. n |-> F[k]]
<1>1. PICK pos : /\ pos[1] = 1 /\ pos[n + 1] = p
                 /\ \A k \in 1 .. n : /\ pos[k] \in 1 .. Len(w)
                                      /\ FieldAt(w, pos[k]).next = pos[k + 1]
                                      /\ F[k] = FieldAt(w, pos[k])
  BY Zenon DEF Before
<1>2. n \in Nat \ {0} /\ n \in 1 .. n /\ \A k \in 1 .. n - 1 : k \in 1 .. n
  BY DEF Before
<1>3. Path(w, pos, n)
  <2>1. FieldAt(w, pos[n]).next > Len(w)
    BY <1>1, <1>2
  <2>2. \A k \in 1 .. n - 1 : FieldAt(w, pos[k]).next = pos[k + 1]
    BY <1>1, <1>2, Zenon
  <2>3. \A k \in 1 .. n : pos[k] \in 1 .. Len(w)
    BY <1>1, Zenon
  <2> QED BY <1>1, <1>2, <2>1, <2>2, <2>3, Zenon DEF Path
<1>4. Fields(w) = [k \in 1 .. n |-> FieldAt(w, pos[k])]
  BY <1>3, FieldsOnPath
<1>5. [k \in 1 .. n |-> FieldAt(w, pos[k])] = [k \in 1 .. n |-> F[k]]
  BY <1>1, Zenon
<1> QED BY <1>4, <1>5, Zenon

\* The fields from .. to have the tags D, and v has the value of each.
Tagged(F, from, to, D, v) ==
  /\ \A k \in from .. to : F[k].tag \in D /\ F[k].val = v[F[k].tag] /\ F[k].ty # 11
  /\ \A t \in D : \E k \in from .. to : F[k].tag = t

LEMMA TaggedGrown ==
  ASSUME NEW F, NEW n \in Nat, NEW from \in 1 .. n + 1, NEW D, NEW v, Tagged(F, from, n, D, v),
         NEW x, x.val = v[x.tag], x.ty # 11
  PROVE  Tagged(Grown(F, n, x), from, n + 1, D \cup {x.tag}, v)
<1> DEFINE G == Grown(F, n, x)
<1>1. \A k \in 1 .. n + 1 : G[k] = IF k = n + 1 THEN x ELSE F[k]
  BY DEF Grown
<1>2. from .. n + 1 = (from .. n) \cup {n + 1} /\ \A k \in from .. n : k \in 1 .. n + 1 /\ k # n + 1
  OBVIOUS
<1>3. n + 1 \in 1 .. n + 1
  OBVIOUS
<1> HIDE DEF G
<1>4. G[n + 1] = x /\ \A k \in from .. n : G[k] = F[k]
  BY <1>1, <1>2, <1>3, Zenon
<1>5. ASSUME NEW k \in from .. n + 1
      PROVE  G[k].tag \in D \cup {x.tag} /\ G[k].val = v[G[k].tag] /\ G[k].ty # 11
  <2>1. CASE k = n + 1
    BY <1>4, <2>1, Zenon
  <2>2. CASE k \in from .. n
    BY <1>4, <2>2, ZenonT(60) DEF Tagged
  <2> QED BY <1>2, <2>1, <2>2, Zenon
<1>6. ASSUME NEW t \in D \cup {x.tag} PROVE \E k \in from .. n + 1 : G[k].tag = t
  <2>1. CASE t = x.tag
    BY <1>2, <1>4, <2>1, Zenon
  <2>2. CASE t \in D
    <3>1. PICK k \in from .. n : F[k].tag = t
      BY <2>2, Zenon DEF Tagged
    <3> QED BY <1>2, <1>4, <3>1, Zenon
  <2> QED BY <2>1, <2>2, Zenon
<1>7. Tagged(G, from, n + 1, D \cup {x.tag}, v)
  BY <1>5, <1>6, Zenon DEF Tagged
<1> QED BY <1>7 DEF G

LEMMA TaggedSame ==
  ASSUME NEW F, NEW G, NEW from, NEW to, NEW D, NEW v, Tagged(F, from, to, D, v),
         \A k \in from .. to : G[k] = F[k]
  PROVE  Tagged(G, from, to, D, v)
BY Zenon DEF Tagged

LEMMA TaggedKept ==
  ASSUME NEW F, NEW n \in Nat, NEW from \in Nat \ {0}, NEW to \in 0 .. n, NEW D, NEW v,
         Tagged(F, from, to, D, v), NEW x
  PROVE  Tagged(Grown(F, n, x), from, to, D, v)
<1>1. ASSUME NEW k \in from .. to PROVE Grown(F, n, x)[k] = F[k]
  <2>1. k \in 1 .. n + 1 /\ k # n + 1
    OBVIOUS
  <2> QED BY <2>1 DEF Grown
<1> QED BY <1>1, TaggedSame, Zenon

----------------------------------------------------------------------------
\* p is within the struct of the transaction, or behind it.
Inside(w, p, D, v) ==
  \E F : \E n \in Nat \ {0} : Before(w, F, n, p) /\ F[1].ty # 11 /\ Tagged(F, 2, n, D, v)

Behind(w, p, D, v, E, u) ==
  \E F : \E n \in Nat : \E e \in 2 .. n :
    /\ Before(w, F, n, p) /\ F[1].ty # 11 /\ F[e].ty = 11
    /\ Tagged(F, 2, e - 1, D, v) /\ Tagged(F, e + 1, n, E, u)

\* s stands in w from p to q.
Spans(w, p, s, q) == p \in Nat /\ Stands(w, p, s) /\ q = p + Len(s)

LEMMA SpansParts ==
  ASSUME NEW w \in Seq(Byte), NEW a \in Seq(Byte), NEW b \in Seq(Byte), NEW p, NEW q,
         Spans(w, p, a \o b, q)
  PROVE  \E r : Spans(w, p, a, r) /\ Spans(w, r, b, q)
<1>1. p \in Nat /\ Stands(w, p, a \o b) /\ q = p + Len(a \o b)
  BY DEF Spans
<1>2. Stands(w, p, a) /\ Stands(w, p + Len(a), b)
  BY <1>1, StandsParts
<1>3. Len(a \o b) = Len(a) + Len(b) /\ Len(a) \in Nat /\ Len(b) \in Nat
  BY Joined
<1>4. p + Len(a) \in Nat /\ q = (p + Len(a)) + Len(b)
  BY <1>1, <1>3
<1> QED BY <1>1, <1>2, <1>4, Zenon DEF Spans

LEMMA StartInside ==
  ASSUME NEW w \in Seq(Byte), NEW v, NEW tag \in 0 .. 14, NEW q, Spans(w, 1, struct_begin(tag), q)
  PROVE  Inside(w, q, {}, v)
<1>1. Stands(w, 1, head(tag, 10)) /\ Len(head(tag, 10)) = 1 /\ q = 1 + Len(head(tag, 10))
  <2>1. Stands(w, 1, head(tag, 10)) /\ q = 1 + Len(head(tag, 10))
    BY Zenon DEF Spans, struct_begin
  <2>2. 10 \in 0 .. 15
    OBVIOUS
  <2> QED BY <2>1, <2>2, HeadIsByte, Zenon
<1>2. Headed(w, 1, tag, 10)
  BY <1>1, HeadRead
<1> DEFINE x == FieldAt(w, 1)
           F == Grown(<< >>, 0, x)
<1>3. x = [tag |-> tag, ty |-> 10, val |-> << >>, next |-> 1 + 1]
  BY <1>2, FieldStruct
<1>4. x.ty # 11 /\ x.next = q
  <2> HIDE DEF x
  <2>1. x.ty = 10 /\ x.next = 1 + 1
    BY <1>3, Zenon
  <2>2. q = 1 + 1
    BY <1>1, Zenon
  <2> QED BY <2>1, <2>2
<1>5. 1 <= Len(w)
  BY <1>1, SMTT(30) DEF Stands
<1> HIDE DEF x
<1>6. Before(w, << >>, 0, 1)
  BY NoneBefore
<1>7. Before(w, F, 0 + 1, x.next)
  BY <1>5, <1>6, OneMore DEF x
<1>8. 0 + 1 = 1 /\ 1 \in Nat \ {0} /\ 2 .. 1 = {}
  OBVIOUS
<1>9. F[1] = x
  BY DEF Grown
<1>10. Tagged(F, 2, 1, {}, v)
  BY <1>8, Zenon DEF Tagged
<1> HIDE DEF F
<1> QED BY <1>4, <1>7, <1>8, <1>9, <1>10, Zenon DEF Inside

LEMMA StepInside ==
  ASSUME NEW w \in Seq(Byte), NEW p, NEW D, NEW v, Inside(w, p, D, v), NEW s \in Seq(Byte), NEW q,
         s # << >>, Spans(w, p, s, q), NEW tag, Reads(w, p, tag, v[tag], Len(s))
  PROVE  Inside(w, q, D \cup {tag}, v)
<1> DEFINE x == FieldAt(w, p)
<1>1. x.tag = tag /\ x.ty # 11 /\ x.val = v[tag] /\ x.next = q /\ p <= Len(w)
  BY DEF Reads, Spans, Stands
<1>2. PICK F : \E n \in Nat \ {0} : Before(w, F, n, p) /\ F[1].ty # 11 /\ Tagged(F, 2, n, D, v)
  BY Zenon DEF Inside
<1>3. PICK n \in Nat \ {0} : Before(w, F, n, p) /\ F[1].ty # 11 /\ Tagged(F, 2, n, D, v)
  BY <1>2, Zenon
<1> DEFINE G == Grown(F, n, x)
<1>4. Before(w, G, n + 1, q)
  <2>1. Before(w, G, n + 1, x.next)
    BY <1>1, <1>3, OneMore
  <2> QED BY <1>1, <2>1, Zenon
<1> HIDE DEF x
<1>5. Tagged(G, 2, n + 1, D \cup {tag}, v)
  <2>1. n \in Nat /\ 2 \in 1 .. n + 1
    OBVIOUS
  <2>2. Tagged(G, 2, n + 1, D \cup {x.tag}, v)
    BY <1>1, <1>3, <2>1, TaggedGrown
  <2> QED BY <1>1, <2>2, Zenon
<1>6. G[1] = F[1] /\ n + 1 \in Nat \ {0}
  BY DEF Grown
<1> HIDE DEF G
<1>7. G[1].ty # 11
  BY <1>3, <1>6, Zenon
<1> QED BY <1>4, <1>5, <1>6, <1>7, Zenon DEF Inside

LEMMA StepBehind ==
  ASSUME NEW w \in Seq(Byte), NEW p, NEW D, NEW v, NEW E, NEW u, Behind(w, p, D, v, E, u),
         NEW s \in Seq(Byte), NEW q, s # << >>, Spans(w, p, s, q), NEW tag,
         Reads(w, p, tag, u[tag], Len(s))
  PROVE  Behind(w, q, D, v, E \cup {tag}, u)
<1> DEFINE x == FieldAt(w, p)
<1>1. x.tag = tag /\ x.ty # 11 /\ x.val = u[tag] /\ x.next = q /\ p <= Len(w)
  BY DEF Reads, Spans, Stands
<1>2. PICK F : \E n \in Nat : \E e \in 2 .. n :
                 /\ Before(w, F, n, p) /\ F[1].ty # 11 /\ F[e].ty = 11
                 /\ Tagged(F, 2, e - 1, D, v) /\ Tagged(F, e + 1, n, E, u)
  BY Zenon DEF Behind
<1>a. PICK n \in Nat : \E e \in 2 .. n :
                 /\ Before(w, F, n, p) /\ F[1].ty # 11 /\ F[e].ty = 11
                 /\ Tagged(F, 2, e - 1, D, v) /\ Tagged(F, e + 1, n, E, u)
  BY <1>2, Zenon
<1>3. PICK e \in 2 .. n :
                 /\ Before(w, F, n, p) /\ F[1].ty # 11 /\ F[e].ty = 11
                 /\ Tagged(F, 2, e - 1, D, v) /\ Tagged(F, e + 1, n, E, u)
  BY <1>a, Zenon
<1> DEFINE G == Grown(F, n, x)
<1>4. Before(w, G, n + 1, q)
  <2>1. Before(w, G, n + 1, x.next)
    BY <1>1, <1>3, OneMore
  <2> QED BY <1>1, <2>1, Zenon
<1> HIDE DEF x
<1>5. Tagged(G, e + 1, n + 1, E \cup {tag}, u)
  <2>1. n \in Nat /\ e + 1 \in 1 .. n + 1
    OBVIOUS
  <2>2. Tagged(G, e + 1, n + 1, E \cup {x.tag}, u)
    BY <1>1, <1>3, <2>1, TaggedGrown
  <2> QED BY <1>1, <2>2, Zenon
<1>6. Tagged(G, 2, e - 1, D, v)
  <2>1. n \in Nat /\ 2 \in Nat \ {0} /\ e - 1 \in 0 .. n
    OBVIOUS
  <2> QED BY <1>3, <2>1, TaggedKept
<1>7. G[1] = F[1] /\ G[e] = F[e] /\ n + 1 \in Nat /\ e \in 2 .. n + 1
  <2>1. 1 \in 1 .. n + 1 /\ 1 # n + 1 /\ e \in 1 .. n + 1 /\ e # n + 1
    OBVIOUS
  <2>2. \A k \in 1 .. n + 1 : G[k] = IF k = n + 1 THEN x ELSE F[k]
    BY DEF Grown
  <2> HIDE DEF G
  <2>3. G[1] = F[1] /\ G[e] = F[e]
    BY <2>1, <2>2, Zenon
  <2> QED BY <2>3
<1> HIDE DEF G
<1>8. G[1].ty # 11 /\ G[e].ty = 11
  BY <1>3, <1>7, Zenon
<1> QED BY <1>4, <1>5, <1>6, <1>7, <1>8, Zenon DEF Behind

LEMMA StepOut ==
  ASSUME NEW w \in Seq(Byte), NEW p, NEW D, NEW v, NEW u, Inside(w, p, D, v), NEW q,
         Spans(w, p, struct_end, q)
  PROVE  Behind(w, q, D, v, {}, u)
<1> DEFINE x == FieldAt(w, p)
<1>1. Stands(w, p, head(0, 11)) /\ Len(head(0, 11)) = 1 /\ q = p + 1 /\ p \in Nat
  <2>1. Stands(w, p, head(0, 11)) /\ q = p + Len(head(0, 11)) /\ p \in Nat
    BY Zenon DEF Spans, struct_end
  <2>2. 11 \in 0 .. 15 /\ 0 \in 0 .. 14
    OBVIOUS
  <2>3. Len(head(0, 11)) = 1
    BY <2>2, HeadIsByte, Zenon
  <2> QED BY <2>1, <2>3
<1>2. Headed(w, p, 0, 11)
  BY <1>1, HeadRead
<1>3. x = [tag |-> 0, ty |-> 11, val |-> << >>, next |-> p + 1]
  BY <1>1, <1>2, FieldStruct
<1>4. x.ty = 11 /\ x.next = q /\ p <= Len(w)
  BY <1>1, <1>3 DEF Stands
<1>5. PICK F : \E n \in Nat \ {0} : Before(w, F, n, p) /\ F[1].ty # 11 /\ Tagged(F, 2, n, D, v)
  BY Zenon DEF Inside
<1>6. PICK n \in Nat \ {0} : Before(w, F, n, p) /\ F[1].ty # 11 /\ Tagged(F, 2, n, D, v)
  BY <1>5, Zenon
<1> DEFINE G == Grown(F, n, x)
<1>7. Before(w, G, n + 1, q)
  <2>1. Before(w, G, n + 1, x.next)
    BY <1>4, <1>6, OneMore
  <2> QED BY <1>4, <2>1, Zenon
<1> HIDE DEF x
<1>8. Tagged(G, 2, n, D, v)
  <2>1. n \in Nat /\ 2 \in Nat \ {0} /\ n \in 0 .. n
    OBVIOUS
  <2> QED BY <1>6, <2>1, TaggedKept
<1>9. Tagged(G, (n + 1) + 1, n + 1, {}, u)
  <2>1. (n + 1) + 1 .. n + 1 = {}
    OBVIOUS
  <2> QED BY <2>1, Zenon DEF Tagged
<1>10. G[1] = F[1] /\ G[n + 1] = x /\ n + 1 \in Nat /\ n + 1 \in 2 .. n + 1 /\ n = (n + 1) - 1
  BY DEF Grown
<1> HIDE DEF G
<1>11. G[1].ty # 11 /\ G[n + 1].ty = 11 /\ Tagged(G, 2, (n + 1) - 1, D, v)
  BY <1>4, <1>6, <1>8, <1>10, Zenon
<1> QED BY <1>7, <1>9, <1>10, <1>11, Zenon DEF Behind

\* One field more of each type.
LEMMA StringInside ==
  ASSUME NEW w \in Seq(Byte), NEW p, NEW D, NEW v, Inside(w, p, D, v), NEW tag \in 0 .. 14, NEW s,
         IsText(s), v[tag] = s, NEW q, Spans(w, p, string(tag, s), q)
  PROVE  Inside(w, q, D \cup {tag}, v)
<1>1. p \in Nat /\ Stands(w, p, string(tag, s))
  BY Zenon DEF Spans
<1>2. Reads(w, p, tag, s, Len(string(tag, s)))
  BY <1>1, StringRead
<1>3. string(tag, s) \in Seq(Byte) /\ string(tag, s) # << >>
  <2>1. string(tag, s) \in Seq(Byte) /\ Len(string(tag, s)) = (IF Len(s) <= 255 THEN 2 ELSE 5) + Len(s)
    BY StringParts
  <2>2. Len(s) \in Nat
    BY DEF IsText
  <2>3. Len(string(tag, s)) # 0
    BY <2>1, <2>2
  <2> QED BY <2>1, <2>3
<1>4. Reads(w, p, tag, v[tag], Len(string(tag, s)))
  BY <1>2, Zenon
<1> QED BY <1>3, <1>4, StepInside

LEMMA IntInside ==
  ASSUME NEW w \in Seq(Byte), NEW p, NEW D, NEW v, Inside(w, p, D, v), NEW tag \in 0 .. 14,
         NEW i \in ByteArray(8), v[tag] = i, NEW q, Spans(w, p, int64(tag, i), q)
  PROVE  Inside(w, q, D \cup {tag}, v)
<1>1. p \in Nat /\ Stands(w, p, int64(tag, i))
  BY Zenon DEF Spans
<1>2. Reads(w, p, tag, i, Len(int64(tag, i)))
  BY <1>1, IntRead
<1>3. int64(tag, i) \in Seq(Byte) /\ int64(tag, i) # << >>
  <2>1. int64(tag, i) \in Seq(Byte) /\ Len(int64(tag, i)) \in 1 .. 9
    BY IntShape
  <2>2. \A n \in 1 .. 9 : n # 0
    OBVIOUS
  <2>3. Len(int64(tag, i)) # 0
    BY <2>1, <2>2, Zenon
  <2>4. Len(<< >>) = 0
    OBVIOUS
  <2> QED BY <2>1, <2>3, <2>4, Zenon
<1>4. Reads(w, p, tag, v[tag], Len(int64(tag, i)))
  BY <1>2, Zenon
<1> QED BY <1>3, <1>4, StepInside

LEMMA BytesNotEmpty ==
  ASSUME NEW tag \in 0 .. 14, NEW d, IsText(d)
  PROVE  bytes(tag, d) \in Seq(Byte) /\ bytes(tag, d) # << >>
<1>1. /\ bytes(tag, d) \in Seq(Byte) /\ Len(int32(0, Len(d))) \in 1 .. 9
      /\ Len(bytes(tag, d)) = (2 + Len(int32(0, Len(d)))) + Len(d)
  BY BytesParts
<1>2. Len(d) \in Nat
  BY DEF IsText
<1>3. Len(bytes(tag, d)) # 0
  BY <1>1, <1>2
<1> QED BY <1>1, <1>3

LEMMA BytesInside ==
  ASSUME NEW w \in Seq(Byte), NEW p, NEW D, NEW v, Inside(w, p, D, v), NEW tag \in 0 .. 14, NEW d,
         IsText(d), d # << >>, v[tag] = d, NEW q, Spans(w, p, bytes(tag, d), q)
  PROVE  Inside(w, q, D \cup {tag}, v)
<1>1. p \in Nat /\ Stands(w, p, bytes(tag, d))
  BY Zenon DEF Spans
<1>2. Reads(w, p, tag, d, Len(bytes(tag, d)))
  BY <1>1, BytesRead
<1>3. Reads(w, p, tag, v[tag], Len(bytes(tag, d)))
  BY <1>2, Zenon
<1> QED BY <1>3, BytesNotEmpty, StepInside

LEMMA IntBehind ==
  ASSUME NEW w \in Seq(Byte), NEW p, NEW D, NEW v, NEW E, NEW u, Behind(w, p, D, v, E, u),
         NEW tag \in 0 .. 14, NEW i \in ByteArray(8), u[tag] = i, NEW q,
         Spans(w, p, int64(tag, i), q)
  PROVE  Behind(w, q, D, v, E \cup {tag}, u)
<1>1. p \in Nat /\ Stands(w, p, int64(tag, i))
  BY Zenon DEF Spans
<1>2. Reads(w, p, tag, i, Len(int64(tag, i)))
  BY <1>1, IntRead
<1>3. int64(tag, i) \in Seq(Byte) /\ int64(tag, i) # << >>
  <2>1. int64(tag, i) \in Seq(Byte) /\ Len(int64(tag, i)) \in 1 .. 9
    BY IntShape
  <2>2. \A n \in 1 .. 9 : n # 0
    OBVIOUS
  <2>3. Len(int64(tag, i)) # 0
    BY <2>1, <2>2, Zenon
  <2>4. Len(<< >>) = 0
    OBVIOUS
  <2> QED BY <2>1, <2>3, <2>4, Zenon
<1>4. Reads(w, p, tag, u[tag], Len(int64(tag, i)))
  BY <1>2, Zenon
<1> QED BY <1>3, <1>4, StepBehind

LEMMA BytesBehind ==
  ASSUME NEW w \in Seq(Byte), NEW p, NEW D, NEW v, NEW E, NEW u, Behind(w, p, D, v, E, u),
         NEW tag \in 0 .. 14, NEW d, IsText(d), d # << >>, u[tag] = d, NEW q,
         Spans(w, p, bytes(tag, d), q)
  PROVE  Behind(w, q, D, v, E \cup {tag}, u)
<1>1. p \in Nat /\ Stands(w, p, bytes(tag, d))
  BY Zenon DEF Spans
<1>2. Reads(w, p, tag, d, Len(bytes(tag, d)))
  BY <1>1, BytesRead
<1>3. Reads(w, p, tag, u[tag], Len(bytes(tag, d)))
  BY <1>2, Zenon
<1> QED BY <1>3, BytesNotEmpty, StepBehind

----------------------------------------------------------------------------
\* A transaction as the types of its fields allow it, the tags that are written
\* of it and the value of each.
IsTransaction(x) ==
  /\ IsText(x.chain_id) /\ IsText(x.group_id) /\ x.block_limit \in ByteArray(8)
  /\ IsText(x.nonce) /\ IsText(x.to) /\ IsText(x.input)

InnerTags(x) ==
  {2, 3, 4, 5} \cup (IF x.to = << >> THEN {} ELSE {6}) \cup (IF x.input = << >> THEN {} ELSE {7})
InnerValues(x) == <<0, x.chain_id, x.group_id, x.block_limit, x.nonce, x.to, x.input>>

LEMMA DataInside ==
  ASSUME NEW w \in Seq(Byte), NEW x, IsTransaction(x), NEW p, NEW q,
         Inside(w, p, {}, InnerValues(x)), Spans(w, p, encode_tx_data(x), q)
  PROVE  Inside(w, q, InnerTags(x), InnerValues(x))
<1> DEFINE v  == InnerValues(x)
           s2 == string(2, x.chain_id)
           s3 == string(3, x.group_id)
           s4 == int64(4, x.block_limit)
           s5 == string(5, x.nonce)
           s6 == IF x.to = << >> THEN << >> ELSE string(6, x.to)
           s7 == IF x.input = << >> THEN << >> ELSE bytes(7, x.input)
<1>1. /\ IsText(x.chain_id) /\ IsText(x.group_id) /\ x.block_limit \in ByteArray(8)
      /\ IsText(x.nonce) /\ IsText(x.to) /\ IsText(x.input)
  BY Zenon DEF IsTransaction
<1>2. /\ v[2] = x.chain_id /\ v[3] = x.group_id /\ v[4] = x.block_limit /\ v[5] = x.nonce
      /\ v[6] = x.to /\ v[7] = x.input
  BY DEF InnerValues
<1>3. 2 \in 0 .. 14 /\ 3 \in 0 .. 14 /\ 4 \in 0 .. 14 /\ 5 \in 0 .. 14 /\ 6 \in 0 .. 14 /\ 7 \in 0 .. 14
  OBVIOUS
<1>4. encode_tx_data(x) = ((((s2 \o s3) \o s4) \o s5) \o s6) \o s7
  BY Zenon DEF encode_tx_data
<1> HIDE DEF v
<1>5. s2 \in Seq(Byte) /\ s3 \in Seq(Byte) /\ s4 \in Seq(Byte) /\ s5 \in Seq(Byte)
  BY <1>1, <1>3, StringParts, IntShape, Zenon
<1>6. << >> \in Seq(Byte)
  OBVIOUS
<1>7. s6 \in Seq(Byte) /\ s7 \in Seq(Byte)
  BY <1>1, <1>3, <1>6, StringParts, BytesNotEmpty, Zenon
<1>8. Inside(w, p, {}, v)
  BY DEF v
<1>9. Spans(w, p, ((((s2 \o s3) \o s4) \o s5) \o s6) \o s7, q)
  BY <1>4, Zenon
<1> HIDE DEF s2, s3, s4, s5, s6, s7
<1>10. /\ s2 \o s3 \in Seq(Byte) /\ (s2 \o s3) \o s4 \in Seq(Byte)
       /\ ((s2 \o s3) \o s4) \o s5 \in Seq(Byte) /\ (((s2 \o s3) \o s4) \o s5) \o s6 \in Seq(Byte)
  BY <1>5, <1>7, Joined, Zenon
<1>11. PICK r7 : Spans(w, p, (((s2 \o s3) \o s4) \o s5) \o s6, r7) /\ Spans(w, r7, s7, q)
  BY <1>7, <1>9, <1>10, SpansParts, Zenon
<1>12. PICK r6 : Spans(w, p, ((s2 \o s3) \o s4) \o s5, r6) /\ Spans(w, r6, s6, r7)
  BY <1>7, <1>10, <1>11, SpansParts, Zenon
<1>13. PICK r5 : Spans(w, p, (s2 \o s3) \o s4, r5) /\ Spans(w, r5, s5, r6)
  BY <1>5, <1>10, <1>12, SpansParts, Zenon
<1>14. PICK r4 : Spans(w, p, s2 \o s3, r4) /\ Spans(w, r4, s4, r5)
  BY <1>5, <1>10, <1>13, SpansParts, Zenon
<1>15. PICK r3 : Spans(w, p, s2, r3) /\ Spans(w, r3, s3, r4)
  BY <1>5, <1>10, <1>14, SpansParts, Zenon
<1>16. Inside(w, r3, {} \cup {2}, v)
  BY <1>1, <1>2, <1>3, <1>8, <1>15, StringInside, Zenon DEF s2
<1>17. Inside(w, r4, ({} \cup {2}) \cup {3}, v)
  BY <1>1, <1>2, <1>3, <1>15, <1>16, StringInside, Zenon DEF s3
<1>18. Inside(w, r5, (({} \cup {2}) \cup {3}) \cup {4}, v)
  BY <1>1, <1>2, <1>3, <1>14, <1>17, IntInside, Zenon DEF s4
<1>19. Inside(w, r6, ((({} \cup {2}) \cup {3}) \cup {4}) \cup {5}, v)
  BY <1>1, <1>2, <1>3, <1>13, <1>18, StringInside, Zenon DEF s5
<1> DEFINE D5 == ((({} \cup {2}) \cup {3}) \cup {4}) \cup {5}
           D6 == IF x.to = << >> THEN D5 ELSE D5 \cup {6}
           D7 == IF x.input = << >> THEN D6 ELSE D6 \cup {7}
<1>20. \A r, t : Spans(w, r, << >>, t) => r = t
  BY DEF Spans
<1>21. Inside(w, r6, D5, v)
  BY <1>19
<1> HIDE DEF D5
<1>22. Inside(w, r7, D6, v)
  <2>1. CASE x.to = << >>
    <3>1. s6 = << >>
      BY <2>1, Zenon DEF s6
    <3>2. r6 = r7
      BY <1>12, <1>20, <3>1, Zenon
    <3> QED BY <1>21, <2>1, <3>2, Zenon
  <2>2. CASE x.to # << >>
    <3>1. s6 = string(6, x.to)
      BY <2>2, Zenon DEF s6
    <3>2. Inside(w, r7, D5 \cup {6}, v)
      BY <1>1, <1>2, <1>3, <1>12, <1>21, <3>1, StringInside, Zenon
    <3> QED BY <2>2, <3>2, Zenon
  <2> QED BY <2>1, <2>2
<1> HIDE DEF D6
<1>23. Inside(w, q, D7, v)
  <2>1. CASE x.input = << >>
    <3>1. s7 = << >>
      BY <2>1, Zenon DEF s7
    <3>2. r7 = q
      BY <1>11, <1>20, <3>1, Zenon
    <3> QED BY <1>22, <2>1, <3>2, Zenon
  <2>2. CASE x.input # << >>
    <3>1. s7 = bytes(7, x.input)
      BY <2>2, Zenon DEF s7
    <3>2. Inside(w, q, D6 \cup {7}, v)
      BY <1>1, <1>2, <1>3, <1>11, <1>22, <2>2, <3>1, BytesInside, Zenon
    <3> QED BY <2>2, <3>2, Zenon
  <2> QED BY <2>1, <2>2
<1>24. D7 = InnerTags(x)
  BY DEF D5, D6, InnerTags
<1> QED BY <1>23, <1>24, Zenon DEF v

LEMMA DataType ==
  ASSUME NEW x, IsTransaction(x)
  PROVE  encode_tx_data(x) \in Seq(Byte)
<1> DEFINE s2 == string(2, x.chain_id)
           s3 == string(3, x.group_id)
           s4 == int64(4, x.block_limit)
           s5 == string(5, x.nonce)
           s6 == IF x.to = << >> THEN << >> ELSE string(6, x.to)
           s7 == IF x.input = << >> THEN << >> ELSE bytes(7, x.input)
<1>1. /\ IsText(x.chain_id) /\ IsText(x.group_id) /\ x.block_limit \in ByteArray(8)
      /\ IsText(x.nonce) /\ IsText(x.to) /\ IsText(x.input)
  BY Zenon DEF IsTransaction
<1>2. 2 \in 0 .. 14 /\ 3 \in 0 .. 14 /\ 4 \in 0 .. 14 /\ 5 \in 0 .. 14 /\ 6 \in 0 .. 14 /\ 7 \in 0 .. 14
  OBVIOUS
<1>3. encode_tx_data(x) = ((((s2 \o s3) \o s4) \o s5) \o s6) \o s7
  BY Zenon DEF encode_tx_data
<1>4. s2 \in Seq(Byte) /\ s3 \in Seq(Byte) /\ s4 \in Seq(Byte) /\ s5 \in Seq(Byte)
  BY <1>1, <1>2, StringParts, IntShape, Zenon
<1>5. << >> \in Seq(Byte)
  OBVIOUS
<1>6. s6 \in Seq(Byte) /\ s7 \in Seq(Byte)
  BY <1>1, <1>2, <1>5, StringParts, BytesNotEmpty, Zenon
<1> HIDE DEF s2, s3, s4, s5, s6, s7
<1>7. /\ s2 \o s3 \in Seq(Byte) /\ (s2 \o s3) \o s4 \in Seq(Byte)
      /\ ((s2 \o s3) \o s4) \o s5 \in Seq(Byte) /\ (((s2 \o s3) \o s4) \o s5) \o s6 \in Seq(Byte)
  BY <1>4, <1>6, Joined, Zenon
<1>8. ((((s2 \o s3) \o s4) \o s5) \o s6) \o s7 \in Seq(Byte)
  BY <1>6, <1>7, Joined, Zenon
<1> QED BY <1>3, <1>8, Zenon

OuterValues(h, s, t, a) == <<0, h, s, t, 0, 0, a>>

\* The fields of a signed transaction, from its first byte to its last.
LEMMA TransactionRead ==
  ASSUME NEW x, IsTransaction(x), NEW h, IsText(h), h # << >>, NEW s, IsText(s), s # << >>,
         NEW a, IsText(a), a # << >>, NEW t \in ByteArray(8), NEW w,
         w = encode_transaction(encode_tx_data(x), h, s, a, t)
  PROVE  /\ w \in Seq(Byte) /\ w # << >>
         /\ Behind(w, Len(w) + 1, InnerTags(x), InnerValues(x), {2, 3, 4, 7}, OuterValues(h, s, t, a))
<1> DEFINE v  == InnerValues(x)
           u  == OuterValues(h, s, t, a)
           D  == InnerTags(x)
           p1 == struct_begin(1)
           p2 == encode_tx_data(x)
           p3 == struct_end
           p4 == bytes(2, h)
           p5 == bytes(3, s)
           p6 == int64(4, t)
           p7 == bytes(7, a)
<1>1. u[2] = h /\ u[3] = s /\ u[4] = t /\ u[7] = a
  BY DEF OuterValues
<1>2. /\ 0 \in 0 .. 14 /\ 1 \in 0 .. 14 /\ 2 \in 0 .. 14 /\ 3 \in 0 .. 14 /\ 4 \in 0 .. 14
      /\ 5 \in 0 .. 14 /\ 6 \in 0 .. 14 /\ 7 \in 0 .. 14 /\ 10 \in 0 .. 15 /\ 11 \in 0 .. 15
  OBVIOUS
<1>3. w = (((((p1 \o p2) \o p3) \o p4) \o p5) \o p6) \o p7
  BY Zenon DEF encode_transaction
<1>4. p1 \in Seq(Byte) /\ Len(p1) = 1 /\ p3 \in Seq(Byte)
  BY <1>2, HeadIsByte, Zenon DEF struct_begin, struct_end
<1>5. p4 \in Seq(Byte) /\ p5 \in Seq(Byte) /\ p6 \in Seq(Byte) /\ p7 \in Seq(Byte)
  BY <1>2, BytesNotEmpty, IntShape, Zenon
<1>6. p2 \in Seq(Byte)
  BY <1>2, DataType, Zenon
<1> HIDE DEF v, u, D, p1, p2, p3, p4, p5, p6, p7
<1>7. /\ p1 \o p2 \in Seq(Byte) /\ (p1 \o p2) \o p3 \in Seq(Byte)
      /\ ((p1 \o p2) \o p3) \o p4 \in Seq(Byte) /\ (((p1 \o p2) \o p3) \o p4) \o p5 \in Seq(Byte)
      /\ ((((p1 \o p2) \o p3) \o p4) \o p5) \o p6 \in Seq(Byte)
  BY <1>4, <1>5, <1>6, Joined, Zenon
<1>8. w \in Seq(Byte)
  BY <1>3, <1>5, <1>7, Joined, Zenon
<1>9. Spans(w, 1, w, Len(w) + 1)
  <2>1. Stands(w, 1, w)
    BY <1>8, StandsWhole, Zenon
  <2>2. Len(w) + 1 = 1 + Len(w) /\ 1 \in Nat
    BY <1>8
  <2> QED BY <2>1, <2>2, Zenon DEF Spans
<1>10. Spans(w, 1, (((((p1 \o p2) \o p3) \o p4) \o p5) \o p6) \o p7, Len(w) + 1)
  <2> DEFINE y == (((((p1 \o p2) \o p3) \o p4) \o p5) \o p6) \o p7
  <2>1. w = y
    BY <1>3, Zenon
  <2> HIDE DEF y
  <2>2. Spans(w, 1, y, Len(w) + 1)
    BY <1>9, <2>1, Zenon
  <2> QED BY <2>2, Zenon DEF y
<1> DEFINE q == Len(w) + 1
<1> HIDE <1>3 DEF q
<1>11. PICK r7 : Spans(w, 1, ((((p1 \o p2) \o p3) \o p4) \o p5) \o p6, r7) /\ Spans(w, r7, p7, q)
  BY <1>5, <1>7, <1>8, <1>10, SpansParts, Zenon DEF q
<1>12. PICK r6 : Spans(w, 1, (((p1 \o p2) \o p3) \o p4) \o p5, r6) /\ Spans(w, r6, p6, r7)
  BY <1>5, <1>7, <1>8, <1>11, SpansParts, Zenon
<1>13. PICK r5 : Spans(w, 1, ((p1 \o p2) \o p3) \o p4, r5) /\ Spans(w, r5, p5, r6)
  BY <1>5, <1>7, <1>8, <1>12, SpansParts, Zenon
<1>14. PICK r4 : Spans(w, 1, (p1 \o p2) \o p3, r4) /\ Spans(w, r4, p4, r5)
  BY <1>5, <1>7, <1>8, <1>13, SpansParts, Zenon
<1>15. PICK r3 : Spans(w, 1, p1 \o p2, r3) /\ Spans(w, r3, p3, r4)
  BY <1>4, <1>7, <1>8, <1>14, SpansParts, Zenon
<1>16. PICK r2 : Spans(w, 1, p1, r2) /\ Spans(w, r2, p2, r3)
  BY <1>4, <1>6, <1>8, <1>15, SpansParts, Zenon
<1>17. Inside(w, r2, {}, v)
  BY <1>2, <1>8, <1>16, StartInside, Zenon DEF p1
<1>18. Inside(w, r3, D, v)
  BY <1>8, <1>16, <1>17, DataInside, Zenon DEF p2, v, D
<1>19. Behind(w, r4, D, v, {}, u)
  BY <1>8, <1>15, <1>18, StepOut, Zenon DEF p3
<1>20. Behind(w, r5, D, v, {} \cup {2}, u)
  BY <1>1, <1>2, <1>8, <1>14, <1>19, BytesBehind, Zenon DEF p4
<1>21. Behind(w, r6, D, v, ({} \cup {2}) \cup {3}, u)
  BY <1>1, <1>2, <1>8, <1>13, <1>20, BytesBehind, Zenon DEF p5
<1>22. Behind(w, r7, D, v, (({} \cup {2}) \cup {3}) \cup {4}, u)
  BY <1>1, <1>2, <1>8, <1>12, <1>21, IntBehind, Zenon DEF p6
<1>23. Behind(w, q, D, v, ((({} \cup {2}) \cup {3}) \cup {4}) \cup {7}, u)
  BY <1>1, <1>2, <1>8, <1>11, <1>22, BytesBehind, Zenon DEF p7
<1>24. ((({} \cup {2}) \cup {3}) \cup {4}) \cup {7} = {2, 3, 4, 7}
  OBVIOUS
<1>25. w # << >>
  <2>1. Stands(w, 1, p1)
    BY <1>16, Zenon DEF Spans
  <2>2. 1 + Len(p1) <= Len(w) + 1
    BY <2>1, Zenon DEF Stands
  <2>3. Len(w) # 0
    BY <1>4, <1>8, <2>2
  <2> QED BY <2>3
<1> QED BY <1>8, <1>23, <1>24, <1>25, Zenon DEF q, v, u, D

----------------------------------------------------------------------------
\* Where the fields are found, and their values.
Found(F, D, v, E, u) ==
  \E e \in 2 .. Len(F) :
    /\ F[1].ty # 11 /\ F[e].ty = 11
    /\ Tagged(F, 2, e - 1, D, v) /\ Tagged(F, e + 1, Len(F), E, u)

LEMMA FieldsFound ==
  ASSUME NEW w \in Seq(Byte), NEW D, NEW v, NEW E, NEW u, Behind(w, Len(w) + 1, D, v, E, u)
  PROVE  Found(Fields(w), D, v, E, u) /\ Fields(w) # << >> /\ Len(Fields(w)) \in Nat
<1> DEFINE p == Len(w) + 1
<1>1. p > Len(w)
  OBVIOUS
<1>2. PICK F : \E n \in Nat : \E e \in 2 .. n :
                 /\ Before(w, F, n, p) /\ F[1].ty # 11 /\ F[e].ty = 11
                 /\ Tagged(F, 2, e - 1, D, v) /\ Tagged(F, e + 1, n, E, u)
  BY Zenon DEF Behind
<1>3. PICK n \in Nat : \E e \in 2 .. n :
                 /\ Before(w, F, n, p) /\ F[1].ty # 11 /\ F[e].ty = 11
                 /\ Tagged(F, 2, e - 1, D, v) /\ Tagged(F, e + 1, n, E, u)
  BY <1>2, Zenon
<1>4. PICK e \in 2 .. n :
                 /\ Before(w, F, n, p) /\ F[1].ty # 11 /\ F[e].ty = 11
                 /\ Tagged(F, 2, e - 1, D, v) /\ Tagged(F, e + 1, n, E, u)
  BY <1>3, Zenon
<1> HIDE DEF p
<1> DEFINE G == Fields(w)
<1>5. G = [k \in 1 .. n |-> F[k]]
  BY <1>1, <1>4, AllBefore
<1>6. Len(G) = n
  BY <1>5
<1>7. \A k \in 1 .. n : G[k] = F[k]
  BY <1>5, Zenon
<1>8. 1 \in 1 .. n /\ e \in 1 .. n /\ e \in 2 .. Len(G) /\ n # 0
  BY <1>6
<1>9. (\A k \in 2 .. e - 1 : k \in 1 .. n) /\ \A k \in e + 1 .. n : k \in 1 .. n
  OBVIOUS
<1> HIDE DEF G
<1>10. Tagged(G, 2, e - 1, D, v)
  <2>1. \A k \in 2 .. e - 1 : G[k] = F[k]
    BY <1>7, <1>9, Zenon
  <2> QED BY <1>4, <2>1, TaggedSame, Zenon
<1>11. Tagged(G, e + 1, n, E, u)
  <2>1. \A k \in e + 1 .. n : G[k] = F[k]
    BY <1>7, <1>9, Zenon
  <2> QED BY <1>4, <2>1, TaggedSame, Zenon
<1>12. G[1].ty # 11 /\ G[e].ty = 11
  BY <1>4, <1>7, <1>8, Zenon
<1>13. Found(G, D, v, E, u)
  BY <1>6, <1>8, <1>10, <1>11, <1>12, Zenon DEF Found
<1>14. G # << >>
  BY <1>6, <1>8
<1> QED BY <1>6, <1>13, <1>14 DEF G

LEMMA EndFound ==
  ASSUME NEW D, NEW v, NEW E, NEW u, Found(fields, D, v, E, u), Len(fields) \in Nat
  PROVE  /\ Tagged(fields, 2, end - 1, D, v)
         /\ Tagged(fields, end + 1, Len(fields), E, u)
<1>1. PICK e \in 2 .. Len(fields) :
        /\ fields[1].ty # 11 /\ fields[e].ty = 11
        /\ Tagged(fields, 2, e - 1, D, v) /\ Tagged(fields, e + 1, Len(fields), E, u)
  BY Zenon DEF Found
<1> DEFINE I == {i \in 1 .. Len(fields) : fields[i].ty = 11}
<1>2. e \in I
  BY <1>1
<1>3. ASSUME NEW i \in I PROVE e <= i
  <2> SUFFICES ASSUME ~(e <= i) PROVE FALSE
    OBVIOUS
  <2>1. i \in 1 .. Len(fields) /\ fields[i].ty = 11
    OBVIOUS
  <2>2. i = 1 \/ i \in 2 .. e - 1
    BY <2>1
  <2> QED BY <1>1, <2>1, <2>2, Zenon DEF Tagged
<1>4. end = CHOOSE i \in I : \A j \in I : i =< j
  <2>1. end = IF I # {} THEN CHOOSE i \in I : \A j \in I : i =< j ELSE 0
    BY Zenon DEF end, SelectInSeq, Min
  <2> QED BY <1>2, <2>1, Zenon
<1>5. \A i \in I : (\A j \in I : i <= j) => i = e
  BY <1>2, <1>3
<1> HIDE DEF I
<1>6. end = e
  BY <1>2, <1>3, <1>4, <1>5, Zenon
<1> QED BY <1>1, <1>6, Zenon

LEMMA ValueFound ==
  ASSUME NEW from, NEW to, NEW D, NEW v, Tagged(fields, from, to, D, v), NEW tag, NEW default
  PROVE  Value(from, to, tag, default) = IF tag \in D THEN v[tag] ELSE default
<1>1. CASE tag \in D
  <2>1. \E i \in from .. to : fields[i].tag = tag
    BY <1>1, Zenon DEF Tagged
  <2> DEFINE c == CHOOSE i \in from .. to : fields[i].tag = tag
  <2>2. c \in from .. to /\ fields[c].tag = tag
    BY <2>1, Zenon
  <2>3. Value(from, to, tag, default) = fields[c].val
    BY <2>1, Zenon DEF Value
  <2> HIDE DEF c
  <2>4. fields[c].val = v[tag]
    BY <2>2, Zenon DEF Tagged
  <2> QED BY <1>1, <2>3, <2>4, Zenon
<1>2. CASE tag \notin D
  <2>1. ~ \E i \in from .. to : fields[i].tag = tag
    BY <1>2, Zenon DEF Tagged
  <2> QED BY <1>2, <2>1, Zenon DEF Value
<1> QED BY <1>1, <1>2

----------------------------------------------------------------------------
\* The types of what the client sends.
LEMMA ArrayIsText ==
  ASSUME NEW n \in Nat, n <= 100, NEW b \in ByteArray(n)
  PROVE  IsText(b) /\ (n # 0 => b # << >>)
<1>1. b \in Seq(Byte) /\ Len(b) = n
  BY ArrayIsSeq
<1>2. n <= MaxLength
  BY DEF MaxLength
<1>3. n # 0 => Len(b) # 0
  BY <1>1
<1> QED BY <1>1, <1>2, <1>3 DEF IsText

LEMMA ZerosShape ==
  ASSUME NEW n \in Nat
  PROVE  Zeros(n) \in Seq(Byte) /\ Len(Zeros(n)) = n
<1>1. 0 \in Byte
  BY DEF Byte
<1>2. Zeros(n) \in ByteArray(n)
  BY <1>1 DEF Zeros, ByteArray
<1> QED BY <1>2, ArrayIsSeq

----------------------------------------------------------------------------
\* A string of n bytes, and one that w has at the 0-based offset from.
Shape(s, n) == s \in Seq(Byte) /\ Len(s) = n /\ n \in Nat
Holds(w, from, s) == from \in Nat /\ s \in Seq(Byte) /\ Stands(w, from + 1, s)

LEMMA ShapeJoined ==
  ASSUME NEW a, NEW b, NEW m, NEW n, Shape(a, m), Shape(b, n)
  PROVE  Shape(a \o b, m + n)
<1>1. a \in Seq(Byte) /\ b \in Seq(Byte) /\ Len(a) = m /\ Len(b) = n /\ m \in Nat /\ n \in Nat
  BY Zenon DEF Shape
<1>2. a \o b \in Seq(Byte) /\ Len(a \o b) = Len(a) + Len(b)
  BY <1>1, Joined, Zenon
<1>3. m + n \in Nat
  BY <1>1
<1> QED BY <1>1, <1>2, <1>3, Zenon DEF Shape

LEMMA ArrayShape ==
  ASSUME NEW n \in Nat, NEW b \in ByteArray(n)
  PROVE  Shape(b, n)
BY ArrayIsSeq DEF Shape

LEMMA HoldsWhole ==
  ASSUME NEW w \in Seq(Byte)
  PROVE  Holds(w, 0, w)
<1>1. 0 + 1 = 1 /\ 0 \in Nat
  OBVIOUS
<1>2. Stands(w, 1, w)
  BY StandsWhole, Zenon
<1> QED BY <1>1, <1>2, Zenon DEF Holds

LEMMA HoldsParts ==
  ASSUME NEW w \in Seq(Byte), NEW from, NEW a \in Seq(Byte), NEW b \in Seq(Byte),
         Holds(w, from, a \o b)
  PROVE  Holds(w, from, a) /\ Holds(w, from + Len(a), b)
<1>1. from \in Nat /\ Stands(w, from + 1, a \o b)
  BY Zenon DEF Holds
<1>2. Len(a) \in Nat
  OBVIOUS
<1>3. from + 1 \in Nat /\ from + Len(a) \in Nat /\ (from + 1) + Len(a) = (from + Len(a)) + 1
  BY <1>1, <1>2
<1>4. Stands(w, from + 1, a) /\ Stands(w, (from + 1) + Len(a), b)
  BY <1>1, <1>3, StandsParts, Zenon
<1>5. Stands(w, (from + Len(a)) + 1, b)
  BY <1>3, <1>4, Zenon
<1> QED BY <1>1, <1>3, <1>4, <1>5, Zenon DEF Holds

LEMMA SliceHeld ==
  ASSUME NEW w \in Seq(Byte), NEW from, NEW s, Holds(w, from, s)
  PROVE  Slice(w, from, Len(s)) = s
<1>1. from \in Nat /\ s \in Seq(Byte) /\ Stands(w, from + 1, s)
  BY Zenon DEF Holds
<1>2. from + 1 \in Nat /\ (from + 1) + Len(s) - 1 = from + Len(s)
  BY <1>1
<1>3. SubSeq(w, from + 1, (from + 1) + Len(s) - 1) = s
  BY <1>1, <1>2, PartStands, Zenon
<1> QED BY <1>2, <1>3, Zenon DEF Slice

\* A 64-bit integer in a word.
LEMMA WordShape ==
  ASSUME NEW v \in ByteArray(8)
  PROVE  Shape(Zeros(24), 24) /\ Shape(v, 8) /\ Shape(u64_to_u256_bytes(v), 32)
<1>1. 24 \in Nat /\ 8 \in Nat /\ 32 = 24 + 8
  OBVIOUS
<1>2. Shape(Zeros(24), 24)
  BY <1>1, ZerosShape, Zenon DEF Shape
<1>3. Shape(v, 8)
  BY <1>1, ArrayShape, Zenon
<1>4. Shape(Zeros(24) \o v, 24 + 8)
  BY <1>2, <1>3, ShapeJoined, Zenon
<1> QED BY <1>1, <1>2, <1>3, <1>4, Zenon DEF u64_to_u256_bytes

LEMMA WordHeld ==
  ASSUME NEW w \in Seq(Byte), NEW from, NEW v \in ByteArray(8), Holds(w, from, u64_to_u256_bytes(v))
  PROVE  Slice(w, from + 24, 8) = v
<1>1. Holds(w, from, Zeros(24) \o v)
  BY Zenon DEF u64_to_u256_bytes
<1>2. Zeros(24) \in Seq(Byte) /\ Len(Zeros(24)) = 24 /\ v \in Seq(Byte) /\ Len(v) = 8
  BY WordShape, Zenon DEF Shape
<1>3. Holds(w, from + Len(Zeros(24)), v)
  BY <1>1, <1>2, HoldsParts, Zenon
<1>4. Holds(w, from + 24, v)
  BY <1>2, <1>3, Zenon
<1> QED BY <1>2, <1>4, SliceHeld, Zenon

----------------------------------------------------------------------------
\* The call of a record contract.
LEMMA CallHolds ==
  ASSUME NEW sel \in ByteArray(4), NEW id \in ByteArray(8), NEW d, IsText(d), NEW c,
         c = encode_call(sel, id, d)
  PROVE  /\ c \in Seq(Byte) /\ c # << >>
         /\ Holds(c, 0, sel) /\ Holds(c, 4, u64_to_u256_bytes(id))
         /\ Holds(c, 36, u64_to_u256_bytes(to_be_bytes(64, 8)))
         /\ Holds(c, 68, u64_to_u256_bytes(to_be_bytes(Len(d), 8)))
         /\ Holds(c, 100, d)
<1> DEFINE n  == Len(d)
           w1 == u64_to_u256_bytes(id)
           w2 == u64_to_u256_bytes(to_be_bytes(64, 8))
           w3 == u64_to_u256_bytes(to_be_bytes(n, 8))
           m  == pad32(n) - n
           z  == Zeros(m)
<1>1. n \in Nat /\ n <= MaxLength /\ d \in Seq(Byte) /\ 4 \in Nat /\ 64 \in Nat
  BY DEF IsText
<1>2. m \in Nat
  BY <1>1 DEF pad32
<1>3. 64 <= MaxLength
  BY DEF MaxLength
<1>4. Shape(sel, 4) /\ Shape(d, n) /\ Shape(z, m)
  BY <1>1, <1>2, ArrayShape, ZerosShape, Zenon DEF Shape
<1>5. to_be_bytes(64, 8) \in ByteArray(8) /\ to_be_bytes(n, 8) \in ByteArray(8)
  BY <1>1, <1>3, LengthRoundTrip, Zenon
<1>6. Shape(w1, 32) /\ Shape(w2, 32) /\ Shape(w3, 32)
  BY <1>5, WordShape, Zenon
<1>7. c = ((((sel \o w1) \o w2) \o w3) \o d) \o z
  BY Zenon DEF encode_call
<1> HIDE DEF n, w1, w2, w3, m, z
<1> DEFINE a2 == sel \o w1
           a3 == a2 \o w2
           a4 == a3 \o w3
           a5 == a4 \o d
<1>8. Shape(a2, 36)
  <2>1. Shape(a2, 4 + 32)
    BY <1>4, <1>6, ShapeJoined, Zenon
  <2>2. 4 + 32 = 36
    OBVIOUS
  <2> QED BY <2>1, <2>2, Zenon
<1> HIDE DEF a2
<1>9. Shape(a3, 68)
  <2>1. Shape(a3, 36 + 32)
    BY <1>6, <1>8, ShapeJoined, Zenon
  <2>2. 36 + 32 = 68
    OBVIOUS
  <2> QED BY <2>1, <2>2, Zenon
<1> HIDE DEF a3
<1>10. Shape(a4, 100)
  <2>1. Shape(a4, 68 + 32)
    BY <1>6, <1>9, ShapeJoined, Zenon
  <2>2. 68 + 32 = 100
    OBVIOUS
  <2> QED BY <2>1, <2>2, Zenon
<1> HIDE DEF a4
<1>11. Shape(a5, 100 + n)
  BY <1>4, <1>10, ShapeJoined, Zenon
<1> HIDE DEF a5
<1>12. Shape(a5 \o z, (100 + n) + m)
  BY <1>4, <1>11, ShapeJoined, Zenon
<1>13. c = a5 \o z
  BY <1>7, Zenon DEF a5, a4, a3, a2
<1>14. c \in Seq(Byte) /\ Len(c) = (100 + n) + m
  BY <1>12, <1>13, Zenon DEF Shape
<1>15. c # << >>
  BY <1>1, <1>2, <1>14
<1>16. /\ sel \in Seq(Byte) /\ w1 \in Seq(Byte) /\ w2 \in Seq(Byte) /\ w3 \in Seq(Byte)
       /\ d \in Seq(Byte) /\ z \in Seq(Byte)
       /\ a2 \in Seq(Byte) /\ a3 \in Seq(Byte) /\ a4 \in Seq(Byte) /\ a5 \in Seq(Byte)
  BY <1>4, <1>6, <1>8, <1>9, <1>10, <1>11, Zenon DEF Shape
<1>17. 4 = 0 + Len(sel) /\ 36 = 0 + Len(a2) /\ 68 = 0 + Len(a3) /\ 100 = 0 + Len(a4)
  BY <1>4, <1>8, <1>9, <1>10 DEF Shape
<1>18. Holds(c, 0, a5)
  BY <1>13, <1>14, <1>16, HoldsWhole, HoldsParts, ZenonT(60)
<1>19. Holds(c, 0, a4) /\ Holds(c, 100, d)
  <2>1. Holds(c, 0, a4 \o d)
    BY <1>18, Zenon DEF a5
  <2>2. Holds(c, 0, a4) /\ Holds(c, 0 + Len(a4), d)
    BY <1>14, <1>16, <2>1, HoldsParts
  <2> QED BY <1>17, <2>2, Zenon
<1>20. Holds(c, 0, a3) /\ Holds(c, 68, w3)
  <2>1. Holds(c, 0, a3 \o w3)
    BY <1>19, Zenon DEF a4
  <2>2. Holds(c, 0, a3) /\ Holds(c, 0 + Len(a3), w3)
    BY <1>14, <1>16, <2>1, HoldsParts
  <2> QED BY <1>17, <2>2, Zenon
<1>21. Holds(c, 0, a2) /\ Holds(c, 36, w2)
  <2>1. Holds(c, 0, a2 \o w2)
    BY <1>20, Zenon DEF a3
  <2>2. Holds(c, 0, a2) /\ Holds(c, 0 + Len(a2), w2)
    BY <1>14, <1>16, <2>1, HoldsParts
  <2> QED BY <1>17, <2>2, Zenon
<1>22. Holds(c, 0, sel) /\ Holds(c, 4, w1)
  <2>1. Holds(c, 0, sel \o w1)
    BY <1>21, Zenon DEF a2
  <2>2. Holds(c, 0, sel) /\ Holds(c, 0 + Len(sel), w1)
    BY <1>14, <1>16, <2>1, HoldsParts
  <2> QED BY <1>17, <2>2, Zenon
<1> QED BY <1>14, <1>15, <1>19, <1>20, <1>21, <1>22, Zenon DEF n, w1, w2, w3
----------------------------------------------------------------------------
\* The fields of the payloads, each at its offset.
Point  == ByteArray(33)
Lender == [group_c1 : Point, group_c2 : Point, regulator_c1 : Point, regulator_c2 : Point,
           partial_dec_share : Point]
Block(l)  == l.group_c1 \o l.group_c2 \o l.regulator_c1 \o l.regulator_c2 \o l.partial_dec_share
Blocks(t) == [i \in DOMAIN t.lenders |-> Block(t.lenders[i])]

LEMMA RepaymentHolds ==
  ASSUME NEW t, t.payload \in ByteArray(32), t.sig \in ByteArray(64)
  PROVE  /\ Shape(repayment_bytes(t), 96)
         /\ Holds(repayment_bytes(t), 0, t.payload)
         /\ Holds(repayment_bytes(t), 32, t.sig)
<1> DEFINE d == repayment_bytes(t)
           x1 == t.payload
           x2 == t.sig
<1>1. Shape(x1, 32) /\ Shape(x2, 64)
  <2>1. 32 \in Nat /\ 64 \in Nat
    OBVIOUS
  <2> QED BY <2>1, ArrayShape, Zenon
<1>2. d = x1 \o x2
  BY Zenon DEF repayment_bytes
<1> HIDE DEF d, x1, x2
<1> DEFINE q2 == x1 \o x2
<1>3. Shape(q2, 96)
  <2>1. Shape(q2, 32 + 64)
    BY <1>1, ShapeJoined, Zenon
  <2>2. 32 + 64 = 96
    OBVIOUS
  <2> QED BY <2>1, <2>2, Zenon
<1> HIDE DEF q2
<1>4. d = q2
  BY <1>2, Zenon DEF q2
<1>5. /\ x1 \in Seq(Byte) /\ x2 \in Seq(Byte)
      /\ q2 \in Seq(Byte) /\ d \in Seq(Byte)
  BY <1>1, <1>3, <1>4, Zenon DEF Shape
<1>6. 32 = 0 + Len(x1)
  BY <1>1, <1>3 DEF Shape
<1>7. Holds(d, 0, q2)
  BY <1>4, <1>5, HoldsWhole, Zenon
<1>8. Holds(d, 0, x1) /\ Holds(d, 32, x2)
  <2>1. Holds(d, 0, x1 \o x2)
    BY <1>7, Zenon DEF q2
  <2>2. Holds(d, 0, x1) /\ Holds(d, 0 + Len(x1), x2)
    BY <1>5, <2>1, HoldsParts
  <2> QED BY <1>6, <2>2, Zenon
<1> QED BY <1>3, <1>4, <1>8, Zenon DEF d, x1, x2

LEMMA AggregatedHolds ==
  ASSUME NEW t, t.meta \in ByteArray(32), t.sig \in ByteArray(64),
         t.c1_agg \in Point, t.c2_agg \in Point, t.reg_c1_agg \in Point, t.reg_c2_agg \in Point,
         t.shares_merkle_root \in ByteArray(32)
  PROVE  /\ Shape(aggregated_bytes(t), 260)
         /\ Holds(aggregated_bytes(t), 0, t.meta)
         /\ Holds(aggregated_bytes(t), 32, t.sig)
         /\ Holds(aggregated_bytes(t), 96, t.c1_agg)
         /\ Holds(aggregated_bytes(t), 129, t.c2_agg)
         /\ Holds(aggregated_bytes(t), 162, t.reg_c1_agg)
         /\ Holds(aggregated_bytes(t), 195, t.reg_c2_agg)
         /\ Holds(aggregated_bytes(t), 228, t.shares_merkle_root)
<1> DEFINE d == aggregated_bytes(t)
           x1 == t.meta
           x2 == t.sig
           x3 == t.c1_agg
           x4 == t.c2_agg
           x5 == t.reg_c1_agg
           x6 == t.reg_c2_agg
           x7 == t.shares_merkle_root
<1>1. Shape(x1, 32) /\ Shape(x2, 64) /\ Shape(x3, 33) /\ Shape(x4, 33) /\ Shape(x5, 33) /\ Shape(x6, 33) /\ Shape(x7, 32)
  <2>1. 32 \in Nat /\ 64 \in Nat /\ 33 \in Nat
    OBVIOUS
  <2> QED BY <2>1, ArrayShape, Zenon DEF Point
<1>2. d = (((((x1 \o x2) \o x3) \o x4) \o x5) \o x6) \o x7
  BY Zenon DEF aggregated_bytes
<1> HIDE DEF d, x1, x2, x3, x4, x5, x6, x7
<1> DEFINE q2 == x1 \o x2
<1>3. Shape(q2, 96)
  <2>1. Shape(q2, 32 + 64)
    BY <1>1, ShapeJoined, Zenon
  <2>2. 32 + 64 = 96
    OBVIOUS
  <2> QED BY <2>1, <2>2, Zenon
<1> HIDE DEF q2
<1> DEFINE q3 == q2 \o x3
<1>4. Shape(q3, 129)
  <2>1. Shape(q3, 96 + 33)
    BY <1>1, <1>3, ShapeJoined, Zenon
  <2>2. 96 + 33 = 129
    OBVIOUS
  <2> QED BY <2>1, <2>2, Zenon
<1> HIDE DEF q3
<1> DEFINE q4 == q3 \o x4
<1>5. Shape(q4, 162)
  <2>1. Shape(q4, 129 + 33)
    BY <1>1, <1>4, ShapeJoined, Zenon
  <2>2. 129 + 33 = 162
    OBVIOUS
  <2> QED BY <2>1, <2>2, Zenon
<1> HIDE DEF q4
<1> DEFINE q5 == q4 \o x5
<1>6. Shape(q5, 195)
  <2>1. Shape(q5, 162 + 33)
    BY <1>1, <1>5, ShapeJoined, Zenon
  <2>2. 162 + 33 = 195
    OBVIOUS
  <2> QED BY <2>1, <2>2, Zenon
<1> HIDE DEF q5
<1> DEFINE q6 == q5 \o x6
<1>7. Shape(q6, 228)
  <2>1. Shape(q6, 195 + 33)
    BY <1>1, <1>6, ShapeJoined, ZenonT(60)
  <2>2. 195 + 33 = 228
    OBVIOUS
  <2> QED BY <2>1, <2>2, Zenon
<1> HIDE DEF q6
<1> DEFINE q7 == q6 \o x7
<1>8. Shape(q7, 260)
  <2>1. Shape(q7, 228 + 32)
    BY <1>1, <1>7, ShapeJoined, ZenonT(60)
  <2>2. 228 + 32 = 260
    OBVIOUS
  <2> QED BY <2>1, <2>2, Zenon
<1> HIDE DEF q7
<1>9. d = q7
  BY <1>2, Zenon DEF q2, q3, q4, q5, q6, q7
<1>10. /\ x1 \in Seq(Byte) /\ x2 \in Seq(Byte) /\ x3 \in Seq(Byte) /\ x4 \in Seq(Byte) /\ x5 \in Seq(Byte) /\ x6 \in Seq(Byte) /\ x7 \in Seq(Byte)
      /\ q2 \in Seq(Byte) /\ q3 \in Seq(Byte) /\ q4 \in Seq(Byte) /\ q5 \in Seq(Byte) /\ q6 \in Seq(Byte) /\ q7 \in Seq(Byte) /\ d \in Seq(Byte)
  BY <1>1, <1>3, <1>4, <1>5, <1>6, <1>7, <1>8, <1>9, Zenon DEF Shape
<1>11. 32 = 0 + Len(x1) /\ 96 = 0 + Len(q2) /\ 129 = 0 + Len(q3) /\ 162 = 0 + Len(q4) /\ 195 = 0 + Len(q5) /\ 228 = 0 + Len(q6)
  BY <1>1, <1>3, <1>4, <1>5, <1>6, <1>7, <1>8 DEF Shape
<1>12. Holds(d, 0, q7)
  BY <1>9, <1>10, HoldsWhole, Zenon
<1>13. Holds(d, 0, q6) /\ Holds(d, 228, x7)
  <2>1. Holds(d, 0, q6 \o x7)
    BY <1>12, Zenon DEF q7
  <2>2. Holds(d, 0, q6) /\ Holds(d, 0 + Len(q6), x7)
    BY <1>10, <2>1, HoldsParts
  <2> QED BY <1>11, <2>2, Zenon
<1>14. Holds(d, 0, q5) /\ Holds(d, 195, x6)
  <2>1. Holds(d, 0, q5 \o x6)
    BY <1>13, Zenon DEF q6
  <2>2. Holds(d, 0, q5) /\ Holds(d, 0 + Len(q5), x6)
    BY <1>10, <2>1, HoldsParts
  <2> QED BY <1>11, <2>2, Zenon
<1>15. Holds(d, 0, q4) /\ Holds(d, 162, x5)
  <2>1. Holds(d, 0, q4 \o x5)
    BY <1>14, Zenon DEF q5
  <2>2. Holds(d, 0, q4) /\ Holds(d, 0 + Len(q4), x5)
    BY <1>10, <2>1, HoldsParts
  <2> QED BY <1>11, <2>2, Zenon
<1>16. Holds(d, 0, q3) /\ Holds(d, 129, x4)
  <2>1. Holds(d, 0, q3 \o x4)
    BY <1>15, Zenon DEF q4
  <2>2. Holds(d, 0, q3) /\ Holds(d, 0 + Len(q3), x4)
    BY <1>10, <2>1, HoldsParts
  <2> QED BY <1>11, <2>2, Zenon
<1>17. Holds(d, 0, q2) /\ Holds(d, 96, x3)
  <2>1. Holds(d, 0, q2 \o x3)
    BY <1>16, Zenon DEF q3
  <2>2. Holds(d, 0, q2) /\ Holds(d, 0 + Len(q2), x3)
    BY <1>10, <2>1, HoldsParts
  <2> QED BY <1>11, <2>2, Zenon
<1>18. Holds(d, 0, x1) /\ Holds(d, 32, x2)
  <2>1. Holds(d, 0, x1 \o x2)
    BY <1>17, Zenon DEF q2
  <2>2. Holds(d, 0, x1) /\ Holds(d, 0 + Len(x1), x2)
    BY <1>10, <2>1, HoldsParts
  <2> QED BY <1>11, <2>2, Zenon
<1> QED BY <1>8, <1>9, <1>13, <1>14, <1>15, <1>16, <1>17, <1>18, Zenon DEF d, x1, x2, x3, x4, x5, x6, x7

LEMMA CheckpointHolds ==
  ASSUME NEW t, t.meta \in ByteArray(32), t.sig \in ByteArray(64),
         t.records_merkle_root \in ByteArray(32), t.batch_size \in Nat, IsU32(t.batch_size)
  PROVE  /\ Shape(checkpoint_bytes(t), 132)
         /\ Holds(checkpoint_bytes(t), 0, t.meta)
         /\ Holds(checkpoint_bytes(t), 32, t.sig)
         /\ Holds(checkpoint_bytes(t), 96, t.records_merkle_root)
         /\ Holds(checkpoint_bytes(t), 128, to_le_bytes(t.batch_size, 4))
<1> DEFINE d == checkpoint_bytes(t)
           x1 == t.meta
           x2 == t.sig
           x3 == t.records_merkle_root
           x4 == to_le_bytes(t.batch_size, 4)
<1>1. Shape(x1, 32) /\ Shape(x2, 64) /\ Shape(x3, 32) /\ Shape(x4, 4)
  <2>1. 32 \in Nat /\ 64 \in Nat /\ 4 \in Nat
    OBVIOUS
  <2>2. to_le_bytes(t.batch_size, 4) \in ByteArray(4)
    BY U32RoundTrip
  <2> QED BY <2>1, <2>2, ArrayShape, Zenon
<1>2. d = ((x1 \o x2) \o x3) \o x4
  BY Zenon DEF checkpoint_bytes
<1> HIDE DEF d, x1, x2, x3, x4
<1> DEFINE q2 == x1 \o x2
<1>3. Shape(q2, 96)
  <2>1. Shape(q2, 32 + 64)
    BY <1>1, ShapeJoined, Zenon
  <2>2. 32 + 64 = 96
    OBVIOUS
  <2> QED BY <2>1, <2>2, Zenon
<1> HIDE DEF q2
<1> DEFINE q3 == q2 \o x3
<1>4. Shape(q3, 128)
  <2>1. Shape(q3, 96 + 32)
    BY <1>1, <1>3, ShapeJoined, Zenon
  <2>2. 96 + 32 = 128
    OBVIOUS
  <2> QED BY <2>1, <2>2, Zenon
<1> HIDE DEF q3
<1> DEFINE q4 == q3 \o x4
<1>5. Shape(q4, 132)
  <2>1. Shape(q4, 128 + 4)
    BY <1>1, <1>4, ShapeJoined, Zenon
  <2>2. 128 + 4 = 132
    OBVIOUS
  <2> QED BY <2>1, <2>2, Zenon
<1> HIDE DEF q4
<1>6. d = q4
  BY <1>2, Zenon DEF q2, q3, q4
<1>7. /\ x1 \in Seq(Byte) /\ x2 \in Seq(Byte) /\ x3 \in Seq(Byte) /\ x4 \in Seq(Byte)
      /\ q2 \in Seq(Byte) /\ q3 \in Seq(Byte) /\ q4 \in Seq(Byte) /\ d \in Seq(Byte)
  BY <1>1, <1>3, <1>4, <1>5, <1>6, Zenon DEF Shape
<1>8. 32 = 0 + Len(x1) /\ 96 = 0 + Len(q2) /\ 128 = 0 + Len(q3)
  BY <1>1, <1>3, <1>4, <1>5 DEF Shape
<1>9. Holds(d, 0, q4)
  BY <1>6, <1>7, HoldsWhole, Zenon
<1>10. Holds(d, 0, q3) /\ Holds(d, 128, x4)
  <2>1. Holds(d, 0, q3 \o x4)
    BY <1>9, Zenon DEF q4
  <2>2. Holds(d, 0, q3) /\ Holds(d, 0 + Len(q3), x4)
    BY <1>7, <2>1, HoldsParts
  <2> QED BY <1>8, <2>2, Zenon
<1>11. Holds(d, 0, q2) /\ Holds(d, 96, x3)
  <2>1. Holds(d, 0, q2 \o x3)
    BY <1>10, Zenon DEF q3
  <2>2. Holds(d, 0, q2) /\ Holds(d, 0 + Len(q2), x3)
    BY <1>7, <2>1, HoldsParts
  <2> QED BY <1>8, <2>2, Zenon
<1>12. Holds(d, 0, x1) /\ Holds(d, 32, x2)
  <2>1. Holds(d, 0, x1 \o x2)
    BY <1>11, Zenon DEF q2
  <2>2. Holds(d, 0, x1) /\ Holds(d, 0 + Len(x1), x2)
    BY <1>7, <2>1, HoldsParts
  <2> QED BY <1>8, <2>2, Zenon
<1> QED BY <1>5, <1>6, <1>10, <1>11, <1>12, Zenon DEF d, x1, x2, x3, x4

\* The five points of a lender.
LEMMA BlockHolds ==
  ASSUME NEW l \in Lender
  PROVE  /\ Shape(Block(l), 165)
         /\ Holds(Block(l), 0, l.group_c1)
         /\ Holds(Block(l), 33, l.group_c2)
         /\ Holds(Block(l), 66, l.regulator_c1)
         /\ Holds(Block(l), 99, l.regulator_c2)
         /\ Holds(Block(l), 132, l.partial_dec_share)
<1> DEFINE d == Block(l)
           x1 == l.group_c1
           x2 == l.group_c2
           x3 == l.regulator_c1
           x4 == l.regulator_c2
           x5 == l.partial_dec_share
<1>1. Shape(x1, 33) /\ Shape(x2, 33) /\ Shape(x3, 33) /\ Shape(x4, 33) /\ Shape(x5, 33)
  <2>1. 33 \in Nat
    OBVIOUS
  <2>2. x1 \in Point /\ x2 \in Point /\ x3 \in Point /\ x4 \in Point /\ x5 \in Point
    BY DEF Lender
  <2> QED BY <2>1, <2>2, ArrayShape, Zenon DEF Point
<1>2. d = (((x1 \o x2) \o x3) \o x4) \o x5
  BY Zenon DEF Block
<1> HIDE DEF d, x1, x2, x3, x4, x5
<1> DEFINE q2 == x1 \o x2
<1>3. Shape(q2, 66)
  <2>1. Shape(q2, 33 + 33)
    BY <1>1, ShapeJoined, Zenon
  <2>2. 33 + 33 = 66
    OBVIOUS
  <2> QED BY <2>1, <2>2, Zenon
<1> HIDE DEF q2
<1> DEFINE q3 == q2 \o x3
<1>4. Shape(q3, 99)
  <2>1. Shape(q3, 66 + 33)
    BY <1>1, <1>3, ShapeJoined, Zenon
  <2>2. 66 + 33 = 99
    OBVIOUS
  <2> QED BY <2>1, <2>2, Zenon
<1> HIDE DEF q3
<1> DEFINE q4 == q3 \o x4
<1>5. Shape(q4, 132)
  <2>1. Shape(q4, 99 + 33)
    BY <1>1, <1>4, ShapeJoined, Zenon
  <2>2. 99 + 33 = 132
    OBVIOUS
  <2> QED BY <2>1, <2>2, Zenon
<1> HIDE DEF q4
<1> DEFINE q5 == q4 \o x5
<1>6. Shape(q5, 165)
  <2>1. Shape(q5, 132 + 33)
    BY <1>1, <1>5, ShapeJoined, Zenon
  <2>2. 132 + 33 = 165
    OBVIOUS
  <2> QED BY <2>1, <2>2, Zenon
<1> HIDE DEF q5
<1>7. d = q5
  BY <1>2, Zenon DEF q2, q3, q4, q5
<1>8. /\ x1 \in Seq(Byte) /\ x2 \in Seq(Byte) /\ x3 \in Seq(Byte) /\ x4 \in Seq(Byte) /\ x5 \in Seq(Byte)
      /\ q2 \in Seq(Byte) /\ q3 \in Seq(Byte) /\ q4 \in Seq(Byte) /\ q5 \in Seq(Byte) /\ d \in Seq(Byte)
  BY <1>1, <1>3, <1>4, <1>5, <1>6, <1>7, Zenon DEF Shape
<1>9. 33 = 0 + Len(x1) /\ 66 = 0 + Len(q2) /\ 99 = 0 + Len(q3) /\ 132 = 0 + Len(q4)
  BY <1>1, <1>3, <1>4, <1>5, <1>6 DEF Shape
<1>10. Holds(d, 0, q5)
  BY <1>7, <1>8, HoldsWhole, Zenon
<1>11. Holds(d, 0, q4) /\ Holds(d, 132, x5)
  <2>1. Holds(d, 0, q4 \o x5)
    BY <1>10, Zenon DEF q5
  <2>2. Holds(d, 0, q4) /\ Holds(d, 0 + Len(q4), x5)
    BY <1>8, <2>1, HoldsParts
  <2> QED BY <1>9, <2>2, Zenon
<1>12. Holds(d, 0, q3) /\ Holds(d, 99, x4)
  <2>1. Holds(d, 0, q3 \o x4)
    BY <1>11, Zenon DEF q4
  <2>2. Holds(d, 0, q3) /\ Holds(d, 0 + Len(q3), x4)
    BY <1>8, <2>1, HoldsParts
  <2> QED BY <1>9, <2>2, Zenon
<1>13. Holds(d, 0, q2) /\ Holds(d, 66, x3)
  <2>1. Holds(d, 0, q2 \o x3)
    BY <1>12, Zenon DEF q3
  <2>2. Holds(d, 0, q2) /\ Holds(d, 0 + Len(q2), x3)
    BY <1>8, <2>1, HoldsParts
  <2> QED BY <1>9, <2>2, Zenon
<1>14. Holds(d, 0, x1) /\ Holds(d, 33, x2)
  <2>1. Holds(d, 0, x1 \o x2)
    BY <1>13, Zenon DEF q2
  <2>2. Holds(d, 0, x1) /\ Holds(d, 0 + Len(x1), x2)
    BY <1>8, <2>1, HoldsParts
  <2> QED BY <1>9, <2>2, Zenon
<1> QED BY <1>6, <1>7, <1>11, <1>12, <1>13, <1>14, Zenon DEF d, x1, x2, x3, x4, x5

LEMMA BlocksShape ==
  ASSUME NEW t, t.lenders \in Seq(Lender)
  PROVE  /\ Blocks(t) \in Seq(Seq(Byte)) /\ Len(Blocks(t)) = Len(t.lenders)
         /\ \A i \in 1 .. Len(t.lenders) :
              Blocks(t)[i] = Block(t.lenders[i]) /\ t.lenders[i] \in Lender
<1> DEFINE s == t.lenders
           n == Len(s)
<1>1. n \in Nat /\ DOMAIN s = 1 .. n /\ \A i \in 1 .. n : s[i] \in Lender
  OBVIOUS
<1> HIDE DEF s, n
<1>2. Blocks(t) = [i \in 1 .. n |-> Block(s[i])]
  BY <1>1, Zenon DEF Blocks, s
<1>3. \A i \in 1 .. n : Block(s[i]) \in Seq(Byte)
  <2>1. ASSUME NEW i \in 1 .. n PROVE Block(s[i]) \in Seq(Byte)
    <3>1. s[i] \in Lender
      BY <1>1, Zenon
    <3> QED BY <3>1, BlockHolds DEF Shape
  <2> QED BY <2>1
<1> DEFINE T == Seq(Byte)
           B(i) == Block(s[i])
<1> HIDE DEF T
<1>4. \A i \in 1 .. n : B(i) \in T
  BY <1>3 DEF T
<1> HIDE DEF B
<1>5. [i \in 1 .. n |-> B(i)] \in Seq(T) /\ Len([i \in 1 .. n |-> B(i)]) = n
  BY <1>1, <1>4
<1>6. \A i \in 1 .. n : [j \in 1 .. n |-> B(j)][i] = B(i)
  OBVIOUS
<1> QED BY <1>1, <1>2, <1>5, <1>6, Zenon DEF B, T, s, n

LEMMA OurMpcType ==
  ASSUME NEW t, t.meta \in ByteArray(32), t.sig \in ByteArray(64), t.lenders \in Seq(Lender)
  PROVE  our_mpc_bytes(t) = (t.meta \o t.sig) \o FlattenSeq(Blocks(t)) /\ our_mpc_bytes(t) \in Seq(Byte)
<1>1. 32 \in Nat /\ 64 \in Nat
  OBVIOUS
<1>2. t.meta \in Seq(Byte) /\ t.sig \in Seq(Byte)
  BY <1>1, ArrayIsSeq, ZenonT(60)
<1>3. FlattenSeq(Blocks(t)) \in Seq(Byte)
  BY BlocksShape, FlattenType
<1>4. our_mpc_bytes(t) = (t.meta \o t.sig) \o FlattenSeq(Blocks(t))
  BY Zenon DEF our_mpc_bytes, Blocks, Block
<1>5. t.meta \o t.sig \in Seq(Byte)
  BY <1>2, Joined, Zenon
<1>6. (t.meta \o t.sig) \o FlattenSeq(Blocks(t)) \in Seq(Byte)
  BY <1>3, <1>5, Joined, Zenon
<1> QED BY <1>4, <1>6, Zenon

LEMMA HoldsWithin ==
  ASSUME NEW w \in Seq(Byte), NEW from, NEW b, NEW off, NEW x, Holds(w, from, b), Holds(b, off, x)
  PROVE  Holds(w, from + off, x)
<1>1. /\ from \in Nat /\ b \in Seq(Byte) /\ Stands(w, from + 1, b)
      /\ off \in Nat /\ x \in Seq(Byte) /\ Stands(b, off + 1, x)
  BY Zenon DEF Holds
<1>2. /\ Len(w) \in Nat /\ Len(b) \in Nat /\ Len(x) \in Nat
      /\ (from + 1) + Len(b) <= Len(w) + 1 /\ (off + 1) + Len(x) <= Len(b) + 1
      /\ \A i \in 1 .. Len(b) : w[(from + 1) + i - 1] = b[i]
      /\ \A i \in 1 .. Len(x) : b[(off + 1) + i - 1] = x[i]
  BY <1>1 DEF Stands
<1>3. ASSUME NEW i \in 1 .. Len(x) PROVE w[((from + off) + 1) + i - 1] = x[i]
  <2>1. off + i \in 1 .. Len(b) /\ (off + 1) + i - 1 = off + i
    BY <1>1, <1>2
  <2>2. (from + 1) + (off + i) - 1 = ((from + off) + 1) + i - 1
    BY <1>1
  <2>3. w[(from + 1) + (off + i) - 1] = b[off + i] /\ b[off + i] = x[i]
    BY <1>2, <2>1, Zenon
  <2> QED BY <2>2, <2>3, Zenon
<1>4. (from + off) + 1 \in Nat \ {0} /\ ((from + off) + 1) + Len(x) <= Len(w) + 1 /\ from + off \in Nat
  BY <1>1, <1>2
<1>5. Stands(w, (from + off) + 1, x)
  BY <1>3, <1>4, Zenon DEF Stands
<1> QED BY <1>1, <1>4, <1>5, Zenon DEF Holds

LEMMA FlatBlocks ==
  ASSUME NEW t, t.lenders \in Seq(Lender), NEW w \in Seq(Byte), Holds(w, 96, FlattenSeq(Blocks(t)))
  PROVE  /\ Shape(FlattenSeq(Blocks(t)), 165 * Len(t.lenders))
         /\ \A i \in 1 .. Len(t.lenders) : Holds(w, 96 + 165 * (i - 1), Block(t.lenders[i]))
<1> DEFINE n == Len(t.lenders)
           s == Blocks(t)
           b(i) == Block(t.lenders[i])
           Goal == /\ Shape(FlattenSeq(s), 165 * n)
                   /\ \A i \in 1 .. n : Holds(w, 96 + 165 * (i - 1), b(i))
<1> SUFFICES Goal
  BY Zenon
<1>1. n \in Nat
  OBVIOUS
<1>2. s \in Seq(Seq(Byte)) /\ Len(s) = n /\ \A i \in 1 .. n : s[i] = b(i) /\ t.lenders[i] \in Lender
  BY BlocksShape, Zenon
<1>3. ASSUME NEW i \in 1 .. n PROVE Shape(b(i), 165)
  <2>1. t.lenders[i] \in Lender
    BY <1>2, Zenon
  <2> QED BY <2>1, BlockHolds
<1>4. Holds(w, 96, FlattenSeq(s))
  OBVIOUS
<1> HIDE DEF n, s, b
<1>5. CASE n = 0
  <2>1. s = << >>
    BY <1>2, <1>5
  <2>2. FlattenSeq(s) = << >>
    BY <1>2, <2>1, FlattenType
  <2>3. 165 * n = 0 /\ 0 \in Nat /\ 1 .. n = {}
    BY <1>5
  <2>4. << >> \in Seq(Byte) /\ Len(<< >>) = 0
    OBVIOUS
  <2>5. Shape(FlattenSeq(s), 165 * n)
    BY <2>2, <2>3, <2>4, Zenon DEF Shape
  <2> QED BY <2>3, <2>5, Zenon
<1>6. CASE n # 0
  <2>1. Len(s) \in Nat \ {0}
    BY <1>1, <1>2, <1>6
  <2>2. PICK g : Flattens(g, s) /\ FlattenSeq(s) = g[Len(s)]
    BY <2>1, FlattenEquation, Zenon
  <2>3. g = [i \in 1 .. n |-> IF i = 1 THEN s[i] ELSE g[i - 1] \o s[i]]
    BY <1>2, <2>2, Zenon DEF Flattens
  <2>4. FlattenSeq(s) = g[n]
    BY <1>2, <2>2, Zenon
  <2>5. 1 \in 1 .. n /\ g[1] = b(1)
    <3>1. 1 \in 1 .. n
      BY <1>1, <1>6
    <3>2. g[1] = s[1]
      BY <2>3, <3>1
    <3> QED BY <1>2, <3>1, <3>2, Zenon
  <2>6. ASSUME NEW i \in 1 .. n, i # 1 PROVE i - 1 \in 1 .. n /\ g[i] = g[i - 1] \o b(i)
    <3>1. i - 1 \in 1 .. n
      BY <1>1, <2>6
    <3>2. g[i] = g[i - 1] \o s[i]
      BY <2>3, <2>6
    <3>3. s[i] = b(i)
      BY <1>2, Zenon
    <3> QED BY <3>1, <3>2, <3>3, Zenon
  <2> HIDE <2>3
  <2> DEFINE A == {m \in Nat : m + 1 <= n => Shape(g[m + 1], 165 * (m + 1))}
  <2>7. \A m \in Nat : m \in A
    <3>1. 0 \in A
      <4>1. Shape(b(1), 165)
        BY <1>3, <2>5
      <4>2. 0 + 1 = 1 /\ 165 * (0 + 1) = 165 /\ 0 \in Nat
        OBVIOUS
      <4>3. Shape(g[0 + 1], 165 * (0 + 1))
        BY <2>5, <4>1, <4>2, Zenon
      <4> QED BY <4>2, <4>3, Zenon
    <3>2. ASSUME NEW m \in Nat, m \in A PROVE m + 1 \in A
      <4> SUFFICES ASSUME (m + 1) + 1 <= n PROVE Shape(g[(m + 1) + 1], 165 * ((m + 1) + 1))
        OBVIOUS
      <4> DEFINE i == (m + 1) + 1
      <4>1. i \in 1 .. n /\ i # 1 /\ i - 1 = m + 1 /\ m + 1 <= n
        BY <1>1
      <4>2. Shape(g[m + 1], 165 * (m + 1))
        BY <3>2, <4>1, Zenon
      <4> HIDE DEF i
      <4>3. g[i] = g[m + 1] \o b(i)
        BY <2>6, <4>1, Zenon
      <4>4. Shape(b(i), 165)
        BY <1>3, <4>1, Zenon
      <4>5. Shape(g[m + 1] \o b(i), 165 * (m + 1) + 165)
        BY <4>2, <4>4, ShapeJoined, ZenonT(60)
      <4>6. 165 * (m + 1) + 165 = 165 * i
        BY DEF i
      <4>7. Shape(g[i], 165 * i)
        BY <4>3, <4>5, <4>6, Zenon
      <4> QED BY <4>7, Zenon DEF i
    <3> HIDE DEF A
    <3> QED BY <3>1, <3>2, FromZero, Zenon
  <2>8. ASSUME NEW k \in 1 .. n PROVE Shape(g[k], 165 * k)
    <3>1. k - 1 \in Nat /\ (k - 1) + 1 = k /\ (k - 1) + 1 <= n
      BY <1>1
    <3>2. k - 1 \in A
      BY <2>7, <3>1, Zenon
    <3> QED BY <3>1, <3>2, Zenon
  <2> HIDE DEF A
  <2>9. \A i \in 1 .. n : g[i] \in Seq(Byte) /\ b(i) \in Seq(Byte) /\ Len(g[i]) = 165 * i
    BY <1>3, <2>8, ZenonT(60) DEF Shape
  <2>10. ASSUME NEW i \in 1 .. n, i # 1, Holds(w, 96, g[i])
         PROVE  Holds(w, 96, g[i - 1]) /\ Holds(w, 96 + 165 * (i - 1), b(i))
    <3>1. i - 1 \in 1 .. n /\ g[i] = g[i - 1] \o b(i)
      BY <2>6, <2>10, Zenon
    <3>2. Holds(w, 96, g[i - 1] \o b(i))
      BY <2>10, <3>1, Zenon
    <3>3. g[i - 1] \in Seq(Byte) /\ b(i) \in Seq(Byte) /\ Len(g[i - 1]) = 165 * (i - 1)
      BY <2>9, <3>1, Zenon
    <3>4. Holds(w, 96, g[i - 1]) /\ Holds(w, 96 + Len(g[i - 1]), b(i))
      BY <3>2, <3>3, HoldsParts
    <3> QED BY <3>3, <3>4, Zenon
  <2> DEFINE C == {m \in Nat : m < n => Holds(w, 96, g[n - m])}
  <2>11. \A m \in Nat : m \in C
    <3>1. 0 \in C
      <4>1. n - 0 = n /\ 0 \in Nat
        BY <1>1
      <4>2. Holds(w, 96, g[n - 0])
        BY <1>4, <2>4, <4>1, Zenon
      <4> QED BY <4>1, <4>2, Zenon
    <3>2. ASSUME NEW m \in Nat, m \in C PROVE m + 1 \in C
      <4> SUFFICES ASSUME m + 1 < n PROVE Holds(w, 96, g[n - (m + 1)])
        OBVIOUS
      <4>1. n - m \in 1 .. n /\ n - m # 1 /\ m < n /\ (n - m) - 1 = n - (m + 1)
        BY <1>1
      <4>2. Holds(w, 96, g[n - m])
        BY <3>2, <4>1, Zenon
      <4>3. Holds(w, 96, g[(n - m) - 1])
        BY <2>10, <4>1, <4>2, Zenon
      <4> QED BY <4>1, <4>3, Zenon
    <3> HIDE DEF C
    <3> QED BY <3>1, <3>2, FromZero, Zenon
  <2>12. ASSUME NEW i \in 1 .. n PROVE Holds(w, 96, g[i])
    <3>1. n - i \in Nat /\ n - i < n /\ n - (n - i) = i
      BY <1>1
    <3>2. n - i \in C
      BY <2>11, <3>1, Zenon
    <3> QED BY <3>1, <3>2, Zenon
  <2> HIDE DEF C
  <2>13. ASSUME NEW i \in 1 .. n PROVE Holds(w, 96 + 165 * (i - 1), b(i))
    <3>1. CASE i = 1
      <4>1. 96 + 165 * (1 - 1) = 96
        OBVIOUS
      <4>2. Holds(w, 96, b(1))
        BY <2>5, <2>12, Zenon
      <4> QED BY <3>1, <4>1, <4>2, Zenon
    <3>2. CASE i # 1
      BY <2>10, <2>12, <3>2, Zenon
    <3> QED BY <3>1, <3>2
  <2>14. Shape(FlattenSeq(s), 165 * n)
    <3>1. n \in 1 .. n
      BY <1>1, <1>6
    <3> QED BY <2>4, <2>8, <3>1, Zenon
  <2> QED BY <2>13, <2>14, Zenon
<1> QED BY <1>5, <1>6

LEMMA OurMpcHolds ==
  ASSUME NEW t, t.meta \in ByteArray(32), t.sig \in ByteArray(64), t.lenders \in Seq(Lender)
  PROVE  /\ Shape(our_mpc_bytes(t), 96 + 165 * Len(t.lenders))
         /\ Holds(our_mpc_bytes(t), 0, t.meta) /\ Holds(our_mpc_bytes(t), 32, t.sig)
         /\ \A i \in 1 .. Len(t.lenders) :
              Holds(our_mpc_bytes(t), 96 + 165 * (i - 1), Block(t.lenders[i]))
<1> DEFINE d == our_mpc_bytes(t)
           a == t.meta
           b == t.sig
           f == FlattenSeq(Blocks(t))
<1>1. Shape(a, 32) /\ Shape(b, 64)
  <2>1. 32 \in Nat /\ 64 \in Nat
    OBVIOUS
  <2> QED BY <2>1, ArrayShape, Zenon
<1>2. f \in Seq(Byte)
  BY BlocksShape, FlattenType
<1>3. d = (a \o b) \o f
  BY Zenon DEF our_mpc_bytes, Blocks, Block
<1>4. Shape(a \o b, 32 + 64) /\ 32 + 64 = 96
  <2>1. 32 + 64 = 96
    OBVIOUS
  <2>2. Shape(a \o b, 32 + 64)
    BY <1>1, ShapeJoined, Zenon
  <2> QED BY <2>1, <2>2, Zenon
<1> HIDE DEF a, b, f, d
<1>5. a \in Seq(Byte) /\ b \in Seq(Byte) /\ a \o b \in Seq(Byte) /\ 0 + Len(a) = 32 /\ 0 + Len(a \o b) = 96
  <2>1. a \in Seq(Byte) /\ b \in Seq(Byte) /\ a \o b \in Seq(Byte) /\ Len(a) = 32 /\ Len(a \o b) = 96
    BY <1>1, <1>4, Zenon DEF Shape
  <2> QED BY <2>1
<1>6. d \in Seq(Byte)
  BY <1>2, <1>3, <1>5, Joined, Zenon
<1>7. Holds(d, 0, (a \o b) \o f)
  BY <1>3, <1>6, HoldsWhole, Zenon
<1> DEFINE ab == a \o b
<1>8. Holds(d, 0, ab) /\ Holds(d, 0 + Len(ab), f)
  <2>1. ab \in Seq(Byte) /\ Holds(d, 0, ab \o f)
    BY <1>5, <1>7, Zenon
  <2> HIDE DEF ab
  <2> QED BY <1>2, <1>6, <2>1, HoldsParts, Zenon
<1>9. Holds(d, 0, a) /\ Holds(d, 0 + Len(a), b)
  BY <1>5, <1>6, <1>8, HoldsParts
<1>10. Holds(d, 96, f) /\ Holds(d, 32, b)
  BY <1>5, <1>8, <1>9, Zenon
<1>11. /\ Shape(f, 165 * Len(t.lenders))
       /\ \A i \in 1 .. Len(t.lenders) : Holds(d, 96 + 165 * (i - 1), Block(t.lenders[i]))
  BY <1>6, <1>10, FlatBlocks, Zenon DEF f
<1>12. Shape((a \o b) \o f, 96 + 165 * Len(t.lenders))
  <2>1. Shape(a \o b, 96)
    BY <1>4, Zenon
  <2> QED BY <1>11, <2>1, ShapeJoined, ZenonT(60)
<1> QED BY <1>3, <1>9, <1>10, <1>11, <1>12, Zenon DEF d, a, b

----------------------------------------------------------------------------
\* What the slices of a payload are.
LEMMA HeldSlice ==
  ASSUME NEW w \in Seq(Byte), NEW from, NEW s, NEW n, Holds(w, from, s), Shape(s, n)
  PROVE  Slice(w, from, n) = s
BY SliceHeld, Zenon DEF Shape

LEMMA RepaymentSlices ==
  ASSUME NEW t, t.payload \in ByteArray(32), t.sig \in ByteArray(64), NEW d, d = repayment_bytes(t)
  PROVE  d \in Seq(Byte) /\ RepaymentAt(d, t)
<1>1. /\ Shape(d, 96) /\ Holds(d, 0, t.payload) /\ Holds(d, 32, t.sig)
  BY RepaymentHolds, Zenon
<1>2. 32 \in Nat /\ 64 \in Nat /\ repayment_size = 96
  BY DEF repayment_size
<1>3. d \in Seq(Byte) /\ Len(d) = 96
  BY <1>1, Zenon DEF Shape
<1>4. Shape(t.payload, 32) /\ Shape(t.sig, 64)
  BY <1>2, ArrayShape, Zenon
<1> QED BY <1>1, <1>2, <1>3, <1>4, HeldSlice DEF RepaymentAt

LEMMA AggregatedSlices ==
  ASSUME NEW t, t.meta \in ByteArray(32), t.sig \in ByteArray(64),
         t.c1_agg \in Point, t.c2_agg \in Point, t.reg_c1_agg \in Point, t.reg_c2_agg \in Point,
         t.shares_merkle_root \in ByteArray(32), NEW d, d = aggregated_bytes(t)
  PROVE  d \in Seq(Byte) /\ AggregatedAt(d, t)
<1>1. /\ Shape(d, 260) /\ Holds(d, 0, t.meta) /\ Holds(d, 32, t.sig)
      /\ Holds(d, 96, t.c1_agg) /\ Holds(d, 129, t.c2_agg)
      /\ Holds(d, 162, t.reg_c1_agg) /\ Holds(d, 195, t.reg_c2_agg)
      /\ Holds(d, 228, t.shares_merkle_root)
  BY AggregatedHolds, ZenonT(60)
<1>2. 32 \in Nat /\ 64 \in Nat /\ 33 \in Nat /\ aggregated_size = 260
  BY DEF aggregated_size
<1>3. d \in Seq(Byte) /\ Len(d) = 260
  BY <1>1, Zenon DEF Shape
<1>4. Shape(t.meta, 32) /\ Shape(t.sig, 64) /\ Shape(t.shares_merkle_root, 32)
  BY <1>2, ArrayShape, Zenon
<1>5. /\ Shape(t.c1_agg, 33) /\ Shape(t.c2_agg, 33)
      /\ Shape(t.reg_c1_agg, 33) /\ Shape(t.reg_c2_agg, 33)
  BY <1>2, ArrayShape, Zenon DEF Point
<1>6. Slice(d, 0, 32) = t.meta /\ Slice(d, 32, 64) = t.sig /\ Slice(d, 228, 32) = t.shares_merkle_root
  BY <1>1, <1>3, <1>4, HeldSlice
<1>7. Slice(d, 96, 33) = t.c1_agg /\ Slice(d, 129, 33) = t.c2_agg
  BY <1>1, <1>3, <1>5, HeldSlice
<1>8. Slice(d, 162, 33) = t.reg_c1_agg /\ Slice(d, 195, 33) = t.reg_c2_agg
  BY <1>1, <1>3, <1>5, HeldSlice
<1> QED BY <1>2, <1>3, <1>6, <1>7, <1>8, Zenon DEF AggregatedAt

LEMMA CheckpointSlices ==
  ASSUME NEW t, t.meta \in ByteArray(32), t.sig \in ByteArray(64),
         t.records_merkle_root \in ByteArray(32), t.batch_size \in Nat, IsU32(t.batch_size),
         NEW d, d = checkpoint_bytes(t)
  PROVE  d \in Seq(Byte) /\ CheckpointAt(d, t)
<1> DEFINE b == to_le_bytes(t.batch_size, 4)
<1>1. /\ Shape(d, 132) /\ Holds(d, 0, t.meta) /\ Holds(d, 32, t.sig)
      /\ Holds(d, 96, t.records_merkle_root) /\ Holds(d, 128, b)
  BY CheckpointHolds
<1>2. 32 \in Nat /\ 64 \in Nat /\ 4 \in Nat /\ checkpoint_size = 132
  BY DEF checkpoint_size
<1>3. d \in Seq(Byte) /\ Len(d) = 132
  BY <1>1, Zenon DEF Shape
<1>4. b \in ByteArray(4) /\ from_be_bytes(Reversed(b)) = t.batch_size
  BY U32RoundTrip
<1> HIDE DEF b
<1>5. Shape(t.meta, 32) /\ Shape(t.sig, 64) /\ Shape(t.records_merkle_root, 32) /\ Shape(b, 4)
  BY <1>2, <1>4, ArrayShape, Zenon
<1>6. Slice(d, 0, 32) = t.meta /\ Slice(d, 32, 64) = t.sig
  BY <1>1, <1>3, <1>5, HeldSlice
<1>7. Slice(d, 96, 32) = t.records_merkle_root /\ Slice(d, 128, 4) = b
  BY <1>1, <1>3, <1>5, HeldSlice
<1> QED BY <1>2, <1>3, <1>4, <1>6, <1>7, Zenon DEF CheckpointAt

LEMMA OurMpcSlices ==
  ASSUME NEW t, t.meta \in ByteArray(32), t.sig \in ByteArray(64), t.lenders \in Seq(Lender),
         NEW d, d = our_mpc_bytes(t)
  PROVE  d \in Seq(Byte) /\ OurMpcAt(d, t)
<1> DEFINE n == Len(t.lenders)
<1>1. /\ Shape(d, 96 + 165 * n) /\ Holds(d, 0, t.meta) /\ Holds(d, 32, t.sig)
      /\ \A i \in 1 .. n : Holds(d, 96 + 165 * (i - 1), Block(t.lenders[i]))
  BY OurMpcHolds, Zenon
<1>2. 32 \in Nat /\ 64 \in Nat /\ 33 \in Nat
  OBVIOUS
<1>3. n \in Nat /\ DOMAIN t.lenders = 1 .. n /\ \A i \in 1 .. n : t.lenders[i] \in Lender
  OBVIOUS
<1>4. d \in Seq(Byte) /\ Len(d) = 96 + 165 * n
  BY <1>1, Zenon DEF Shape
<1>5. 96 + 165 * n = our_mpc_size(t)
  BY <1>3 DEF our_mpc_size
<1>6. Shape(t.meta, 32) /\ Shape(t.sig, 64)
  BY <1>2, ArrayShape, Zenon
<1>7. Slice(d, 0, 32) = t.meta /\ Slice(d, 32, 64) = t.sig
  BY <1>1, <1>4, <1>6, HeldSlice
<1> HIDE DEF n
<1>8. ASSUME NEW i \in 1 .. n
      PROVE  LET from == 96 + 165 * (i - 1)
             IN  /\ Slice(d, from, 33)       = t.lenders[i].group_c1
                 /\ Slice(d, from + 33, 33)  = t.lenders[i].group_c2
                 /\ Slice(d, from + 66, 33)  = t.lenders[i].regulator_c1
                 /\ Slice(d, from + 99, 33)  = t.lenders[i].regulator_c2
                 /\ Slice(d, from + 132, 33) = t.lenders[i].partial_dec_share
  <2> DEFINE l == t.lenders[i]
             from == 96 + 165 * (i - 1)
  <2>1. l \in Lender /\ from \in Nat /\ from + 0 = from
    BY <1>3
  <2>2. Holds(d, from, Block(l))
    BY <1>1, Zenon
  <2> HIDE DEF l, from
  <2>3. /\ l.group_c1 \in Point /\ l.group_c2 \in Point /\ l.regulator_c1 \in Point
        /\ l.regulator_c2 \in Point /\ l.partial_dec_share \in Point
    BY <2>1 DEF Lender
  <2>4. /\ Shape(l.group_c1, 33) /\ Shape(l.group_c2, 33) /\ Shape(l.regulator_c1, 33)
        /\ Shape(l.regulator_c2, 33) /\ Shape(l.partial_dec_share, 33)
    BY <1>2, <2>3, ArrayShape, Zenon DEF Point
  <2>5. /\ Holds(Block(l), 0, l.group_c1) /\ Holds(Block(l), 33, l.group_c2)
        /\ Holds(Block(l), 66, l.regulator_c1) /\ Holds(Block(l), 99, l.regulator_c2)
        /\ Holds(Block(l), 132, l.partial_dec_share)
    BY <2>1, BlockHolds
  <2>6. Holds(d, from, l.group_c1)
    <3>1. Holds(d, from + 0, l.group_c1)
      BY <1>4, <2>2, <2>5, HoldsWithin, Zenon
    <3> QED BY <2>1, <3>1, Zenon
  <2>7. Holds(d, from + 33, l.group_c2) /\ Holds(d, from + 66, l.regulator_c1)
    BY <1>4, <2>2, <2>5, HoldsWithin, Zenon
  <2>8. Holds(d, from + 99, l.regulator_c2) /\ Holds(d, from + 132, l.partial_dec_share)
    BY <1>4, <2>2, <2>5, HoldsWithin, ZenonT(60)
  <2>9. Slice(d, from, 33) = l.group_c1
    BY <1>4, <2>4, <2>6, HeldSlice
  <2>10. Slice(d, from + 33, 33) = l.group_c2 /\ Slice(d, from + 66, 33) = l.regulator_c1
    BY <1>4, <2>4, <2>7, HeldSlice
  <2>11. Slice(d, from + 99, 33) = l.regulator_c2 /\ Slice(d, from + 132, 33) = l.partial_dec_share
    BY <1>4, <2>4, <2>8, HeldSlice
  <2> QED BY <2>9, <2>10, <2>11, Zenon DEF l, from
<1>9. d \in Seq(Byte) /\ Len(d) = our_mpc_size(t)
  BY <1>4, <1>5, Zenon
<1> QED BY <1>3, <1>7, <1>8, <1>9, Zenon DEF OurMpcAt

\* The payload of a request, and its transaction.
LEMMA PayloadType ==
  ASSUME NEW p, IsPayload(p)
  PROVE  payload_bytes(p) \in Seq(Byte)
<1>1. p.type \in {"our_mpc", "repayment", "aggregated", "checkpoint", "plain"}
  BY DEF IsPayload
<1>2. CASE p.type = "our_mpc"
  <2>1. p.tx.meta \in ByteArray(32) /\ p.tx.sig \in ByteArray(64) /\ p.tx.lenders \in Seq(Lender)
    BY <1>2, Zenon DEF IsPayload, Lender, Point
  <2>2. payload_bytes(p) = our_mpc_bytes(p.tx)
    BY <1>2 DEF payload_bytes
  <2> QED BY <2>1, <2>2, OurMpcSlices
<1>3. CASE p.type = "repayment"
  <2>1. p.tx.payload \in ByteArray(32) /\ p.tx.sig \in ByteArray(64)
    BY <1>3, Zenon DEF IsPayload
  <2>2. payload_bytes(p) = repayment_bytes(p.tx)
    BY <1>3 DEF payload_bytes
  <2> QED BY <2>1, <2>2, RepaymentSlices
<1>4. CASE p.type = "aggregated"
  <2>1. /\ p.tx.meta \in ByteArray(32) /\ p.tx.sig \in ByteArray(64)
        /\ p.tx.c1_agg \in Point /\ p.tx.c2_agg \in Point
        /\ p.tx.reg_c1_agg \in Point /\ p.tx.reg_c2_agg \in Point
        /\ p.tx.shares_merkle_root \in ByteArray(32)
    BY <1>4, Zenon DEF IsPayload, Point
  <2>2. payload_bytes(p) = aggregated_bytes(p.tx)
    BY <1>4 DEF payload_bytes
  <2> QED BY <2>1, <2>2, AggregatedSlices
<1>5. CASE p.type = "checkpoint"
  <2>1. /\ p.tx.meta \in ByteArray(32) /\ p.tx.sig \in ByteArray(64)
        /\ p.tx.records_merkle_root \in ByteArray(32) /\ IsU32(p.tx.batch_size)
    BY <1>5, Zenon DEF IsPayload
  <2>2. p.tx.batch_size \in Nat
    BY <2>1, SMT DEF IsU32
  <2>3. payload_bytes(p) = checkpoint_bytes(p.tx)
    BY <1>5 DEF payload_bytes
  <2> QED BY <2>1, <2>2, <2>3, CheckpointSlices
<1>6. CASE p.type = "plain"
  <2>1. p.tx.data \in Seq(Byte)
    BY <1>6, Zenon DEF IsPayload
  <2>2. payload_bytes(p) = p.tx.data
    BY <1>6 DEF payload_bytes
  <2> QED BY <2>1, <2>2
<1> QED BY <1>1, <1>2, <1>3, <1>4, <1>5, <1>6

LEMMA SelectorTypes ==
  ASSUME NEW kind \in {"A", "B"}
  PROVE  /\ selector(<<"record", kind>>) \in ByteArray(4) /\ selector(<<"get", kind>>) \in ByteArray(4)
         /\ \A k \in {"A", "B"} : /\ selector(<<"record", kind>>) = selector(<<"record", k>>) => k = kind
                                  /\ selector(<<"get", kind>>) = selector(<<"get", k>>) => k = kind
<1>1. /\ selector(<<"record", "A">>) \in ByteArray(4) /\ selector(<<"record", "B">>) \in ByteArray(4)
      /\ selector(<<"record", "A">>) # selector(<<"record", "B">>)
  BY SelectorAssumption, Zenon
<1>2. /\ selector(<<"get", "A">>) \in ByteArray(4) /\ selector(<<"get", "B">>) \in ByteArray(4)
      /\ selector(<<"get", "A">>) # selector(<<"get", "B">>)
  BY SelectorAssumption, Zenon
<1>3. CASE kind = "A"
  BY <1>1, <1>2, <1>3, Zenon
<1>4. CASE kind = "B"
  BY <1>1, <1>2, <1>4, Zenon
<1> QED BY <1>3, <1>4, Zenon

LEMMA RequestTypes ==
  ASSUME NEW r \in Requests
  PROVE  /\ r.kind \in {"A", "B"} /\ r.loan_id \in ByteArray(8) /\ IsPayload(r.payload)
         /\ IsText(payload_bytes(r.payload)) /\ IsTransaction(TransactionData(r))
         /\ r.to # << >> =>
              TransactionData(r).input
                = encode_call(selector(<<"record", r.kind>>), r.loan_id, payload_bytes(r.payload))
<1> DEFINE d == payload_bytes(r.payload)
           x == TransactionData(r)
<1>1. /\ r.kind \in {"A", "B"} /\ r.loan_id \in ByteArray(8) /\ r.block_limit \in ByteArray(8)
      /\ IsText(r.chain_id) /\ IsText(r.group_id) /\ IsText(r.to) /\ IsPayload(r.payload)
      /\ Len(d) <= MaxLength /\ Len(x.input) <= MaxLength
  BY RequestsAssumption, Zenon
<1>2. IsText(d)
  BY <1>1, PayloadType, Zenon DEF IsText
<1>3. /\ x.chain_id = r.chain_id /\ x.group_id = r.group_id /\ x.block_limit = r.block_limit
      /\ x.nonce = nonce /\ x.to = r.to
      /\ x.input = IF r.to = << >> THEN d
                   ELSE encode_call(selector(<<"record", r.kind>>), r.loan_id, d)
  BY Zenon DEF TransactionData, encode_record
<1> HIDE DEF d, x
<1>4. x.input \in Seq(Byte)
  <2>1. CASE r.to = << >>
    BY <1>2, <1>3, <2>1, Zenon DEF IsText
  <2>2. CASE r.to # << >>
    <3>1. selector(<<"record", r.kind>>) \in ByteArray(4)
      BY <1>1, SelectorTypes, Zenon
    <3>2. encode_call(selector(<<"record", r.kind>>), r.loan_id, d) \in Seq(Byte)
      BY <1>1, <1>2, <3>1, CallHolds, Zenon
    <3> QED BY <1>3, <2>2, <3>2, Zenon
  <2> QED BY <2>1, <2>2
<1>5. IsText(nonce)
  BY ClientAssumption, Zenon
<1>6. IsTransaction(x)
  BY <1>1, <1>3, <1>4, <1>5, Zenon DEF IsTransaction, IsText
<1> QED BY <1>1, <1>2, <1>3, <1>6, Zenon DEF d, x

----------------------------------------------------------------------------
\* What a node makes of the signed transaction.
Signed(r) == sign_tx(TransactionData(r), pub_bytes, import_time)

LEMMA SignedRead ==
  ASSUME NEW r \in Requests
  PROVE  LET x == TransactionData(r)
             h == Keccak256(Preimage(x))
             a == address_from_signing_key(pub_bytes)
         IN  /\ Signed(r) \in Seq(Byte) /\ Signed(r) # << >>
             /\ Fields(Signed(r)) # << >> /\ Len(Fields(Signed(r))) \in Nat
             /\ Found(Fields(Signed(r)), InnerTags(x), InnerValues(x), {2, 3, 4, 7},
                      OuterValues(h, sign(h), import_time, a))
<1> DEFINE x == TransactionData(r)
           h == Keccak256(Preimage(x))
           s == sign(h)
           a == address_from_signing_key(pub_bytes)
           w == Signed(r)
<1>1. 32 \in Nat /\ 65 \in Nat /\ 32 <= 100 /\ 65 <= 100 /\ 32 # 0 /\ 65 # 0
  OBVIOUS
<1>2. h \in ByteArray(32) /\ s \in ByteArray(65)
  BY HashAssumption, Zenon
<1>3. IsTransaction(x) /\ import_time \in ByteArray(8)
  BY RequestTypes, ClientAssumption, Zenon
<1>4. w = encode_transaction(encode_tx_data(x), h, s, a, import_time)
  BY Zenon DEF Signed, sign_tx
<1>5. IsText(a) /\ a # << >>
  <2> DEFINE k == Keccak256(pub_bytes)
  <2>1. k \in ByteArray(32)
    BY HashAssumption, Zenon
  <2>2. \A i \in 1 .. 32 : k[i] \in Byte
    BY <1>1, <2>1, ArrayIsSeq, Zenon
  <2>3. a = SubSeq(k, 13, 32)
    BY Zenon DEF address_from_signing_key
  <2> HIDE DEF k, a
  <2>4. SubSeq(k, 13, 32) \in Seq(Byte) /\ Len(SubSeq(k, 13, 32)) = 20
    <3>1. 13 \in Int /\ 32 \in Int /\ 13 <= 32 /\ 32 - 13 + 1 = 20 /\ \A i \in 13 .. 32 : i \in 1 .. 32
      OBVIOUS
    <3>2. \A i \in 13 .. 32 : k[i] \in Byte
      BY <2>2, <3>1, Zenon
    <3>3. /\ SubSeq(k, 13, 32) \in Seq(Byte)
          /\ Len(SubSeq(k, 13, 32)) = IF 13 <= 32 THEN 32 - 13 + 1 ELSE 0
      BY <3>1, <3>2, SubSeqProperties
    <3> QED BY <3>1, <3>3, Zenon
  <2>5. 20 <= MaxLength
    BY SMT DEF MaxLength
  <2>6. a # << >>
    <3>1. Len(a) = 20 /\ 20 # 0
      BY <2>3, <2>4
    <3>2. Len(<< >>) = 0
      OBVIOUS
    <3> QED BY <3>1, <3>2, Zenon
  <2> QED BY <2>3, <2>4, <2>5, <2>6, Zenon DEF IsText
<1> HIDE DEF x, h, s, a, w
<1>6. IsText(h) /\ h # << >> /\ IsText(s) /\ s # << >>
  BY <1>1, <1>2, ArrayIsText, Zenon
<1>7. /\ w \in Seq(Byte) /\ w # << >>
      /\ Behind(w, Len(w) + 1, InnerTags(x), InnerValues(x), {2, 3, 4, 7}, OuterValues(h, s, import_time, a))
  BY <1>3, <1>4, <1>5, <1>6, TransactionRead, Zenon
<1>8. /\ Found(Fields(w), InnerTags(x), InnerValues(x), {2, 3, 4, 7}, OuterValues(h, s, import_time, a))
      /\ Fields(w) # << >> /\ Len(Fields(w)) \in Nat
  BY <1>7, FieldsFound, Zenon
<1> QED BY <1>7, <1>8, Zenon DEF x, h, s, a, w

LEMMA DecodedIs ==
  ASSUME NEW r \in Requests, fields = Fields(Signed(r))
  PROVE  LET x == TransactionData(r)
             h == Keccak256(Preimage(x))
         IN  Decoded = [tx |-> x, data_hash |-> h, signature |-> sign(h), import_time |-> import_time,
                        sender |-> address_from_signing_key(pub_bytes)]
<1> DEFINE x == TransactionData(r)
           h == Keccak256(Preimage(x))
           s == sign(h)
           a == address_from_signing_key(pub_bytes)
           D == InnerTags(x)
           v == InnerValues(x)
           E == {2, 3, 4, 7}
           u == OuterValues(h, s, import_time, a)
<1>1. Len(fields) \in Nat /\ Found(fields, D, v, E, u)
  BY SignedRead, Zenon
<1>2. /\ v[2] = x.chain_id /\ v[3] = x.group_id /\ v[4] = x.block_limit /\ v[5] = x.nonce
      /\ v[6] = x.to /\ v[7] = x.input
  BY DEF InnerValues
<1>3. u[2] = h /\ u[3] = s /\ u[4] = import_time /\ u[7] = a
  BY DEF OuterValues
<1>4. /\ 2 \in D /\ 3 \in D /\ 4 \in D /\ 5 \in D
      /\ 6 \in D <=> x.to # << >>
      /\ 7 \in D <=> x.input # << >>
  BY DEF InnerTags
<1>5. 2 \in E /\ 3 \in E /\ 4 \in E /\ 7 \in E
  OBVIOUS
<1>6. x = [chain_id |-> x.chain_id, group_id |-> x.group_id, block_limit |-> x.block_limit,
           nonce |-> x.nonce, to |-> x.to, input |-> x.input]
  BY DEF TransactionData
<1> HIDE DEF x, h, s, a, D, v, E, u
<1>7. Tagged(fields, 2, end - 1, D, v) /\ Tagged(fields, end + 1, Len(fields), E, u)
  BY <1>1, EndFound, Zenon
<1>8. \A tag, default : Inner(tag, default) = IF tag \in D THEN v[tag] ELSE default
  <2> SUFFICES ASSUME NEW tag, NEW default
               PROVE  Inner(tag, default) = IF tag \in D THEN v[tag] ELSE default
    OBVIOUS
  <2>1. Value(2, end - 1, tag, default) = IF tag \in D THEN v[tag] ELSE default
    BY <1>7, ValueFound
  <2> QED BY <2>1, Zenon DEF Inner
<1>9. \A tag, default : Outer(tag, default) = IF tag \in E THEN u[tag] ELSE default
  <2> SUFFICES ASSUME NEW tag, NEW default
               PROVE  Outer(tag, default) = IF tag \in E THEN u[tag] ELSE default
    OBVIOUS
  <2>1. Value(end + 1, Len(fields), tag, default) = IF tag \in E THEN u[tag] ELSE default
    BY <1>7, ValueFound
  <2> QED BY <2>1, Zenon DEF Outer
<1>10. /\ Inner(2, << >>) = x.chain_id /\ Inner(3, << >>) = x.group_id
       /\ Inner(4, Zeros(8)) = x.block_limit /\ Inner(5, << >>) = x.nonce
  BY <1>2, <1>4, <1>8, Zenon
<1>11. Inner(6, << >>) = x.to
  BY <1>2, <1>4, <1>8, Zenon
<1>12. Inner(7, << >>) = x.input
  BY <1>2, <1>4, <1>8, Zenon
<1>13. /\ Outer(2, << >>) = h /\ Outer(3, << >>) = s /\ Outer(4, Zeros(8)) = import_time
       /\ Outer(7, << >>) = a
  BY <1>3, <1>5, <1>9, Zenon
<1>14. Decoded = [tx |-> x, data_hash |-> h, signature |-> s, import_time |-> import_time, sender |-> a]
  BY <1>6, <1>10, <1>11, <1>12, <1>13, Zenon DEF Decoded
<1> QED BY <1>14, Zenon DEF x, h, s, a

----------------------------------------------------------------------------
\* What a getter returns, whole and cut.
LEMMA ReturnedHolds ==
  ASSUME NEW d, IsText(d), NEW c, c = Returned(d)
  PROVE  /\ c \in Seq(Byte)
         /\ Holds(c, 0, u64_to_u256_bytes(to_be_bytes(32, 8)))
         /\ Holds(c, 32, u64_to_u256_bytes(to_be_bytes(Len(d), 8)))
         /\ Holds(c, 64, d)
<1> DEFINE n  == Len(d)
           w1 == u64_to_u256_bytes(to_be_bytes(32, 8))
           w2 == u64_to_u256_bytes(to_be_bytes(n, 8))
           m  == (32 - (n % 32)) % 32
           z  == Zeros(m)
           a2 == w1 \o w2
           a3 == a2 \o d
<1>1. n \in Nat /\ n <= MaxLength /\ d \in Seq(Byte) /\ 32 \in Nat
  BY DEF IsText
<1>2. m \in Nat
  BY <1>1
<1>3. 32 <= MaxLength
  BY DEF MaxLength
<1>4. to_be_bytes(32, 8) \in ByteArray(8) /\ to_be_bytes(n, 8) \in ByteArray(8)
  BY <1>1, <1>3, LengthRoundTrip, Zenon
<1>5. Shape(w1, 32) /\ Shape(w2, 32)
  BY <1>4, WordShape, Zenon
<1>6. z \in Seq(Byte)
  BY <1>2, ZerosShape, Zenon
<1>7. c = a3 \o z
  BY Zenon DEF Returned
<1> HIDE DEF n, w1, w2, m, z
<1>8. Shape(a2, 32 + 32) /\ 32 + 32 = 64
  <2>1. 32 + 32 = 64
    OBVIOUS
  <2>2. Shape(a2, 32 + 32)
    BY <1>5, ShapeJoined, Zenon
  <2> QED BY <2>1, <2>2, Zenon
<1> HIDE DEF a2
<1>9. /\ w1 \in Seq(Byte) /\ w2 \in Seq(Byte) /\ a2 \in Seq(Byte)
      /\ 32 = 0 + Len(w1) /\ 64 = 0 + Len(a2)
  <2>1. w1 \in Seq(Byte) /\ w2 \in Seq(Byte) /\ a2 \in Seq(Byte) /\ Len(w1) = 32 /\ Len(a2) = 64
    BY <1>5, <1>8, Zenon DEF Shape
  <2> QED BY <2>1
<1>10. a3 \in Seq(Byte)
  BY <1>1, <1>9, Joined, Zenon
<1> HIDE DEF a3
<1>11. c \in Seq(Byte)
  BY <1>6, <1>7, <1>10, Joined, Zenon
<1>12. Holds(c, 0, a3)
  <2>1. Holds(c, 0, a3 \o z)
    BY <1>7, <1>11, HoldsWhole, Zenon
  <2> QED BY <1>6, <1>10, <1>11, <2>1, HoldsParts
<1>13. Holds(c, 0, a2) /\ Holds(c, 64, d)
  <2>1. Holds(c, 0, a2 \o d)
    BY <1>12, Zenon DEF a3
  <2>2. Holds(c, 0, a2) /\ Holds(c, 0 + Len(a2), d)
    BY <1>1, <1>9, <1>11, <2>1, HoldsParts
  <2> QED BY <1>9, <2>2, Zenon
<1>14. Holds(c, 0, w1) /\ Holds(c, 32, w2)
  <2>1. Holds(c, 0, w1 \o w2)
    BY <1>13, Zenon DEF a2
  <2>2. Holds(c, 0, w1) /\ Holds(c, 0 + Len(w1), w2)
    BY <1>9, <1>11, <2>1, HoldsParts
  <2> QED BY <1>9, <2>2, Zenon
<1> QED BY <1>11, <1>13, <1>14, Zenon DEF n, w1, w2

LEMMA CutHolds ==
  ASSUME NEW c \in Seq(Byte), NEW m \in 0 .. Len(c), NEW raw1, raw1 = SubSeq(c, 1, m)
  PROVE  /\ raw1 \in Seq(Byte) /\ Len(raw1) = m
         /\ \A from, s : Holds(c, from, s) /\ from + Len(s) <= m => Holds(raw1, from, s)
<1>1. \A i \in 1 .. m : c[i] \in Byte
  OBVIOUS
<1>2. raw1 \in Seq(Byte) /\ Len(raw1) = m /\ \A i \in 1 .. m : raw1[i] = c[i]
  OBVIOUS
<1>3. ASSUME NEW from, NEW s, Holds(c, from, s), from + Len(s) <= m
      PROVE  Holds(raw1, from, s)
  <2>1. from \in Nat /\ s \in Seq(Byte) /\ Stands(c, from + 1, s)
    BY <1>3, Zenon DEF Holds
  <2>2. Stands(raw1, from + 1, s)
    <3>1. Len(s) \in Nat /\ \A i \in 1 .. Len(s) : c[(from + 1) + i - 1] = s[i]
      BY <2>1 DEF Stands
    <3>2. ASSUME NEW i \in 1 .. Len(s) PROVE raw1[(from + 1) + i - 1] = s[i]
      <4>1. (from + 1) + i - 1 \in 1 .. m
        BY <1>3, <2>1, <3>1
      <4> QED BY <1>2, <3>1, <4>1, Zenon
    <3>3. from + 1 \in Nat \ {0} /\ (from + 1) + Len(s) <= Len(raw1) + 1
      BY <1>2, <1>3, <2>1, <3>1
    <3> QED BY <3>2, <3>3, Zenon DEF Stands
  <2> QED BY <2>1, <2>2, Zenon DEF Holds
<1> QED BY <1>2, <1>3, Zenon

LEMMA AnswerDecoded ==
  ASSUME NEW d, IsText(d), NEW m \in 0 .. Len(Returned(d)), NEW raw1,
         raw1 = SubSeq(Returned(d), 1, m)
  PROVE  decode_bytes_return(raw1) = IF Len(raw1) >= 64 + Len(d) THEN Ok(d)
                                     ELSE IF raw1 = << >> THEN Ok(<< >>)
                                     ELSE Err
<1> DEFINE c  == Returned(d)
           n  == Len(d)
           b1 == to_be_bytes(32, 8)
           b2 == to_be_bytes(n, 8)
<1>1. n \in Nat /\ n <= MaxLength /\ d \in Seq(Byte) /\ 32 \in Nat
  BY DEF IsText
<1>2. 32 <= MaxLength
  BY DEF MaxLength
<1>3. /\ b1 \in ByteArray(8) /\ b2 \in ByteArray(8)
      /\ from_be_bytes(b1) = 32 /\ from_be_bytes(b2) = n
  BY <1>1, <1>2, LengthRoundTrip, Zenon
<1>4. /\ c \in Seq(Byte) /\ Holds(c, 0, u64_to_u256_bytes(b1))
      /\ Holds(c, 32, u64_to_u256_bytes(b2)) /\ Holds(c, 64, d)
  BY ReturnedHolds, Zenon
<1>5. Len(u64_to_u256_bytes(b1)) = 32 /\ Len(u64_to_u256_bytes(b2)) = 32
  BY <1>3, WordShape, Zenon DEF Shape
<1> HIDE DEF b1, b2, c
<1>6. /\ raw1 \in Seq(Byte) /\ Len(raw1) = m /\ m \in Nat
      /\ \A from, s : Holds(c, from, s) /\ from + Len(s) <= m => Holds(raw1, from, s)
  <2>1. m \in 0 .. Len(c) /\ raw1 = SubSeq(c, 1, m)
    BY Zenon DEF c
  <2>2. m \in Nat
    OBVIOUS
  <2> QED BY <1>4, <2>1, <2>2, CutHolds, Zenon
<1> HIDE DEF n
<1>7. CASE raw1 = << >>
  <2>1. ~(Len(raw1) >= 64 + n)
    BY <1>1, <1>7
  <2> QED BY <1>7, <2>1, Zenon DEF decode_bytes_return, n
<1>8. CASE raw1 # << >> /\ Len(raw1) < 64
  <2>1. ~(Len(raw1) >= 64 + n)
    BY <1>1, <1>6, <1>8
  <2> QED BY <1>8, <2>1, Zenon DEF decode_bytes_return, n
<1>9. CASE raw1 # << >> /\ ~(Len(raw1) < 64)
  <2>1. 0 + 32 <= m /\ 32 + 32 <= m
    BY <1>6, <1>9
  <2>2. Holds(raw1, 0, u64_to_u256_bytes(b1)) /\ Holds(raw1, 32, u64_to_u256_bytes(b2))
    BY <1>4, <1>5, <1>6, <2>1, Zenon
  <2>3. 24 = 0 + 24 /\ 32 + 24 = 32 + 24 /\ 32 + 32 = 64
    OBVIOUS
  <2>4. Slice(raw1, 24, 8) = b1 /\ Slice(raw1, 32 + 24, 8) = b2
    <3>1. Slice(raw1, 0 + 24, 8) = b1
      BY <1>3, <1>6, <2>2, WordHeld, Zenon
    <3>2. Slice(raw1, 32 + 24, 8) = b2
      BY <1>3, <1>6, <2>2, WordHeld, Zenon
    <3> QED BY <2>3, <3>1, <3>2, Zenon
  <2>5. decode_bytes_return(raw1) = IF Len(raw1) < 32 + 32 \/ Len(raw1) < (32 + 32) + n THEN Err
                                    ELSE Ok(Slice(raw1, 32 + 32, n))
    BY <1>3, <1>9, <2>4, Zenon DEF decode_bytes_return
  <2>6. decode_bytes_return(raw1) = IF Len(raw1) < 64 + n THEN Err ELSE Ok(Slice(raw1, 64, n))
    BY <1>9, <2>3, <2>5, Zenon
  <2>7. Len(raw1) < 64 + n <=> ~(Len(raw1) >= 64 + n)
    BY <1>1, <1>6
  <2>8. CASE Len(raw1) >= 64 + n
    <3>1. 64 + Len(d) <= m
      BY <1>1, <1>6, <2>8 DEF n
    <3>2. Holds(raw1, 64, d)
      BY <1>4, <1>6, <3>1, Zenon
    <3>3. Slice(raw1, 64, n) = d
      BY <1>6, <3>2, SliceHeld DEF n
    <3> QED BY <2>6, <2>7, <2>8, <3>3, Zenon DEF n
  <2>9. CASE ~(Len(raw1) >= 64 + n)
    BY <1>9, <2>6, <2>7, <2>9, Zenon DEF n
  <2> QED BY <2>8, <2>9
<1> QED BY <1>7, <1>8, <1>9

----------------------------------------------------------------------------
\* The inductive invariant: every variable is empty, or what the step that sets
\* it makes of the request and of the variables before it.  The node's fields
\* and the record are functions of the request, although each is computed from
\* bytes that went before it.
RecordOf(r) ==
  [kind |-> r.kind, loan_id |-> r.loan_id, data |-> payload_bytes(r.payload)]

WireInv ==
  /\ request \in Requests
  /\ tx = << >> \/ tx = TransactionData(request)
  /\ wire = << >> \/ (wire = Signed(request) /\ tx = TransactionData(request))
  /\ fields = << >> \/ (fields = Fields(Signed(request)) /\ tx = TransactionData(request))
  /\ record = << >> \/ record = RecordOf(request)
  /\ raw = << >> \/ \E m \in 0 .. Len(Returned(payload_bytes(request.payload))) :
                      raw = <<SubSeq(Returned(payload_bytes(request.payload)), 1, m)>>
  /\ result = << >> \/ (raw # << >> /\ result = decode_bytes_return(raw[1]))

LEMMA WireInvInit == WireInit => WireInv
BY Zenon DEF WireInit, WireInv

LEMMA WireInvEncode ==
  ASSUME WireInv, Encode PROVE WireInv'
<1>1. /\ tx = << >> /\ tx' = TransactionData(request) /\ request' = request /\ wire' = wire
      /\ fields' = fields /\ record' = record /\ raw' = raw /\ result' = result
  BY DEF Encode
<1>2. TransactionData(request') = TransactionData(request) /\ Signed(request') = Signed(request)
  BY <1>1, Zenon
<1> QED BY <1>1, <1>2, Zenon DEF WireInv, RecordOf

LEMMA WireInvSend ==
  ASSUME WireInv, Send PROVE WireInv'
<1>1. /\ tx # << >> /\ wire' = sign_tx(tx, pub_bytes, import_time)
      /\ request' = request /\ tx' = tx /\ fields' = fields /\ record' = record
      /\ raw' = raw /\ result' = result
  BY DEF Send
<1>2. tx = TransactionData(request)
  BY <1>1, Zenon DEF WireInv
<1>3. wire' = Signed(request)
  BY <1>1, <1>2, Zenon DEF Signed
<1> QED BY <1>1, <1>2, <1>3, Zenon DEF WireInv, RecordOf

LEMMA WireInvReceive ==
  ASSUME WireInv, Receive PROVE WireInv'
<1>1. /\ wire # << >> /\ fields' = Fields(wire)
      /\ request' = request /\ tx' = tx /\ wire' = wire /\ record' = record
      /\ raw' = raw /\ result' = result
  BY DEF Receive
<1>2. wire = Signed(request) /\ tx = TransactionData(request)
  BY <1>1, Zenon DEF WireInv
<1> QED BY <1>1, <1>2, Zenon DEF WireInv, RecordOf

\* The contract finds its arguments in the call, and only the one of the
\* request's kind answers to its selector.
LEMMA WireInvExecute ==
  ASSUME WireInv, Execute PROVE WireInv'
<1> DEFINE r == request
           x == TransactionData(r)
           d == payload_bytes(r.payload)
           sel == selector(<<"record", r.kind>>)
<1>1. /\ fields # << >> /\ request.to # << >>
      /\ request' = request /\ tx' = tx /\ wire' = wire /\ fields' = fields
      /\ raw' = raw /\ result' = result
  BY DEF Execute
<1>2. r \in Requests /\ fields = Fields(Signed(r))
  BY <1>1, Zenon DEF WireInv
<1>3. Decoded.tx = x
  BY <1>2, DecodedIs
<1>4. PICK kind \in {"A", "B"} :
        LET in  == Decoded.tx.input
            arg == 4 + from_be_bytes(Slice(in, 60, 8))
        IN  /\ SubSeq(in, 1, 4) = selector(<<"record", kind>>)
            /\ record' = [kind |-> kind, loan_id |-> Slice(in, 28, 8),
                          data |-> Slice(in, arg + 32, from_be_bytes(Slice(in, arg + 24, 8)))]
  BY ZenonT(60) DEF Execute
<1> DEFINE in == x.input
<1>5. /\ r.kind \in {"A", "B"} /\ r.loan_id \in ByteArray(8) /\ IsText(d)
      /\ in = encode_call(sel, r.loan_id, d)
  BY <1>1, <1>2, RequestTypes, Zenon
<1>6. sel \in ByteArray(4)
  BY <1>5, SelectorTypes, Zenon
<1> HIDE DEF in, sel, d
<1>7. /\ in \in Seq(Byte)
      /\ Holds(in, 0, sel) /\ Holds(in, 4, u64_to_u256_bytes(r.loan_id))
      /\ Holds(in, 36, u64_to_u256_bytes(to_be_bytes(64, 8)))
      /\ Holds(in, 68, u64_to_u256_bytes(to_be_bytes(Len(d), 8)))
      /\ Holds(in, 100, d)
  BY <1>5, <1>6, CallHolds
<1>8. 64 <= MaxLength /\ 64 \in Nat /\ Len(d) \in Nat /\ Len(d) <= MaxLength
  <2>1. 64 <= MaxLength /\ 64 \in Nat
    BY SMT DEF MaxLength
  <2>2. Len(d) \in Nat /\ Len(d) <= MaxLength
    BY <1>5 DEF IsText
  <2> QED BY <2>1, <2>2
<1>9. /\ to_be_bytes(64, 8) \in ByteArray(8) /\ from_be_bytes(to_be_bytes(64, 8)) = 64
      /\ to_be_bytes(Len(d), 8) \in ByteArray(8) /\ from_be_bytes(to_be_bytes(Len(d), 8)) = Len(d)
  BY <1>8, LengthRoundTrip, Zenon
<1>10. 4 + 24 = 28 /\ 36 + 24 = 60 /\ 68 + 24 = 92 /\ 4 + 64 = 68 /\ 68 + 32 = 100 /\ 0 + 1 = 1 /\ 0 + 4 = 4
  OBVIOUS
<1>11. Slice(in, 28, 8) = r.loan_id
  <2>1. Slice(in, 4 + 24, 8) = r.loan_id
    BY <1>5, <1>7, WordHeld, Zenon
  <2> QED BY <1>10, <2>1, Zenon
<1>12. Slice(in, 60, 8) = to_be_bytes(64, 8)
  <2>1. Slice(in, 36 + 24, 8) = to_be_bytes(64, 8)
    BY <1>7, <1>9, WordHeld
  <2> QED BY <1>10, <2>1, Zenon
<1>13. Slice(in, 68 + 24, 8) = to_be_bytes(Len(d), 8)
  BY <1>7, <1>9, WordHeld
<1>14. Slice(in, 100, Len(d)) = d
  BY <1>7, SliceHeld, Zenon
<1>15. SubSeq(in, 1, 4) = sel
  <2>1. Len(sel) = 4
    BY <1>6, ArrayIsSeq
  <2>2. Slice(in, 0, 4) = sel
    BY <1>7, <2>1, SliceHeld
  <2>3. Slice(in, 0, 4) = SubSeq(in, 1, 4)
    BY <1>10, Zenon DEF Slice
  <2> QED BY <2>2, <2>3, Zenon
<1>16. kind = r.kind
  <2>1. selector(<<"record", kind>>) = sel
    BY <1>3, <1>4, <1>15, Zenon DEF in
  <2> QED BY <1>5, <2>1, SelectorTypes, Zenon DEF sel
<1>17. record' = [kind |-> kind, loan_id |-> Slice(in, 28, 8),
                  data |-> Slice(in, (4 + from_be_bytes(Slice(in, 60, 8))) + 32,
                                 from_be_bytes(Slice(in, (4 + from_be_bytes(Slice(in, 60, 8))) + 24, 8)))]
  BY <1>3, <1>4, Zenon DEF in
<1>18. from_be_bytes(Slice(in, 60, 8)) = 64
  BY <1>9, <1>12, Zenon
<1>19. record' = [kind |-> kind, loan_id |-> Slice(in, 28, 8),
                  data |-> Slice(in, 68 + 32, from_be_bytes(Slice(in, 68 + 24, 8)))]
  BY <1>10, <1>17, <1>18, ZenonT(60)
<1>20. record' = [kind |-> r.kind, loan_id |-> r.loan_id, data |-> d]
  BY <1>9, <1>10, <1>11, <1>13, <1>14, <1>16, <1>19, Zenon
<1>21. record' = RecordOf(request)
  BY <1>20, Zenon DEF RecordOf, d
<1> QED BY <1>1, <1>21, Zenon DEF WireInv, RecordOf

\* The contract of the request's kind has the record, so the answer is its
\* payload, less what is lost of it.
LEMMA WireInvQuery ==
  ASSUME WireInv, Query PROVE WireInv'
<1> DEFINE r == request
           d == payload_bytes(r.payload)
           sel == selector(<<"get", r.kind>>)
           call == encode_get(r.kind, r.loan_id)
           kept == \E kind \in {"A", "B"} :
                     /\ SubSeq(call, 1, 4) = selector(<<"get", kind>>)
                     /\ record.kind = kind /\ record.loan_id = Slice(call, 28, 8)
           full == Returned(IF kept THEN record.data ELSE << >>)
<1>1. /\ record # << >> /\ raw = << >>
      /\ request' = request /\ tx' = tx /\ wire' = wire /\ fields' = fields
      /\ record' = record /\ result' = result
  BY DEF Query
<1>2. r \in Requests /\ record = RecordOf(r) /\ result = << >>
  BY <1>1, Zenon DEF WireInv
<1>3. PICK c \in {k \in Cuts \cup {Len(full)} : k <= Len(full)} :
        raw' = <<SubSeq(full, 1, Len(full) - c)>>
  BY Zenon DEF Query
<1>4. record.kind = r.kind /\ record.loan_id = r.loan_id /\ record.data = d
  BY <1>2 DEF RecordOf
<1>5. r.kind \in {"A", "B"} /\ r.loan_id \in ByteArray(8) /\ IsText(d)
  BY <1>2, RequestTypes, Zenon
<1>6. sel \in ByteArray(4)
  BY <1>5, SelectorTypes, Zenon
<1>7. call = sel \o u64_to_u256_bytes(r.loan_id)
  BY Zenon DEF encode_get
<1> DEFINE w == u64_to_u256_bytes(r.loan_id)
<1> HIDE DEF sel, d, call, w
<1>8. /\ sel \in Seq(Byte) /\ Len(sel) = 4 /\ w \in Seq(Byte)
  <2>1. 4 \in Nat
    OBVIOUS
  <2>2. w \in Seq(Byte)
    BY <1>5, WordShape, Zenon DEF Shape, w
  <2> QED BY <1>6, <2>1, <2>2, ArrayIsSeq, Zenon
<1>9. call = sel \o w /\ call \in Seq(Byte)
  BY <1>7, <1>8, Joined, Zenon DEF w
<1>10. Holds(call, 0, sel) /\ Holds(call, 0 + Len(sel), w)
  <2>1. Holds(call, 0, sel \o w)
    BY <1>9, HoldsWhole, Zenon
  <2> QED BY <1>8, <1>9, <2>1, HoldsParts
<1>11. 0 + 4 = 4 /\ 0 + 1 = 1 /\ 4 + 24 = 28
  OBVIOUS
<1>12. SubSeq(call, 1, 4) = sel
  <2>1. Slice(call, 0, 4) = sel
    BY <1>8, <1>9, <1>10, SliceHeld
  <2>2. Slice(call, 0, 4) = SubSeq(call, 1, 4)
    BY <1>11, Zenon DEF Slice
  <2> QED BY <2>1, <2>2, Zenon
<1>13. Slice(call, 28, 8) = r.loan_id
  <2>1. Holds(call, 4, u64_to_u256_bytes(r.loan_id))
    BY <1>8, <1>10, <1>11, Zenon DEF w
  <2>2. Slice(call, 4 + 24, 8) = r.loan_id
    BY <1>5, <1>9, <2>1, WordHeld, Zenon
  <2> QED BY <1>11, <2>2, Zenon
<1>14. kept
  BY <1>4, <1>5, <1>12, <1>13, Zenon DEF sel
<1> HIDE DEF kept
<1>15. full = Returned(d)
  BY <1>4, <1>14, Zenon
<1>16. Len(full) \in Nat /\ c \in Nat /\ c <= Len(full)
  <2>1. Returned(d) \in Seq(Byte)
    BY <1>5, ReturnedHolds, Zenon
  <2>2. full \in Seq(Byte)
    BY <1>15, <2>1, Zenon
  <2> HIDE DEF full
  <2>3. Len(full) \in Nat
    BY <2>2
  <2>4. c \in Cuts \/ c = Len(full)
    BY Zenon
  <2>5. c <= Len(full)
    BY Zenon
  <2> QED BY <2>3, <2>4, <2>5, ClientAssumption
<1> DEFINE m == Len(full) - c
<1>17. m \in 0 .. Len(full)
  <2> HIDE DEF full
  <2> QED BY <1>16
<1>18. \E k \in 0 .. Len(Returned(d)) : raw' = <<SubSeq(Returned(d), 1, k)>>
  <2>1. m \in 0 .. Len(Returned(d)) /\ raw' = <<SubSeq(Returned(d), 1, m)>>
    BY <1>3, <1>15, <1>17, Zenon
  <2> HIDE DEF m
  <2> QED BY <2>1, Zenon
<1> HIDE DEF full, m
<1> QED BY <1>1, <1>2, <1>18, Zenon DEF WireInv, RecordOf, d

LEMMA WireInvDecode ==
  ASSUME WireInv, Decode PROVE WireInv'
<1>1. /\ raw # << >> /\ result' = decode_bytes_return(raw[1])
      /\ request' = request /\ tx' = tx /\ wire' = wire /\ fields' = fields
      /\ record' = record /\ raw' = raw
  BY DEF Decode
<1> QED BY <1>1, Zenon DEF WireInv, RecordOf

\* Every value of a submission is what the request makes of it, at each step of
\* Encode .. Decode.
THEOREM WireInvariance == WireSpec => []WireInv
<1>1. ASSUME WireInv, [WireNext]_wireVars PROVE WireInv'
  <2>1. CASE WireNext
    BY <1>1, <2>1, WireInvEncode, WireInvSend, WireInvReceive, WireInvExecute, WireInvQuery,
       WireInvDecode, Zenon DEF WireNext
  <2>2. CASE UNCHANGED wireVars
    <3>1. /\ request' = request /\ tx' = tx /\ wire' = wire /\ fields' = fields
          /\ record' = record /\ raw' = raw /\ result' = result
      BY <2>2, Zenon DEF wireVars
    <3> QED BY <1>1, <3>1, Zenon DEF WireInv, RecordOf
  <2> QED BY <1>1, <2>1, <2>2
<1> QED BY <1>1, WireInvInit, PTL DEF WireSpec

\* A node reads the transaction that was signed: whatever the lengths of the
\* texts and the width of the block limit, it finds every field, and the hash,
\* the signature and the sender that go with them.
THEOREM NodesReadTransactions == WireSpec => []NodeReadsTransaction
<1>1. ASSUME WireInv PROVE NodeReadsTransaction
  <2> SUFFICES ASSUME fields # << >>
               PROVE  /\ Decoded.tx = tx
                      /\ Decoded.data_hash = Keccak256(Preimage(Decoded.tx))
                      /\ Decoded.signature = sign(Decoded.data_hash)
                      /\ Decoded.import_time = import_time
                      /\ Decoded.sender = address_from_signing_key(pub_bytes)
    BY Zenon DEF NodeReadsTransaction
  <2>1. /\ request \in Requests /\ fields = Fields(Signed(request)) /\ tx = TransactionData(request)
    BY <1>1, Zenon DEF WireInv
  <2> DEFINE x == TransactionData(request)
             h == Keccak256(Preimage(x))
             a == address_from_signing_key(pub_bytes)
  <2>2. Decoded = [tx |-> x, data_hash |-> h, signature |-> sign(h), import_time |-> import_time,
                   sender |-> a]
    BY <2>1, DecodedIs, Zenon
  <2> HIDE DEF x, h, a
  <2>3. /\ Decoded.tx = x /\ Decoded.data_hash = h /\ Decoded.signature = sign(h)
        /\ Decoded.import_time = import_time /\ Decoded.sender = a
    BY <2>2, Zenon
  <2> QED BY <2>1, <2>3, Zenon DEF x, h, a
<1> QED BY <1>1, WireInvariance, PTL

\* The client's answer is the payload it has submitted, or an error, or empty
\* when nothing arrived: wherever the answer is cut.
THEOREM AnswersAlwaysRecords == WireSpec => []AnswersAreRecords
<1>1. ASSUME WireInv PROVE AnswersAreRecords
  <2> DEFINE d == payload_bytes(request.payload)
  <2> SUFFICES ASSUME result # << >>
               PROVE  result = IF Len(raw[1]) >= 64 + Len(d) THEN Ok(d)
                               ELSE IF raw[1] = << >> THEN Ok(<< >>)
                               ELSE Err
    BY Zenon DEF AnswersAreRecords
  <2>1. /\ request \in Requests /\ raw # << >> /\ result = decode_bytes_return(raw[1])
        /\ \E m \in 0 .. Len(Returned(d)) : raw = <<SubSeq(Returned(d), 1, m)>>
    BY <1>1, Zenon DEF WireInv
  <2>2. IsText(d)
    BY <2>1, RequestTypes, Zenon
  <2> HIDE DEF d
  <2>3. PICK m \in 0 .. Len(Returned(d)) : raw = <<SubSeq(Returned(d), 1, m)>>
    BY <2>1, Zenon
  <2>4. raw[1] = SubSeq(Returned(d), 1, m)
    BY <2>3
  <2> QED BY <2>1, <2>2, <2>4, AnswerDecoded, Zenon
<1> QED BY <1>1, WireInvariance, PTL

\* Each field of a recorded payload is at the offset of its layout, for every
\* number of lenders.
THEOREM PayloadsReadable == WireSpec => []PayloadReadable
<1>1. ASSUME WireInv PROVE PayloadReadable
  <2> SUFFICES ASSUME record # << >>, NEW d \in {record.data}, NEW p \in {request.payload},
                      NEW t \in {request.payload.tx}
               PROVE  /\ p.type = "our_mpc"    => OurMpcAt(d, t)
                      /\ p.type = "repayment"  => RepaymentAt(d, t)
                      /\ p.type = "aggregated" => AggregatedAt(d, t)
                      /\ p.type = "checkpoint" => CheckpointAt(d, t)
    BY Zenon DEF PayloadReadable
  <2>1. d = record.data /\ p = request.payload /\ t = p.tx
    OBVIOUS
  <2>2. IsPayload(p)
    BY <1>1, <2>1, RequestTypes, Zenon DEF WireInv
  <2>3. d = payload_bytes(p)
    <3>1. record = RecordOf(request)
      BY <1>1, Zenon DEF WireInv
    <3> QED BY <2>1, <3>1 DEF RecordOf
  <2>4. ASSUME p.type = "our_mpc" PROVE OurMpcAt(d, t)
    <3>1. t.meta \in ByteArray(32) /\ t.sig \in ByteArray(64) /\ t.lenders \in Seq(Lender)
      BY <2>1, <2>2, <2>4, Zenon DEF IsPayload, Lender, Point
    <3>2. d = our_mpc_bytes(t)
      BY <2>1, <2>3, <2>4 DEF payload_bytes
    <3> QED BY <3>1, <3>2, OurMpcSlices
  <2>5. ASSUME p.type = "repayment" PROVE RepaymentAt(d, t)
    <3>1. t.payload \in ByteArray(32) /\ t.sig \in ByteArray(64)
      BY <2>1, <2>2, <2>5, Zenon DEF IsPayload
    <3>2. d = repayment_bytes(t)
      BY <2>1, <2>3, <2>5 DEF payload_bytes
    <3> QED BY <3>1, <3>2, RepaymentSlices
  <2>6. ASSUME p.type = "aggregated" PROVE AggregatedAt(d, t)
    <3>1. /\ t.meta \in ByteArray(32) /\ t.sig \in ByteArray(64)
          /\ t.c1_agg \in Point /\ t.c2_agg \in Point
          /\ t.reg_c1_agg \in Point /\ t.reg_c2_agg \in Point
          /\ t.shares_merkle_root \in ByteArray(32)
      BY <2>1, <2>2, <2>6, Zenon DEF IsPayload, Point
    <3>2. d = aggregated_bytes(t)
      BY <2>1, <2>3, <2>6 DEF payload_bytes
    <3> QED BY <3>1, <3>2, AggregatedSlices
  <2>7. ASSUME p.type = "checkpoint" PROVE CheckpointAt(d, t)
    <3>1. /\ t.meta \in ByteArray(32) /\ t.sig \in ByteArray(64)
          /\ t.records_merkle_root \in ByteArray(32) /\ IsU32(t.batch_size)
      BY <2>1, <2>2, <2>7, Zenon DEF IsPayload
    <3>2. t.batch_size \in Nat
      BY <3>1, SMT DEF IsU32
    <3>3. d = checkpoint_bytes(t)
      BY <2>1, <2>3, <2>7 DEF payload_bytes
    <3> QED BY <3>1, <3>2, <3>3, CheckpointSlices
  <2> QED BY <2>4, <2>5, <2>6, <2>7, Zenon
<1> QED BY <1>1, WireInvariance, PTL
=============================================================================
