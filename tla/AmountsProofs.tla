--------------------------- MODULE AmountsProofs ---------------------------
(***************************************************************************)
(* Theorems about Amounts: for any prime order of the group, any number of *)
(* nodes and any threshold, any polynomials, amounts and random scalars,   *)
(* batches of proofs are judged as their parts are, any quorum of shares   *)
(* opens the sum of the amounts, and keys of different runs show.          *)
(*                                                                         *)
(* The facts that they rest on come first: congruence, sums and products,  *)
(* inverses, Lagrange interpolation, then ciphertexts and the verdicts on  *)
(* proofs.  AmountsInv is the inductive invariant.                         *)
(***************************************************************************)
EXTENDS Amounts, FiniteSetTheorems, SequenceTheorems, WellFoundedInduction, TLAPS

(***************************************************************************)
(* Induction on the natural numbers, with a set for the predicate.         *)
(***************************************************************************)
\* A nonempty set of natural numbers has a least element.
LEMMA LeastOf ==
  ASSUME NEW S \in SUBSET Nat, S # {}
  PROVE  \E x \in S : \A y \in S : x <= y
<1> DEFINE R == OpToRel(<, Nat)
<1>1. IsWellFoundedOn(R, Nat)
  BY NatLessThanWellFounded, Zenon
<1>2. \A x, y \in Nat : <<x, y>> \in R <=> x < y
  BY Zenon DEF OpToRel
<1> HIDE DEF R
<1>3. PICK x \in S : \A y \in S : ~ (<<y, x>> \in R)
  BY <1>1, WFMin
<1>4. \A y \in S : x \in Nat /\ y \in Nat /\ ~ (y < x)
  BY <1>2, <1>3
<1>5. \A y \in S : x <= y
  BY <1>4
<1> QED BY <1>5

\* Induction: what holds of 0, and of n + 1 when it holds of n, holds of all.
LEMMA FromZero ==
  ASSUME NEW S, 0 \in S, \A n \in Nat : n \in S => n + 1 \in S
  PROVE  \A n \in Nat : n \in S
<1> SUFFICES ASSUME Nat \ S # {} PROVE FALSE
  OBVIOUS
<1>1. PICK x \in Nat \ S : \A y \in Nat \ S : x <= y
  BY LeastOf
<1>2. x # 0 /\ x - 1 \in Nat
  BY <1>1
<1>3. x - 1 \in S
  BY <1>1, <1>2
<1>4. (x - 1) + 1 = x
  BY <1>1
<1> QED BY <1>1, <1>2, <1>3, <1>4

\* A recursion of n steps has a function that satisfies it.
Recursive(n, D, c, step) ==
  \E g \in [0 .. n -> D] : g[0] = c /\ \A k \in 1 .. n : g[k] = step[k][g[k - 1]]

\* A function can be defined along an interval, from a first value and steps.
LEMMA Recursion ==
  ASSUME NEW n \in Nat, NEW D, NEW c \in D, NEW step \in [1 .. n -> [D -> D]]
  PROVE  Recursive(n, D, c, step)
<1> DEFINE P(g, m) == /\ g \in [0 .. m -> D]
                      /\ g[0] = c
                      /\ \A k \in 1 .. m : g[k] = step[k][g[k - 1]]
           S == {m \in Nat : m <= n => \E g : P(g, m)}
<1>1. 0 \in S
  <2>1. P([k \in 0 .. 0 |-> c], 0)
    OBVIOUS
  <2> QED BY <2>1
<1>2. ASSUME NEW m \in Nat, m \in S PROVE m + 1 \in S
  <2> SUFFICES ASSUME m + 1 <= n PROVE \E g : P(g, m + 1)
    OBVIOUS
  <2>1. PICK g : P(g, m)
    BY <1>2
  <2>2. m \in 0 .. m /\ m + 1 \in 1 .. n
    OBVIOUS
  <2>3. g[m] \in D
    BY <2>1, <2>2
  <2> DEFINE top == step[m + 1][g[m]]
             h == [k \in 0 .. m + 1 |-> IF k = m + 1 THEN top ELSE g[k]]
  <2>4. top \in D
    BY <2>2, <2>3
  <2>5. h \in [0 .. m + 1 -> D]
    <3> HIDE DEF top
    <3>1. \A k \in 0 .. m + 1 : k # m + 1 => k \in 0 .. m
      OBVIOUS
    <3> QED BY <2>1, <2>4, <3>1
  <2>6. h[0] = c
    BY <2>1
  <2>7. ASSUME NEW k \in 1 .. m + 1 PROVE h[k] = step[k][h[k - 1]]
    <3>1. CASE k = m + 1
      <4>1. h[k] = top /\ h[k - 1] = g[m]
        BY <3>1
      <4> QED BY <3>1, <4>1
    <3>2. CASE k # m + 1
      <4>1. k \in 1 .. m /\ h[k] = g[k] /\ h[k - 1] = g[k - 1]
        BY <3>2
      <4> QED BY <2>1, <4>1
    <3> QED BY <3>1, <3>2
  <2> HIDE DEF h
  <2>8. P(h, m + 1)
    BY <2>5, <2>6, <2>7
  <2> QED BY <2>8
<1>3. n \in S
  <2> HIDE DEF S
  <2> QED BY <1>1, <1>2, FromZero
<1> QED BY <1>3 DEF Recursive

----------------------------------------------------------------------------
(***************************************************************************)
(* Congruence modulo q.                                                    *)
(***************************************************************************)
Cong(a, b) == \E k \in Int : a = b + q * k

\* The order of the group is greater than two.
LEMMA Order == q \in Nat /\ q > 2 /\ 0 \in Scalar /\ 1 \in Scalar
BY FieldAssumption DEF Scalar

\* A scalar is a number below the order.
LEMMA ScalarIsNat ==
  ASSUME NEW x \in Scalar
  PROVE  x \in Nat /\ x \in Int /\ 0 <= x /\ x < q
BY Order DEF Scalar

\* The remainder of a number is a scalar.
LEMMA ModType ==
  ASSUME NEW a \in Nat
  PROVE  a % q \in Scalar /\ a \div q \in Nat /\ a = q * (a \div q) + (a % q)
<1>1. q \in Nat /\ q > 0
  BY FieldAssumption
<1> QED BY <1>1 DEF Scalar

\* A number is congruent to its remainder.
LEMMA CongMod ==
  ASSUME NEW a \in Nat
  PROVE  Cong(a % q, a)
<1>1. q \in Nat /\ q > 0
  BY FieldAssumption
<1>2. PICK d \in Nat : a = q * d + (a % q)
  BY ModType
<1>3. a % q = a + q * (-d)
  BY <1>1, <1>2, ModType DEF Scalar
<1> QED BY <1>3 DEF Cong

\* Congruence is an equivalence relation.
LEMMA CongRefl ==
  ASSUME NEW a \in Int
  PROVE  Cong(a, a)
BY Order, a = a + q * 0 DEF Cong

\* It is symmetric.
LEMMA CongSym ==
  ASSUME NEW a \in Int, NEW b \in Int, Cong(a, b)
  PROVE  Cong(b, a)
<1>1. PICK k \in Int : a = b + q * k
  BY DEF Cong
<1>2. b = a + q * (-k)
  BY <1>1, Order
<1> QED BY <1>2 DEF Cong

\* It is transitive.
LEMMA CongTrans ==
  ASSUME NEW a \in Int, NEW b \in Int, NEW c \in Int, Cong(a, b), Cong(b, c)
  PROVE  Cong(a, c)
<1>1. PICK k \in Int : a = b + q * k
  BY DEF Cong
<1>2. PICK l \in Int : b = c + q * l
  BY DEF Cong
<1>3. a = c + q * (k + l)
  BY <1>1, <1>2, Order
<1> QED BY <1>3 DEF Cong

\* Products, sums and differences of congruent numbers are congruent.
LEMMA CongTimes ==
  ASSUME NEW a \in Int, NEW b \in Int, NEW c \in Int, NEW d \in Int, Cong(a, b), Cong(c, d)
  PROVE  Cong(a * c, b * d) /\ Cong(a + c, b + d) /\ Cong(a - c, b - d)
<1>1. q \in Nat /\ q > 0
  BY FieldAssumption
<1>2. PICK k \in Int : a = b + q * k
  BY DEF Cong
<1>3. PICK l \in Int : c = d + q * l
  BY DEF Cong
<1>4. a * c = b * d + q * (k * d + b * l + q * k * l)
  BY <1>1, <1>2, <1>3
<1>5. a + c = b + d + q * (k + l) /\ a - c = b - d + q * (k - l)
  BY <1>1, <1>2, <1>3
<1>6. k * d + b * l + q * k * l \in Int
  BY <1>1
<1> QED BY <1>4, <1>5, <1>6 DEF Cong

\* Congruent scalars are equal.
LEMMA CongEqual ==
  ASSUME NEW a \in Scalar, NEW b \in Scalar, Cong(a, b)
  PROVE  a = b
<1>1. q \in Nat /\ q > 0
  BY FieldAssumption
<1>2. PICK k \in Int : a = b + q * k
  BY DEF Cong
<1>3. a \in Nat /\ a < q /\ b \in Nat /\ b < q
  BY <1>1 DEF Scalar
<1>4. ~(k >= 1)
  BY <1>1, <1>2, <1>3
<1>5. ~(k <= -1)
  BY <1>1, <1>2, <1>3
<1> QED BY <1>1, <1>2, <1>3, <1>4, <1>5

\* The operations on scalars are those on integers, modulo q.
LEMMA Operations ==
  ASSUME NEW x \in Nat, NEW y \in Nat
  PROVE  /\ x (+) y \in Scalar /\ x (.) y \in Scalar
         /\ x (+) y \in Int /\ x (.) y \in Int
         /\ Cong(x (+) y, x + y) /\ Cong(x (.) y, x * y)
<1>1. x + y \in Nat /\ x * y \in Nat
  OBVIOUS
<1>2. x (+) y \in Scalar /\ x (.) y \in Scalar
  BY <1>1, ModType DEF (+), (.)
<1>3. Cong(x (+) y, x + y) /\ Cong(x (.) y, x * y)
  BY <1>1, CongMod DEF (+), (.)
<1> QED BY <1>2, <1>3, ScalarIsNat

\* The sum of the group, in the form in which proofs cite it.
LEMMA OpInt ==
  ASSUME NEW x \in Nat, NEW y \in Nat
  PROVE  /\ x (+) y \in Scalar /\ x (+) y \in Nat /\ x (+) y \in Int /\ x + y \in Int
         /\ Cong(x (+) y, x + y)
<1>1. x + y \in Int
  OBVIOUS
<1>2. x (+) y \in Scalar /\ Cong(x (+) y, x + y)
  BY Operations
<1> QED BY <1>1, <1>2, ScalarIsNat

\* Likewise the product of the group.
LEMMA TimesInt ==
  ASSUME NEW x \in Nat, NEW y \in Nat
  PROVE  /\ x (.) y \in Scalar /\ x (.) y \in Nat /\ x (.) y \in Int /\ x * y \in Int
         /\ Cong(x (.) y, x * y)
<1>1. x * y \in Int
  OBVIOUS
<1>2. x (.) y \in Scalar /\ Cong(x (.) y, x * y)
  BY Operations
<1> QED BY <1>1, <1>2, ScalarIsNat

\* Likewise the difference.
LEMMA Difference ==
  ASSUME NEW x \in Nat, NEW y \in Scalar
  PROVE  x (-) y \in Scalar /\ x (-) y \in Int /\ Cong(x (-) y, x - y)
<1>1. x + q - y \in Nat /\ x - y \in Int /\ x + q - y \in Int
  BY Order, ScalarIsNat
<1>2. x (-) y \in Scalar
  BY <1>1, ModType DEF (-)
<1>3. Cong(x (-) y, x + q - y)
  BY <1>1, CongMod DEF (-)
<1>4. Cong(x + q - y, x - y)
  BY Order, ScalarIsNat, x + q - y = (x - y) + q * 1 DEF Cong
<1>5. x (-) y \in Int
  BY <1>2, ScalarIsNat
<1> QED BY <1>1, <1>2, <1>3, <1>4, <1>5, CongTrans
\* A sum in the group is congruent to the sum of congruent numbers.
LEMMA PlusCong ==
  ASSUME NEW x \in Nat, NEW y \in Nat, NEW a \in Int, NEW b \in Int, Cong(x, a), Cong(y, b)
  PROVE  x (+) y \in Scalar /\ Cong(x (+) y, a + b)
<1>1. x (+) y \in Scalar /\ x (+) y \in Int /\ Cong(x (+) y, x + y)
  BY Operations
<1>2. Cong(x + y, a + b)
  BY CongTimes
<1>3. x + y \in Int /\ a + b \in Int
  OBVIOUS
<1> QED BY <1>1, <1>2, <1>3, CongTrans

\* Likewise a product in the group.
LEMMA TimesCong ==
  ASSUME NEW x \in Nat, NEW y \in Nat, NEW a \in Int, NEW b \in Int, Cong(x, a), Cong(y, b)
  PROVE  x (.) y \in Scalar /\ Cong(x (.) y, a * b)
<1>1. x (.) y \in Scalar /\ x (.) y \in Int /\ Cong(x (.) y, x * y)
  BY Operations
<1>2. Cong(x * y, a * b)
  BY CongTimes
<1>3. x * y \in Int /\ a * b \in Int
  OBVIOUS
<1> QED BY <1>1, <1>2, <1>3, CongTrans

\* Likewise a difference in the group.
LEMMA MinusCong ==
  ASSUME NEW x \in Nat, NEW y \in Scalar, NEW a \in Int, NEW b \in Int, Cong(x, a), Cong(y, b)
  PROVE  x (-) y \in Scalar /\ Cong(x (-) y, a - b)
<1>0. y \in Int
  BY ScalarIsNat
<1>1. x (-) y \in Scalar /\ x (-) y \in Int /\ Cong(x (-) y, x - y)
  BY Difference
<1>2. Cong(x - y, a - b)
  BY <1>0, CongTimes
<1>3. x - y \in Int /\ a - b \in Int
  BY <1>0
<1> QED BY <1>1, <1>2, <1>3, CongTrans

\* Congruent numbers can be multiplied by a number, on the left.
LEMMA Scaled ==
  ASSUME NEW a \in Int, NEW x \in Int, NEW y \in Int, Cong(x, y)
  PROVE  a * x \in Int /\ a * y \in Int /\ Cong(a * x, a * y)
<1>1. Cong(a, a)
  BY CongRefl
<1>2. Cong(a * x, a * y)
  BY <1>1, CongTimes
<1> QED BY <1>2

\* They can be multiplied on the right.
LEMMA ScaledRight ==
  ASSUME NEW a \in Int, NEW x \in Int, NEW y \in Int, Cong(x, y)
  PROVE  x * a \in Int /\ y * a \in Int /\ Cong(x * a, y * a)
<1>1. Cong(a, a)
  BY CongRefl
<1>2. Cong(x * a, y * a)
  BY <1>1, CongTimes
<1> QED BY <1>2

\* Congruences can be added.
LEMMA CongSum ==
  ASSUME NEW a \in Int, NEW b \in Int, NEW x \in Int, NEW y \in Int, Cong(a, b), Cong(x, y)
  PROVE  a + x \in Int /\ b + y \in Int /\ Cong(a + x, b + y)
BY CongTimes

\* A number can be added to both sides.
LEMMA CongAdd ==
  ASSUME NEW a \in Int, NEW b \in Int, NEW c \in Int, Cong(a, b)
  PROVE  Cong(a + c, b + c)
BY CongSum, CongRefl

----------------------------------------------------------------------------
(***************************************************************************)
(* Sums, products, powers and hashes satisfy their recursions.             *)
(***************************************************************************)
\* A vector of n natural numbers.
Vector(v, n) == v \in [1 .. n -> Nat]

\* The recursion that defines a sum.
LEMMA SumEquation ==
  ASSUME NEW n \in Nat, NEW v, Vector(v, n)
  PROVE  \E s \in [0 .. n -> Scalar] :
           /\ s[0] = 0 /\ Sum(v) = s[n]
           /\ \A k \in 1 .. n : s[k] = s[k - 1] (+) v[k]
<1> DEFINE step == [k \in 1 .. n |-> [x \in Scalar |-> x (+) v[k]]]
           P(g) == g = [k \in 0 .. Len(v) |-> IF k = 0 THEN 0 ELSE g[k - 1] (+) v[k]]
           s == CHOOSE g : P(g)
<1>1. ASSUME NEW k \in 1 .. n, NEW x \in Scalar PROVE x (+) v[k] \in Scalar
  BY Operations, ScalarIsNat DEF Vector
<1>2. step \in [1 .. n -> [Scalar -> Scalar]]
  BY <1>1
<1>3. PICK g \in [0 .. n -> Scalar] : g[0] = 0 /\ \A k \in 1 .. n : g[k] = step[k][g[k - 1]]
  <2> HIDE DEF step
  <2>1. Recursive(n, Scalar, 0, step)
    BY <1>2, Order, Recursion
  <2> QED BY <2>1 DEF Recursive
<1>4. \A k \in 1 .. n : k - 1 \in 0 .. n /\ g[k - 1] \in Scalar
  BY <1>3
<1>5. \A k \in 1 .. n : g[k] = g[k - 1] (+) v[k]
  BY <1>3, <1>4
<1>6. Len(v) = n
  BY DEF Vector
<1>7. P(g)
  BY <1>3, <1>5, <1>6
<1>8. P(s)
  BY <1>7, Zenon
<1>9. Sum(v) = s[Len(v)]
  BY Zenon DEF Sum
<1> HIDE DEF s
<1>10. s[0] = 0 /\ \A k \in 1 .. n : s[k] = s[k - 1] (+) v[k]
  BY <1>6, <1>8
<1>11. s \in [0 .. n -> Scalar]
  <2> DEFINE S == {k \in Nat : k <= n => s[k] \in Scalar}
  <2>1. 0 \in S
    BY <1>10, Order
  <2>2. ASSUME NEW k \in Nat, k \in S PROVE k + 1 \in S
    <3> SUFFICES ASSUME k + 1 <= n PROVE s[k + 1] \in Scalar
      OBVIOUS
    <3>1. k + 1 \in 1 .. n /\ (k + 1) - 1 = k /\ s[k] \in Scalar
      BY <2>2
    <3>2. s[k + 1] = s[k] (+) v[k + 1]
      BY <1>10, <3>1
    <3> QED BY <1>1, <3>1, <3>2
  <2>3. \A k \in Nat : k \in S
    <3> HIDE DEF S
    <3> QED BY <2>1, <2>2, FromZero
  <2>4. \A k \in 0 .. n : s[k] \in Scalar
    BY <2>3
  <2>5. \E h : s = [k \in 0 .. n |-> h[k]]
    <3> DEFINE h == [k \in 0 .. n |-> IF k = 0 THEN 0 ELSE s[k - 1] (+) v[k]]
    <3>1. s = h
      BY <1>6, <1>8
    <3>2. h = [k \in 0 .. n |-> h[k]]
      OBVIOUS
    <3> QED BY <3>1, <3>2
  <2> QED BY <2>4, <2>5
<1> QED BY <1>6, <1>9, <1>10, <1>11

\* A sum is a scalar.
LEMMA SumType ==
  ASSUME NEW n \in Nat, NEW v, Vector(v, n)
  PROVE  Sum(v) \in Scalar /\ Sum(v) \in Nat /\ Sum(v) \in Int
<1>1. PICK s \in [0 .. n -> Scalar] : Sum(v) = s[n]
  BY SumEquation
<1> QED BY <1>1, ScalarIsNat

\* One step of a sum of linear combinations.
LEMMA LinearStep ==
  ASSUME NEW r \in Nat, NEW s \in Nat, NEW t \in Nat, NEW u \in Nat, NEW v \in Nat, NEW w \in Nat,
         NEW a \in Int, NEW b \in Int, Cong(t, a * r + b * s), Cong(w, a * u + b * v)
  PROVE  Cong(t (+) w, a * (r (+) u) + b * (s (+) v))
<1> DEFINE lhs == a * (r (+) u) + b * (s (+) v)
           rhs == a * (r + u) + b * (s + v)
<1>1. r (+) u \in Int /\ r + u \in Int /\ Cong(r (+) u, r + u)
  BY OpInt, Zenon
<1>2. s (+) v \in Int /\ s + v \in Int /\ Cong(s (+) v, s + v)
  BY OpInt, Zenon
<1>3. a * (r (+) u) \in Int /\ a * (r + u) \in Int /\ Cong(a * (r (+) u), a * (r + u))
  BY <1>1, Scaled
<1>4. b * (s (+) v) \in Int /\ b * (s + v) \in Int /\ Cong(b * (s (+) v), b * (s + v))
  BY <1>2, Scaled
<1>5. Cong(lhs, rhs) /\ lhs \in Int /\ rhs \in Int
  BY <1>3, <1>4, CongSum
<1>6. a * r + b * s \in Int /\ a * u + b * v \in Int
  OBVIOUS
<1>7. Cong(t (+) w, (a * r + b * s) + (a * u + b * v)) /\ t (+) w \in Scalar
  BY <1>6, PlusCong
<1>8. (a * r + b * s) + (a * u + b * v) = rhs
  OBVIOUS
<1>9. t (+) w \in Int
  BY <1>7, ScalarIsNat
<1> HIDE DEF lhs, rhs
<1>10. Cong(t (+) w, rhs)
  BY <1>7, <1>8
<1>11. Cong(t (+) w, lhs)
  BY <1>5, <1>9, <1>10, CongSym, CongTrans
<1> QED BY <1>11 DEF lhs

\* A linear combination of vectors sums up to that of their sums.
LEMMA SumLinear ==
  ASSUME NEW n \in Nat, NEW u, NEW v, NEW w, Vector(u, n), Vector(v, n), Vector(w, n),
         NEW a \in Int, NEW b \in Int,
         \A i \in 1 .. n : Cong(w[i], a * u[i] + b * v[i])
  PROVE  Cong(Sum(w), a * Sum(u) + b * Sum(v))
<1>1. PICK r \in [0 .. n -> Scalar] :
        r[0] = 0 /\ Sum(u) = r[n] /\ \A k \in 1 .. n : r[k] = r[k - 1] (+) u[k]
  BY SumEquation
<1>2. PICK s \in [0 .. n -> Scalar] :
        s[0] = 0 /\ Sum(v) = s[n] /\ \A k \in 1 .. n : s[k] = s[k - 1] (+) v[k]
  BY SumEquation
<1>3. PICK t \in [0 .. n -> Scalar] :
        t[0] = 0 /\ Sum(w) = t[n] /\ \A k \in 1 .. n : t[k] = t[k - 1] (+) w[k]
  BY SumEquation
<1> DEFINE S == {k \in Nat : k <= n => Cong(t[k], a * r[k] + b * s[k])}
<1>4. 0 \in S
  <2>1. a * 0 + b * 0 = 0
    OBVIOUS
  <2> QED BY <1>1, <1>2, <1>3, <2>1, CongRefl
<1>5. ASSUME NEW k \in Nat, k \in S PROVE k + 1 \in S
  <2> SUFFICES ASSUME k + 1 <= n PROVE Cong(t[k + 1], a * r[k + 1] + b * s[k + 1])
    OBVIOUS
  <2>1. k + 1 \in 1 .. n /\ (k + 1) - 1 = k /\ k \in 0 .. n /\ k + 1 \in 0 .. n
    OBVIOUS
  <2> DEFINE uk == u[k + 1]
             vk == v[k + 1]
             wk == w[k + 1]
             rk == r[k]
             sk == s[k]
             tk == t[k]
  <2>2. uk \in Nat /\ vk \in Nat /\ wk \in Nat /\ Cong(wk, a * uk + b * vk)
    BY <2>1 DEF Vector
  <2>3. rk \in Nat /\ sk \in Nat /\ tk \in Nat /\ Cong(tk, a * rk + b * sk)
    BY <1>5, <2>1, ScalarIsNat
  <2>4. r[k + 1] = rk (+) uk /\ s[k + 1] = sk (+) vk /\ t[k + 1] = tk (+) wk
    BY <1>1, <1>2, <1>3, <2>1
  <2> HIDE DEF uk, vk, wk, rk, sk, tk
  <2>5. Cong(tk (+) wk, a * (rk (+) uk) + b * (sk (+) vk))
    BY <2>2, <2>3, LinearStep
  <2> QED BY <2>4, <2>5
<1>6. n \in S
  <2> HIDE DEF S
  <2> QED BY <1>4, <1>5, FromZero
<1> QED BY <1>1, <1>2, <1>3, <1>6

\* A vector that is a times another sums up to a times its sum; congruent
\* vectors have the same sum.
LEMMA SumScaled ==
  ASSUME NEW n \in Nat, NEW u, NEW w, Vector(u, n), Vector(w, n), NEW a \in Int,
         \A i \in 1 .. n : Cong(w[i], a * u[i])
  PROVE  Cong(Sum(w), a * Sum(u))
<1>1. \A i \in 1 .. n : a * u[i] + 0 * u[i] = a * u[i]
  BY DEF Vector
<1>2. \A i \in 1 .. n : Cong(w[i], a * u[i] + 0 * u[i])
  BY <1>1
<1>3. Cong(Sum(w), a * Sum(u) + 0 * Sum(u))
  BY <1>2, SumLinear
<1>4. a * Sum(u) + 0 * Sum(u) = a * Sum(u)
  BY SumType
<1> QED BY <1>3, <1>4

\* Sums of congruent vectors are equal.
LEMMA SumSame ==
  ASSUME NEW n \in Nat, NEW u, NEW w, Vector(u, n), Vector(w, n),
         \A i \in 1 .. n : Cong(w[i], u[i])
  PROVE  Sum(w) = Sum(u)
<1>1. \A i \in 1 .. n : 1 * u[i] = u[i]
  BY DEF Vector
<1>2. \A i \in 1 .. n : Cong(w[i], 1 * u[i])
  BY <1>1
<1>3. Cong(Sum(w), 1 * Sum(u))
  BY <1>2, SumScaled
<1>4. 1 * Sum(u) = Sum(u)
  BY SumType
<1> QED BY <1>3, <1>4, SumType, CongEqual

\* A vector of zeros sums to zero.
LEMMA SumZero ==
  ASSUME NEW n \in Nat, NEW w, Vector(w, n), \A i \in 1 .. n : Cong(w[i], 0)
  PROVE  Sum(w) = 0
<1>1. \A i \in 1 .. n : 0 * w[i] = 0
  BY DEF Vector
<1>2. \A i \in 1 .. n : Cong(w[i], 0 * w[i])
  BY <1>1
<1>3. Cong(Sum(w), 0 * Sum(w))
  BY <1>2, SumScaled
<1>4. 0 * Sum(w) = 0
  BY SumType
<1> QED BY <1>3, <1>4, SumType, CongEqual, Order

\* One step of the sums of vectors that differ in one place.
LEMMA OneStep ==
  ASSUME NEW t \in Nat, NEW r \in Nat, NEW w \in Nat, NEW u \in Nat, NEW a \in Nat, NEW b \in Nat
  PROVE  /\ Cong(t, r) /\ Cong(w, u) => Cong(t (+) w, r (+) u)
         /\ Cong(t, r) => Cong((t (+) w) + u, (r (+) u) + w)
         /\ Cong(t + a, r + b) /\ Cong(w, u) => Cong((t (+) w) + a, (r (+) u) + b)
<1>1. t (+) w \in Int /\ t + w \in Int /\ Cong(t (+) w, t + w)
  BY OpInt
<1>2. r (+) u \in Int /\ r + u \in Int /\ Cong(r (+) u, r + u)
  BY OpInt
<1>3. Cong(r + u, r (+) u)
  BY <1>2, CongSym
<1> t \in Int /\ r \in Int /\ w \in Int /\ u \in Int /\ a \in Int /\ b \in Int
  OBVIOUS
<1>4. ASSUME Cong(t, r), Cong(w, u) PROVE Cong(t (+) w, r (+) u)
  <2>1. Cong(t + w, r + u)
    BY <1>4, CongSum
  <2> QED BY <1>1, <1>2, <1>3, <2>1, CongTrans
<1>5. ASSUME Cong(t, r) PROVE Cong((t (+) w) + u, (r (+) u) + w)
  <2>1. Cong((t (+) w) + u, (t + w) + u) /\ Cong((r + u) + w, (r (+) u) + w)
    BY <1>1, <1>2, <1>3, CongAdd, Zenon
  <2>2. (t + w) + u = t + (u + w) /\ (r + u) + w = r + (u + w) /\ u + w \in Int
    OBVIOUS
  <2>3. Cong(t + (u + w), r + (u + w))
    BY <1>5, <2>2, CongAdd, Zenon
  <2>4. (t (+) w) + u \in Int /\ (r (+) u) + w \in Int /\ t + (u + w) \in Int /\ r + (u + w) \in Int
    BY <1>1, <1>2
  <2> QED BY <2>1, <2>2, <2>3, <2>4, CongTrans
<1>6. ASSUME Cong(t + a, r + b), Cong(w, u) PROVE Cong((t (+) w) + a, (r (+) u) + b)
  <2>1. Cong((t (+) w) + a, (t + w) + a) /\ Cong((r + u) + b, (r (+) u) + b)
    BY <1>1, <1>2, <1>3, CongAdd, Zenon
  <2>2. (t + w) + a = (t + a) + w /\ (r + u) + b = (r + b) + u
    OBVIOUS
  <2>3. Cong((t + a) + w, (r + b) + u)
    BY <1>6, CongSum
  <2>4. (t (+) w) + a \in Int /\ (r (+) u) + b \in Int /\ (t + a) + w \in Int /\ (r + b) + u \in Int
    BY <1>1, <1>2
  <2> QED BY <2>1, <2>2, <2>3, <2>4, CongTrans
<1> QED BY <1>4, <1>5, <1>6

\* Vectors that differ in one place have sums that differ as much.
LEMMA SumOne ==
  ASSUME NEW n \in Nat, NEW u, NEW w, Vector(u, n), Vector(w, n), NEW i \in 1 .. n,
         \A j \in 1 .. n : j # i => Cong(w[j], u[j])
  PROVE  Cong(Sum(w) + u[i], Sum(u) + w[i])
<1>1. PICK r \in [0 .. n -> Scalar] :
        r[0] = 0 /\ Sum(u) = r[n] /\ \A k \in 1 .. n : r[k] = r[k - 1] (+) u[k]
  BY SumEquation
<1>2. PICK t \in [0 .. n -> Scalar] :
        t[0] = 0 /\ Sum(w) = t[n] /\ \A k \in 1 .. n : t[k] = t[k - 1] (+) w[k]
  BY SumEquation
<1> DEFINE a == u[i]
           b == w[i]
           P(k) == IF k < i THEN Cong(t[k], r[k]) ELSE Cong(t[k] + a, r[k] + b)
           S == {k \in Nat : k <= n => P(k)}
<1>3. a \in Nat /\ b \in Nat
  BY DEF Vector
<1>4. 0 \in S
  BY <1>1, <1>2, CongRefl
<1>5. ASSUME NEW k \in Nat, k \in S PROVE k + 1 \in S
  <2> SUFFICES ASSUME k + 1 <= n PROVE P(k + 1)
    OBVIOUS
  <2>1. k + 1 \in 1 .. n /\ (k + 1) - 1 = k /\ k \in 0 .. n /\ k + 1 \in 0 .. n
    OBVIOUS
  <2>2. P(k)
    BY <1>5
  <2>3. r[k] \in Nat /\ t[k] \in Nat /\ u[k + 1] \in Nat /\ w[k + 1] \in Nat
    BY <2>1, ScalarIsNat DEF Vector
  <2>4. r[k + 1] = r[k] (+) u[k + 1] /\ t[k + 1] = t[k] (+) w[k + 1]
    BY <1>1, <1>2, <2>1
  <2>5. CASE k + 1 < i
    <3>1. Cong(t[k], r[k]) /\ Cong(w[k + 1], u[k + 1])
      BY <2>1, <2>2, <2>5
    <3>2. Cong(t[k] (+) w[k + 1], r[k] (+) u[k + 1])
      BY <2>3, <3>1, OneStep, Zenon
    <3> QED BY <2>4, <2>5, <3>2
  <2>6. CASE k + 1 = i
    <3>1. Cong(t[k], r[k]) /\ u[k + 1] = a /\ w[k + 1] = b
      BY <2>2, <2>6
    <3> HIDE DEF a, b
    <3>2. Cong((t[k] (+) w[k + 1]) + u[k + 1], (r[k] (+) u[k + 1]) + w[k + 1])
      BY <2>3, <3>1, OneStep, Zenon
    <3> QED BY <2>4, <2>6, <3>1, <3>2
  <2>7. CASE k + 1 > i
    <3>1. Cong(t[k] + a, r[k] + b) /\ Cong(w[k + 1], u[k + 1])
      BY <2>1, <2>2, <2>7
    <3> HIDE DEF a, b
    <3>2. Cong((t[k] (+) w[k + 1]) + a, (r[k] (+) u[k + 1]) + b)
      BY <1>3, <2>3, <3>1, OneStep, Zenon
    <3> QED BY <2>4, <2>7, <3>2
  <2> QED BY <1>3, <2>5, <2>6, <2>7
<1>6. n \in S
  <2> HIDE DEF S
  <2> QED BY <1>4, <1>5, FromZero
<1> QED BY <1>1, <1>2, <1>6

\* The recursion that defines a product.
LEMMA ProductEquation ==
  ASSUME NEW n \in Nat, NEW v, Vector(v, n)
  PROVE  \E s \in [0 .. n -> Scalar] :
           /\ s[0] = 1 /\ Product(v) = s[n]
           /\ \A k \in 1 .. n : s[k] = s[k - 1] (.) v[k]
<1> DEFINE step == [k \in 1 .. n |-> [x \in Scalar |-> x (.) v[k]]]
           P(g) == g = [k \in 0 .. Len(v) |-> IF k = 0 THEN 1 ELSE g[k - 1] (.) v[k]]
           s == CHOOSE g : P(g)
<1>1. ASSUME NEW k \in 1 .. n, NEW x \in Scalar PROVE x (.) v[k] \in Scalar
  BY Operations, ScalarIsNat DEF Vector
<1>2. step \in [1 .. n -> [Scalar -> Scalar]]
  BY <1>1
<1>3. PICK g \in [0 .. n -> Scalar] : g[0] = 1 /\ \A k \in 1 .. n : g[k] = step[k][g[k - 1]]
  <2> HIDE DEF step
  <2>1. Recursive(n, Scalar, 1, step)
    BY <1>2, Order, Recursion
  <2> QED BY <2>1 DEF Recursive
<1>4. \A k \in 1 .. n : k - 1 \in 0 .. n /\ g[k - 1] \in Scalar
  BY <1>3
<1>5. \A k \in 1 .. n : g[k] = g[k - 1] (.) v[k]
  BY <1>3, <1>4
<1>6. Len(v) = n
  BY DEF Vector
<1>7. P(g)
  BY <1>3, <1>5, <1>6
<1>8. P(s)
  BY <1>7, Zenon
<1>9. Product(v) = s[Len(v)]
  BY Zenon DEF Product
<1> HIDE DEF s
<1>10. s[0] = 1 /\ \A k \in 1 .. n : s[k] = s[k - 1] (.) v[k]
  BY <1>6, <1>8
<1>11. s \in [0 .. n -> Scalar]
  <2> DEFINE S == {k \in Nat : k <= n => s[k] \in Scalar}
  <2>1. 0 \in S
    BY <1>10, Order
  <2>2. ASSUME NEW k \in Nat, k \in S PROVE k + 1 \in S
    <3> SUFFICES ASSUME k + 1 <= n PROVE s[k + 1] \in Scalar
      OBVIOUS
    <3>1. k + 1 \in 1 .. n /\ (k + 1) - 1 = k /\ s[k] \in Scalar
      BY <2>2
    <3>2. s[k + 1] = s[k] (.) v[k + 1]
      BY <1>10, <3>1
    <3> QED BY <1>1, <3>1, <3>2
  <2>3. \A k \in Nat : k \in S
    <3> HIDE DEF S
    <3> QED BY <2>1, <2>2, FromZero
  <2>4. \A k \in 0 .. n : s[k] \in Scalar
    BY <2>3
  <2>5. \E h : s = [k \in 0 .. n |-> h[k]]
    <3> DEFINE h == [k \in 0 .. n |-> IF k = 0 THEN 1 ELSE s[k - 1] (.) v[k]]
    <3>1. s = h
      BY <1>6, <1>8
    <3>2. h = [k \in 0 .. n |-> h[k]]
      OBVIOUS
    <3> QED BY <3>1, <3>2
  <2> QED BY <2>4, <2>5
<1> QED BY <1>6, <1>9, <1>10, <1>11

\* A product is a scalar.
LEMMA ProductType ==
  ASSUME NEW n \in Nat, NEW v, Vector(v, n)
  PROVE  Product(v) \in Scalar /\ Product(v) \in Nat /\ Product(v) \in Int
<1>1. PICK s \in [0 .. n -> Scalar] : Product(v) = s[n]
  BY ProductEquation
<1> QED BY <1>1, ScalarIsNat

\* A product is congruent to c when it has no factors but those of 1.
LEMMA ProductOnes ==
  ASSUME NEW n \in Nat, NEW v, Vector(v, n), \A i \in 1 .. n : v[i] = 1
  PROVE  Product(v) = 1
<1>1. PICK s \in [0 .. n -> Scalar] :
        s[0] = 1 /\ Product(v) = s[n] /\ \A k \in 1 .. n : s[k] = s[k - 1] (.) v[k]
  BY ProductEquation
<1> DEFINE S == {k \in Nat : k <= n => s[k] = 1}
<1>2. 0 \in S
  BY <1>1
<1>3. ASSUME NEW k \in Nat, k \in S PROVE k + 1 \in S
  <2> SUFFICES ASSUME k + 1 <= n PROVE s[k + 1] = 1
    OBVIOUS
  <2>1. k + 1 \in 1 .. n /\ (k + 1) - 1 = k /\ s[k] = 1
    BY <1>3
  <2>2. s[k + 1] = s[k] (.) v[k + 1]
    BY <1>1, <2>1
  <2>3. s[k + 1] = 1 (.) 1
    BY <2>1, <2>2
  <2>4. 1 (.) 1 = 1
    BY FieldAssumption DEF (.)
  <2> QED BY <2>3, <2>4
<1>4. n \in S
  <2> HIDE DEF S
  <2> QED BY <1>2, <1>3, FromZero
<1> QED BY <1>1, <1>4

\* One step of the products of vectors that differ in one place.
LEMMA FactorStep ==
  ASSUME NEW t \in Nat, NEW r \in Nat, NEW w \in Nat, NEW u \in Nat, NEW c \in Nat
  PROVE  /\ Cong(t, r) /\ w = u => Cong(t (.) w, r (.) u)
         /\ Cong(t, r) /\ Cong(w, c * u) => Cong(t (.) w, c * (r (.) u))
         /\ Cong(t, c * r) /\ w = u => Cong(t (.) w, c * (r (.) u))
<1> t \in Int /\ r \in Int /\ w \in Int /\ u \in Int /\ c \in Int /\ c * u \in Int /\ c * r \in Int
  OBVIOUS
<1>1. t (.) w \in Int /\ t * w \in Int /\ Cong(t (.) w, t * w)
  BY Operations
<1>2. r (.) u \in Int /\ r * u \in Int /\ Cong(r (.) u, r * u)
  BY Operations
<1>3. Cong(r * u, r (.) u)
  BY <1>2, CongSym, Zenon
<1>4. ASSUME Cong(t, r), w = u PROVE Cong(t (.) w, r (.) u)
  <2>1. Cong(t * w, r * u)
    BY <1>4, CongTimes, CongRefl, Zenon
  <2> QED BY <1>1, <1>2, <1>3, <2>1, CongTrans, Zenon
<1>5. c * (r * u) \in Int /\ c * (r (.) u) \in Int /\ Cong(c * (r * u), c * (r (.) u))
  BY <1>2, <1>3, Scaled, Zenon
<1>6. ASSUME Cong(t, r), Cong(w, c * u) PROVE Cong(t (.) w, c * (r (.) u))
  <2>1. Cong(t * w, r * (c * u))
    BY <1>6, CongTimes, Zenon
  <2>2. r * (c * u) = c * (r * u)
    OBVIOUS
  <2>3. Cong(t * w, c * (r * u))
    BY <2>1, <2>2
  <2>4. Cong(t (.) w, c * (r * u))
    BY <1>1, <1>5, <2>3, CongTrans, Zenon
  <2> QED BY <1>1, <1>5, <2>4, CongTrans, Zenon
<1>7. ASSUME Cong(t, c * r), w = u PROVE Cong(t (.) w, c * (r (.) u))
  <2>1. Cong(t * w, (c * r) * u)
    BY <1>7, CongTimes, CongRefl, Zenon
  <2>2. (c * r) * u = c * (r * u)
    OBVIOUS
  <2>3. Cong(t * w, c * (r * u))
    BY <2>1, <2>2
  <2>4. Cong(t (.) w, c * (r * u))
    BY <1>1, <1>5, <2>3, CongTrans, Zenon
  <2> QED BY <1>1, <1>5, <2>4, CongTrans, Zenon
<1> QED BY <1>4, <1>6, <1>7

\* One factor that is c times another makes the product c times the other.
LEMMA ProductOne ==
  ASSUME NEW n \in Nat, NEW u, NEW w, Vector(u, n), Vector(w, n), NEW i \in 1 .. n, NEW c \in Nat,
         \A j \in 1 .. n : j # i => w[j] = u[j],
         Cong(w[i], c * u[i])
  PROVE  Cong(Product(w), c * Product(u))
<1>1. PICK r \in [0 .. n -> Scalar] :
        r[0] = 1 /\ Product(u) = r[n] /\ \A k \in 1 .. n : r[k] = r[k - 1] (.) u[k]
  BY ProductEquation
<1>2. PICK t \in [0 .. n -> Scalar] :
        t[0] = 1 /\ Product(w) = t[n] /\ \A k \in 1 .. n : t[k] = t[k - 1] (.) w[k]
  BY ProductEquation
<1> DEFINE P(k) == IF k < i THEN Cong(t[k], r[k]) ELSE Cong(t[k], c * r[k])
           S == {k \in Nat : k <= n => P(k)}
<1>4. 0 \in S
  BY <1>1, <1>2, CongRefl
<1>5. ASSUME NEW k \in Nat, k \in S PROVE k + 1 \in S
  <2> SUFFICES ASSUME k + 1 <= n PROVE P(k + 1)
    OBVIOUS
  <2>1. k + 1 \in 1 .. n /\ (k + 1) - 1 = k /\ k \in 0 .. n /\ k + 1 \in 0 .. n
    OBVIOUS
  <2>2. P(k)
    BY <1>5
  <2>3. r[k] \in Nat /\ t[k] \in Nat /\ u[k + 1] \in Nat /\ w[k + 1] \in Nat
    BY <2>1, ScalarIsNat DEF Vector
  <2>4. r[k + 1] = r[k] (.) u[k + 1] /\ t[k + 1] = t[k] (.) w[k + 1]
    BY <1>1, <1>2, <2>1
  <2>5. CASE k + 1 < i
    <3>1. Cong(t[k], r[k]) /\ w[k + 1] = u[k + 1]
      BY <2>1, <2>2, <2>5
    <3>2. Cong(t[k] (.) w[k + 1], r[k] (.) u[k + 1])
      BY <2>3, <3>1, FactorStep, Zenon
    <3> QED BY <2>4, <2>5, <3>2
  <2>6. CASE k + 1 = i
    <3>1. Cong(t[k], r[k]) /\ Cong(w[k + 1], c * u[k + 1])
      BY <2>2, <2>6
    <3>2. Cong(t[k] (.) w[k + 1], c * (r[k] (.) u[k + 1]))
      BY <2>3, <3>1, FactorStep, Zenon
    <3> QED BY <2>4, <2>6, <3>2
  <2>7. CASE k + 1 > i
    <3>1. Cong(t[k], c * r[k]) /\ w[k + 1] = u[k + 1]
      BY <2>1, <2>2, <2>7
    <3>2. Cong(t[k] (.) w[k + 1], c * (r[k] (.) u[k + 1]))
      BY <2>3, <3>1, FactorStep, Zenon
    <3> QED BY <2>4, <2>7, <3>2
  <2> QED BY <2>5, <2>6, <2>7
<1>6. n \in S
  <2> HIDE DEF S
  <2> QED BY <1>4, <1>5, FromZero
<1> QED BY <1>1, <1>2, <1>6

----------------------------------------------------------------------------
(***************************************************************************)
(* The order of the group is prime: scalars but zero have inverses.        *)
(***************************************************************************)
LEMMA Multiple ==
  ASSUME NEW x \in 1 .. q - 1
  PROVE  \E k \in Nat : Cong(k * x, 1)
<1> DEFINE S == {d \in Nat : d > 0 /\ \E k \in Nat : Cong(k * x, d)}
<1>1. q \in Nat /\ q > 2 /\ x \in Nat /\ x > 0 /\ x < q
  BY Order
<1>2. x \in S
  <2>1. 1 * x = x /\ Cong(x, x)
    BY <1>1, CongRefl
  <2> QED BY <1>1, <2>1
<1>3. PICK d \in S : \A e \in S : d <= e
  <2> S \in SUBSET Nat
    OBVIOUS
  <2> HIDE DEF S
  <2> QED BY <1>2, LeastOf
<1>4. d \in Nat /\ d > 0 /\ d < q
  BY <1>1, <1>2, <1>3
<1>5. PICK k \in Nat : Cong(k * x, d)
  BY <1>3
<1> DEFINE r == q % d
           e == q \div d
<1>6. r \in Nat /\ e \in Nat /\ r < d /\ q = d * e + r
  BY <1>1, <1>4
<1> HIDE DEF r, e
<1>7. ((q - 1) * e * k) * x = (q - 1) * e * (k * x)
  BY <1>1, <1>5, <1>6
<1>8. (q - 1) * e \in Int /\ k * x \in Int /\ d \in Int
  BY <1>1, <1>4, <1>6
<1>9. Cong((q - 1) * e * (k * x), (q - 1) * e * d)
  BY <1>5, <1>8, Scaled, Zenon
<1>10. Cong((q - 1) * e * d, r)
  <2>1. (q - 1) * e * d = (q - 1) * (q - r)
    BY <1>1, <1>4, <1>6
  <2>2. (q - 1) * (q - r) = r + q * (q - r - 1)
    BY <1>1, <1>6
  <2>3. q - r - 1 \in Int
    BY <1>1, <1>6
  <2> QED BY <2>1, <2>2, <2>3 DEF Cong
<1>11. ((q - 1) * e * k) * x \in Int /\ (q - 1) * e * d \in Int /\ r \in Int
  BY <1>1, <1>4, <1>6
<1>12. Cong(((q - 1) * e * k) * x, r)
  BY <1>7, <1>9, <1>10, <1>11, CongTrans
<1>13. (q - 1) * e * k \in Nat
  <2>1. q - 1 \in Nat
    BY <1>1
  <2> QED BY <2>1, <1>6
<1>14. r = 0
  <2> SUFFICES ASSUME r # 0 PROVE FALSE
    OBVIOUS
  <2>1. r \in S
    <3>1. r > 0
      BY <1>6
    <3> DEFINE l == (q - 1) * e * k
    <3>2. l \in Nat /\ Cong(l * x, r)
      BY <1>12, <1>13
    <3> HIDE DEF l
    <3> QED BY <1>6, <3>1, <3>2
  <2>2. d <= r
    BY <1>3, <2>1
  <2> HIDE DEF S
  <2> QED BY <1>4, <1>6, <2>2
<1>15. d = 1
  BY <1>1, <1>4, <1>14, FieldAssumption DEF r
<1> QED BY <1>5, <1>15

\* The inverse of a scalar but zero is its inverse.
LEMMA InverseType ==
  ASSUME NEW x \in Scalar, x # 0
  PROVE  inverse(x) \in Scalar /\ inverse(x) \in Nat /\ Cong(x * inverse(x), 1)
<1>1. x \in 1 .. q - 1 /\ x \in Nat
  BY Order, ScalarIsNat DEF Scalar
<1>2. PICK k \in Nat : Cong(k * x, 1)
  BY <1>1, Multiple
<1> DEFINE y == k % q
<1>3. y \in Scalar /\ y \in Nat /\ y \in Int /\ Cong(y, k)
  BY ModType, CongMod, ScalarIsNat
<1> HIDE DEF y
<1>4. x \in Int /\ k \in Int /\ 1 \in Int
  BY <1>1
<1>5. x * y \in Int /\ x * k \in Int /\ Cong(x * y, x * k)
  BY <1>3, <1>4, Scaled, Zenon
<1>6. x * k = k * x
  BY <1>1
<1>7. Cong(x * y, 1)
  BY <1>2, <1>4, <1>5, <1>6, CongTrans
<1>8. x (.) y \in Scalar /\ x (.) y \in Int /\ Cong(x (.) y, x * y)
  BY <1>1, <1>3, Operations
<1>9. Cong(x (.) y, 1)
  BY <1>4, <1>5, <1>7, <1>8, CongTrans, Zenon
<1>10. x (.) y = 1
  BY <1>8, <1>9, Order, CongEqual
<1>11. y # 0
  <2> SUFFICES ASSUME y = 0 PROVE FALSE
    OBVIOUS
  <2>1. x * y = 0
    BY <1>1
  <2>2. Cong(0, 1)
    BY <1>7, <2>1
  <2> QED BY <2>2, Order, CongEqual
<1>12. y \in 1 .. q - 1
  BY <1>3, <1>11, Order DEF Scalar
<1> DEFINE z == inverse(x)
<1>13. z \in 1 .. q - 1 /\ x (.) z = 1
  BY <1>10, <1>12 DEF inverse
<1> HIDE DEF z
<1>14. z \in Scalar /\ z \in Nat
  BY <1>13, Order DEF Scalar
<1>15. Cong(x (.) z, x * z) /\ x * z \in Int
  BY <1>1, <1>14, Operations
<1>16. Cong(x * z, 1)
  BY <1>4, <1>13, <1>15, CongSym
<1> QED BY <1>14, <1>16 DEF z

\* A factor that is not zero can be cancelled.
LEMMA Cancel ==
  ASSUME NEW c \in Scalar, c # 0, NEW x \in Int, NEW y \in Int, Cong(c * x, c * y)
  PROVE  Cong(x, y)
<1> DEFINE d == inverse(c)
<1>1. c \in Int /\ d \in Int /\ Cong(c * d, 1)
  BY InverseType, ScalarIsNat
<1> HIDE DEF d
<1>2. c * x \in Int /\ c * y \in Int
  BY <1>1
<1>3. d * (c * x) \in Int /\ d * (c * y) \in Int /\ Cong(d * (c * x), d * (c * y))
  BY <1>1, <1>2, Scaled, Zenon
<1>4. c * d \in Int /\ x * (c * d) \in Int /\ y * (c * d) \in Int /\ x * 1 = x /\ y * 1 = y
        /\ 1 \in Int
  BY <1>1
<1>5. Cong(x * (c * d), x) /\ Cong(y * (c * d), y)
  <2>1. Cong(x * (c * d), x * 1) /\ Cong(y * (c * d), y * 1)
    BY <1>1, <1>4, Scaled, Zenon
  <2> QED BY <1>4, <2>1
<1>6. d * (c * x) = x * (c * d) /\ d * (c * y) = y * (c * d)
  BY <1>1
<1>7. Cong(x * (c * d), y * (c * d))
  BY <1>3, <1>6
<1>8. Cong(x, x * (c * d))
  BY <1>4, <1>5, CongSym
<1>9. Cong(x, y * (c * d))
  BY <1>4, <1>7, <1>8, CongTrans
<1> QED BY <1>4, <1>5, <1>9, CongTrans

\* A scalar that is congruent to zero is zero.
LEMMA NotZero ==
  ASSUME NEW c \in Scalar
  PROVE  Cong(c, 0) <=> c = 0
BY Order, CongEqual, CongRefl, ScalarIsNat

\* A product is zero only if one of the factors is.
LEMMA ProductNotZero ==
  ASSUME NEW n \in Nat, NEW v, Vector(v, n), \A i \in 1 .. n : v[i] \in Scalar /\ v[i] # 0
  PROVE  Product(v) # 0
<1>2. PICK s \in [0 .. n -> Scalar] :
        s[0] = 1 /\ Product(v) = s[n] /\ \A k \in 1 .. n : s[k] = s[k - 1] (.) v[k]
  BY ProductEquation
<1> DEFINE S == {k \in Nat : k <= n => s[k] # 0}
<1>3. 0 \in S
  BY <1>2
<1>4. ASSUME NEW k \in Nat, k \in S PROVE k + 1 \in S
  <2> SUFFICES ASSUME k + 1 <= n, s[k + 1] = 0 PROVE FALSE
    OBVIOUS
  <2>1. k + 1 \in 1 .. n /\ (k + 1) - 1 = k /\ s[k] # 0
    BY <1>4
  <2>2. s[k + 1] = s[k] (.) v[k + 1]
    BY <1>2, <2>1
  <2> DEFINE x == s[k]
             y == v[k + 1]
  <2>3. x \in Scalar /\ x # 0 /\ y \in Scalar /\ y # 0
    BY <2>1
  <2>4. x (.) y = 0
    BY <2>2
  <2> HIDE DEF x, y
  <2>5. x \in Int /\ y \in Int /\ Cong(x (.) y, x * y)
    BY <2>3, Operations, ScalarIsNat
  <2>6. Cong(0, x * y) /\ x * y \in Int /\ x * 0 = 0
    BY <2>4, <2>5
  <2>7. Cong(x * y, x * 0)
    BY <2>6, CongSym
  <2>8. Cong(y, 0)
    BY <2>3, <2>5, <2>7, Cancel
  <2> QED BY <2>3, <2>8, NotZero
<1>5. n \in S
  <2> HIDE DEF S
  <2> QED BY <1>3, <1>4, FromZero
<1> QED BY <1>2, <1>5

----------------------------------------------------------------------------
\* The recursion that defines a power.
LEMMA PowEquation ==
  ASSUME NEW n \in Nat, NEW x \in Nat
  PROVE  \E s \in [0 .. n -> Scalar] :
           /\ s[0] = 1 /\ pow(x, n) = s[n]
           /\ \A k \in 1 .. n : s[k] = s[k - 1] (.) x
<1> DEFINE step == [k \in 1 .. n |-> [y \in Scalar |-> y (.) x]]
           P(g) == g = [k \in 0 .. n |-> IF k = 0 THEN 1 ELSE g[k - 1] (.) x]
           s == CHOOSE g : P(g)
<1>1. ASSUME NEW y \in Scalar PROVE y (.) x \in Scalar
  BY Operations, ScalarIsNat
<1>2. step \in [1 .. n -> [Scalar -> Scalar]]
  BY <1>1
<1>3. PICK g \in [0 .. n -> Scalar] : g[0] = 1 /\ \A k \in 1 .. n : g[k] = step[k][g[k - 1]]
  <2> HIDE DEF step
  <2>1. Recursive(n, Scalar, 1, step)
    BY <1>2, Order, Recursion
  <2> QED BY <2>1 DEF Recursive
<1>4. \A k \in 1 .. n : k - 1 \in 0 .. n /\ g[k - 1] \in Scalar
  BY <1>3
<1>5. \A k \in 1 .. n : g[k] = g[k - 1] (.) x
  BY <1>3, <1>4
<1>7. P(g)
  BY <1>3, <1>5
<1>8. P(s)
  BY <1>7, Zenon
<1>9. pow(x, n) = s[n]
  BY Zenon DEF pow
<1> HIDE DEF s
<1>10. s[0] = 1 /\ \A k \in 1 .. n : s[k] = s[k - 1] (.) x
  BY <1>8
<1>11. s \in [0 .. n -> Scalar]
  <2> DEFINE S == {k \in Nat : k <= n => s[k] \in Scalar}
  <2>1. 0 \in S
    BY <1>10, Order
  <2>2. ASSUME NEW k \in Nat, k \in S PROVE k + 1 \in S
    <3> SUFFICES ASSUME k + 1 <= n PROVE s[k + 1] \in Scalar
      OBVIOUS
    <3>1. k + 1 \in 1 .. n /\ (k + 1) - 1 = k /\ s[k] \in Scalar
      BY <2>2
    <3>2. s[k + 1] = s[k] (.) x
      BY <1>10, <3>1
    <3> QED BY <1>1, <3>1, <3>2
  <2>3. \A k \in Nat : k \in S
    <3> HIDE DEF S
    <3> QED BY <2>1, <2>2, FromZero
  <2>4. \A k \in 0 .. n : s[k] \in Scalar
    BY <2>3
  <2>5. \E h : s = [k \in 0 .. n |-> h[k]]
    <3> DEFINE h == [k \in 0 .. n |-> IF k = 0 THEN 1 ELSE s[k - 1] (.) x]
    <3>1. s = h
      BY <1>8
    <3>2. h = [k \in 0 .. n |-> h[k]]
      OBVIOUS
    <3> QED BY <3>1, <3>2
  <2> QED BY <2>4, <2>5
<1> QED BY <1>9, <1>10, <1>11

\* The next power is the power times the base.
LEMMA PowNext ==
  ASSUME NEW n \in Nat, NEW x \in Nat
  PROVE  /\ pow(x, n) \in Scalar
         /\ pow(x, 0) = 1
         /\ pow(x, n + 1) = pow(x, n) (.) x
<1>1. PICK s \in [0 .. n -> Scalar] :
        s[0] = 1 /\ pow(x, n) = s[n] /\ \A k \in 1 .. n : s[k] = s[k - 1] (.) x
  BY PowEquation
<1>2. n + 1 \in Nat /\ 0 \in Nat
  OBVIOUS
<1>3. PICK t \in [0 .. n + 1 -> Scalar] :
        t[0] = 1 /\ pow(x, n + 1) = t[n + 1] /\ \A k \in 1 .. n + 1 : t[k] = t[k - 1] (.) x
  BY <1>2, PowEquation
<1>4. PICK u \in [0 .. 0 -> Scalar] : u[0] = 1 /\ pow(x, 0) = u[0]
  BY <1>2, PowEquation
<1> DEFINE S == {k \in Nat : k <= n => t[k] = s[k]}
<1>5. 0 \in S
  BY <1>1, <1>3
<1>6. ASSUME NEW k \in Nat, k \in S PROVE k + 1 \in S
  <2> SUFFICES ASSUME k + 1 <= n PROVE t[k + 1] = s[k + 1]
    OBVIOUS
  <2>1. k + 1 \in 1 .. n /\ k + 1 \in 1 .. n + 1 /\ (k + 1) - 1 = k /\ t[k] = s[k]
    BY <1>6
  <2> QED BY <1>1, <1>3, <2>1
<1>7. n \in S
  <2> HIDE DEF S
  <2> QED BY <1>5, <1>6, FromZero
<1>8. n + 1 \in 1 .. n + 1 /\ (n + 1) - 1 = n
  OBVIOUS
<1>9. t[n + 1] = t[n] (.) x
  BY <1>3, <1>8
<1> QED BY <1>1, <1>3, <1>4, <1>7, <1>9

\* A challenge is a natural number.
LEMMA HashType ==
  ASSUME NEW n \in Nat, NEW v, Vector(v, n), NEW seed \in Nat
  PROVE  HashOf(seed, v) \in Scalar
<1> DEFINE e(k, x) == (7 * x + v[k] + k) % (q * q)
           step == [k \in 1 .. n |-> [x \in Nat |-> e(k, x)]]
           P(g) == g = [k \in 0 .. Len(v) |->
                          IF k = 0 THEN seed ELSE e(k, g[k - 1])]
           s == CHOOSE g : P(g)
<1>0. q * q \in Nat /\ q * q > 0
  BY Order
<1>1. ASSUME NEW k \in 1 .. n, NEW x \in Nat PROVE e(k, x) \in Nat
  BY <1>0 DEF Vector
<1> HIDE DEF e
<1>2. step \in [1 .. n -> [Nat -> Nat]]
  BY <1>1
<1>3. PICK g \in [0 .. n -> Nat] : g[0] = seed /\ \A k \in 1 .. n : g[k] = step[k][g[k - 1]]
  <2> HIDE DEF step
  <2>1. Recursive(n, Nat, seed, step)
    BY <1>2, Recursion
  <2> QED BY <2>1 DEF Recursive
<1>4. \A k \in 1 .. n : k - 1 \in 0 .. n /\ g[k - 1] \in Nat
  BY <1>3
<1>5. \A k \in 1 .. n : g[k] = e(k, g[k - 1])
  BY <1>3, <1>4
<1>6. Len(v) = n
  BY DEF Vector
<1>7. P(g)
  BY <1>3, <1>5, <1>6
<1>8. P(s)
  BY <1>7, Zenon
<1>9. HashOf(seed, v) = 1 + (s[Len(v)] % (q - 1))
  BY Zenon DEF HashOf, e
<1> HIDE DEF s
<1>10. s[0] = seed /\ \A k \in 1 .. n : s[k] = e(k, s[k - 1])
  BY <1>6, <1>8
<1> DEFINE S == {k \in Nat : k <= n => s[k] \in Nat}
<1>11. 0 \in S
  BY <1>10
<1>12. ASSUME NEW k \in Nat, k \in S PROVE k + 1 \in S
  <2> SUFFICES ASSUME k + 1 <= n PROVE s[k + 1] \in Nat
    OBVIOUS
  <2>1. k + 1 \in 1 .. n /\ (k + 1) - 1 = k /\ s[k] \in Nat
    BY <1>12
  <2>2. s[k + 1] = e(k + 1, s[k])
    BY <1>10, <2>1
  <2> QED BY <1>1, <2>1, <2>2
<1>13. n \in S
  <2> HIDE DEF S
  <2> QED BY <1>11, <1>12, FromZero
<1>14. s[n] \in Nat
  BY <1>13
<1>15. s[n] % (q - 1) \in 0 .. q - 2
  BY <1>14, Order
<1>16. 1 + (s[n] % (q - 1)) \in Scalar
  BY <1>15, Order DEF Scalar
<1> QED BY <1>6, <1>9, <1>16

\* A vector is a sequence.
LEMMA VectorOf ==
  ASSUME NEW n \in Nat, NEW v, v = [i \in 1 .. n |-> v[i]], \A i \in 1 .. n : v[i] \in Nat
  PROVE  Vector(v, n) /\ v \in Seq(Nat) /\ Len(v) = n
BY DEF Vector

\* The sum of the sums of two vectors.
LEMMA SumAdd ==
  ASSUME NEW n \in Nat, NEW u, NEW v, NEW w, Vector(u, n), Vector(v, n), Vector(w, n),
         \A i \in 1 .. n : w[i] = u[i] (+) v[i]
  PROVE  Sum(w) = Sum(u) (+) Sum(v)
<1> DEFINE one == 1
<1>1. ASSUME NEW i \in 1 .. n PROVE Cong(w[i], one * u[i] + one * v[i])
  <2>1. u[i] \in Nat /\ v[i] \in Nat
    BY DEF Vector
  <2>2. Cong(u[i] (+) v[i], u[i] + v[i])
    BY <2>1, Operations
  <2>3. one * u[i] + one * v[i] = u[i] + v[i]
    BY <2>1
  <2> QED BY <2>2, <2>3
<1>2. one \in Int
  OBVIOUS
<1>2a. Cong(Sum(w), one * Sum(u) + one * Sum(v))
  <2> HIDE DEF one
  <2> QED BY <1>1, <1>2, SumLinear
<1> DEFINE a == Sum(u)
           b == Sum(v)
<1>3. a \in Nat /\ b \in Nat /\ Sum(w) \in Scalar /\ Sum(w) \in Int
  BY SumType
<1>4. Cong(Sum(w), a + b)
  BY <1>2a, <1>3
<1> HIDE DEF a, b, one
<1>4a. a \in Nat /\ b \in Nat
  BY <1>3
<1>5. a (+) b \in Scalar /\ a (+) b \in Int /\ Cong(a (+) b, a + b) /\ a + b \in Int
  BY <1>4a, OpInt, Operations, Zenon
<1>6. Cong(a + b, a (+) b)
  BY <1>5, CongSym
<1>7. Cong(Sum(w), a (+) b)
  BY <1>3, <1>4, <1>5, <1>6, CongTrans
<1>8. Sum(w) = a (+) b
  BY <1>3, <1>5, <1>7, CongEqual
<1> QED BY <1>8 DEF a, b

----------------------------------------------------------------------------
(***************************************************************************)
(* Sums of sums.                                                           *)
(***************************************************************************)
LEMMA SumNext ==
  ASSUME NEW n \in Nat, NEW u, NEW v, Vector(u, n), Vector(v, n + 1),
         \A i \in 1 .. n : v[i] = u[i]
  PROVE  Sum(v) = Sum(u) (+) v[n + 1]
<1>1. PICK s \in [0 .. n -> Scalar] :
        s[0] = 0 /\ Sum(u) = s[n] /\ \A k \in 1 .. n : s[k] = s[k - 1] (+) u[k]
  BY SumEquation
<1>2. n + 1 \in Nat
  OBVIOUS
<1>3. PICK t \in [0 .. n + 1 -> Scalar] :
        t[0] = 0 /\ Sum(v) = t[n + 1] /\ \A k \in 1 .. n + 1 : t[k] = t[k - 1] (+) v[k]
  BY <1>2, SumEquation
<1> DEFINE S == {k \in Nat : k <= n => t[k] = s[k]}
<1>5. 0 \in S
  BY <1>1, <1>3
<1>6. ASSUME NEW k \in Nat, k \in S PROVE k + 1 \in S
  <2> SUFFICES ASSUME k + 1 <= n PROVE t[k + 1] = s[k + 1]
    OBVIOUS
  <2>1. k + 1 \in 1 .. n /\ k + 1 \in 1 .. n + 1 /\ (k + 1) - 1 = k /\ t[k] = s[k]
    BY <1>6
  <2> QED BY <1>1, <1>3, <2>1
<1>7. n \in S
  <2> HIDE DEF S
  <2> QED BY <1>5, <1>6, FromZero
<1>8. n + 1 \in 1 .. n + 1 /\ (n + 1) - 1 = n
  OBVIOUS
<1>9. t[n + 1] = t[n] (+) v[n + 1]
  BY <1>3, <1>8
<1> QED BY <1>1, <1>3, <1>7, <1>9

\* The sum of the sums of the rows is that of the columns.
Rows(A, n)       == [i \in 1 .. n |-> Sum(A[i])]
Column(A, n, j)  == [i \in 1 .. n |-> A[i][j]]
Columns(A, n, m) == [j \in 1 .. m |-> Sum(Column(A, n, j))]

\* The sum of the sums of rows is that of the sums of columns.
LEMMA SumSwap ==
  ASSUME NEW n \in Nat, NEW m \in Nat, NEW A,
         \A i \in 1 .. n : Vector(A[i], m)
  PROVE  Sum(Rows(A, n)) = Sum(Columns(A, n, m))
<1> DEFINE S == {k \in Nat : k <= n => Sum(Rows(A, k)) = Sum(Columns(A, k, m))}
<1>1. ASSUME NEW k \in 0 .. n
      PROVE  /\ Vector(Rows(A, k), k)
             /\ \A j \in 1 .. m : Vector(Column(A, k, j), k)
             /\ Vector(Columns(A, k, m), m)
  <2>1. \A i \in 1 .. k : Vector(A[i], m) /\ Sum(A[i]) \in Nat
    BY SumType
  <2>2. Vector(Rows(A, k), k)
    BY <2>1, VectorOf DEF Rows
  <2>3. ASSUME NEW j \in 1 .. m PROVE Vector(Column(A, k, j), k)
    <3>1. \A i \in 1 .. k : A[i][j] \in Nat
      BY <2>1 DEF Vector
    <3> QED BY <3>1, VectorOf DEF Column
  <2>4. \A j \in 1 .. m : Sum(Column(A, k, j)) \in Nat
    BY <2>3, SumType
  <2>5. Vector(Columns(A, k, m), m)
    BY <2>4, VectorOf DEF Columns
  <2> QED BY <2>2, <2>3, <2>5
<1>2. 0 \in S
  <2>1. 0 \in 0 .. n
    OBVIOUS
  <2>2. \A v : Vector(v, 0) => Sum(v) = 0
    BY SumZero
  <2>3. Sum(Rows(A, 0)) = 0
    BY <1>1, <2>1, <2>2
  <2>4. \A j \in 1 .. m : Sum(Column(A, 0, j)) = 0
    BY <1>1, <2>1, <2>2
  <2>5. \A j \in 1 .. m : Columns(A, 0, m)[j] = 0
    BY <2>4 DEF Columns
  <2>6. Cong(0, 0)
    BY CongRefl
  <2>7. \A j \in 1 .. m : Cong(Columns(A, 0, m)[j], 0)
    BY <2>5, <2>6
  <2>8. Vector(Columns(A, 0, m), m)
    BY <1>1, <2>1
  <2>9. Sum(Columns(A, 0, m)) = 0
    BY <2>7, <2>8, SumZero
  <2> QED BY <2>3, <2>9
<1>3. ASSUME NEW k \in Nat, k \in S PROVE k + 1 \in S
  <2> SUFFICES ASSUME k + 1 <= n PROVE Sum(Rows(A, k + 1)) = Sum(Columns(A, k + 1, m))
    OBVIOUS
  <2>1. k \in 0 .. n /\ k + 1 \in 0 .. n /\ k + 1 \in 1 .. n /\ k + 1 \in Nat
    OBVIOUS
  <2>2. Sum(Rows(A, k)) = Sum(Columns(A, k, m))
    BY <1>3
  <2>3. Vector(A[k + 1], m)
    BY <2>1
  <2>4. Sum(Rows(A, k + 1)) = Sum(Rows(A, k)) (+) Sum(A[k + 1])
    <3>1. Vector(Rows(A, k), k) /\ Vector(Rows(A, k + 1), k + 1)
      BY <1>1, <2>1
    <3>2. \A i \in 1 .. k : Rows(A, k + 1)[i] = Rows(A, k)[i]
      BY DEF Rows
    <3>3. Rows(A, k + 1)[k + 1] = Sum(A[k + 1])
      BY DEF Rows
    <3> QED BY <3>1, <3>2, <3>3, SumNext
  <2>5. ASSUME NEW j \in 1 .. m
        PROVE  Columns(A, k + 1, m)[j] = Columns(A, k, m)[j] (+) A[k + 1][j]
    <3>1. Vector(Column(A, k, j), k) /\ Vector(Column(A, k + 1, j), k + 1)
      BY <1>1, <2>1
    <3>2. \A i \in 1 .. k : Column(A, k + 1, j)[i] = Column(A, k, j)[i]
      BY DEF Column
    <3>3. Column(A, k + 1, j)[k + 1] = A[k + 1][j]
      BY DEF Column
    <3>4. Sum(Column(A, k + 1, j)) = Sum(Column(A, k, j)) (+) A[k + 1][j]
      BY <3>1, <3>2, <3>3, SumNext
    <3> QED BY <3>4 DEF Columns
  <2> DEFINE u == Columns(A, k, m)
             v == A[k + 1]
             w == Columns(A, k + 1, m)
  <2>6. Vector(u, m) /\ Vector(v, m) /\ Vector(w, m)
    BY <1>1, <2>1, <2>3
  <2>7. \A j \in 1 .. m : w[j] = u[j] (+) v[j]
    BY <2>5
  <2> HIDE DEF u, v, w
  <2>8. Sum(w) = Sum(u) (+) Sum(v)
    BY <2>6, <2>7, SumAdd
  <2> QED BY <2>2, <2>4, <2>8 DEF u, v, w
<1>4. n \in S
  <2> HIDE DEF S
  <2> QED BY <1>2, <1>3, FromZero
<1> QED BY <1>4

----------------------------------------------------------------------------
(***************************************************************************)
(* Interpolation.  s are the numbers of n nodes, and D some of their       *)
(* positions: Coefficient is the Lagrange coefficient at zero of the share *)
(* at position i of D, and Moment(s, D, k) the sum of the coefficients     *)
(* times the powers k of the numbers.  Moments but the first are zero.     *)
(***************************************************************************)
Above(s, D, i) == [j \in DOMAIN s |-> IF j \in D \ {i} THEN s[j] ELSE 1]
Below(s, D, i) == [j \in DOMAIN s |-> IF j \in D \ {i} THEN s[j] (-) s[i] ELSE 1]

Coefficient(s, D, i) == Product(Above(s, D, i)) (.) inverse(Product(Below(s, D, i)))

Terms(s, D, k)  == [i \in DOMAIN s |-> IF i \in D THEN pow(s[i], k) (.) Coefficient(s, D, i) ELSE 0]
Moment(s, D, k) == Sum(Terms(s, D, k))

\* Numbers of n different nodes.
Numbers(s, n) ==
  /\ s \in [1 .. n -> Scalar]
  /\ \A i \in 1 .. n : s[i] # 0
  /\ \A i, j \in 1 .. n : i # j => s[i] # s[j]

\* The difference of two scalars is not zero.
LEMMA MinusNotZero ==
  ASSUME NEW x \in Scalar, NEW y \in Scalar, x # y
  PROVE  x (-) y \in Scalar /\ x (-) y # 0
<1> DEFINE d == x (-) y
<1>1. d \in Scalar /\ d \in Int /\ Cong(d, x - y) /\ x \in Int /\ y \in Int /\ x \in Nat
  BY Difference, ScalarIsNat
<1>2. ASSUME d = 0 PROVE FALSE
  <2>1. Cong(0, x - y)
    BY <1>1, <1>2
  <2>2. Cong(0 + y, (x - y) + y)
    BY <1>1, <2>1, CongAdd
  <2>3. 0 + y = y /\ (x - y) + y = x
    BY <1>1
  <2>4. Cong(y, x)
    BY <2>2, <2>3
  <2> QED BY <2>4, CongEqual
<1> QED BY <1>1, <1>2

\* The products of a coefficient, and the coefficient, are scalars.
LEMMA FactorTypes ==
  ASSUME NEW n \in Nat, NEW s, Numbers(s, n), NEW D, NEW i \in 1 .. n
  PROVE  /\ Vector(Above(s, D, i), n) /\ Vector(Below(s, D, i), n)
         /\ Product(Above(s, D, i)) \in Nat
         /\ Product(Below(s, D, i)) \in Scalar /\ Product(Below(s, D, i)) # 0
         /\ Coefficient(s, D, i) \in Scalar /\ Coefficient(s, D, i) \in Nat
<1>1. DOMAIN s = 1 .. n
  BY DEF Numbers
<1>2. \A j \in 1 .. n : Above(s, D, i)[j] \in Nat
  <2>1. \A j \in 1 .. n : s[j] \in Nat
    BY ScalarIsNat DEF Numbers
  <2> QED BY <1>1, <2>1 DEF Above
<1>3. ASSUME NEW j \in 1 .. n
      PROVE  Below(s, D, i)[j] \in Scalar /\ Below(s, D, i)[j] # 0
  <2>1. CASE j \in D \ {i}
    <3>1. s[j] \in Scalar /\ s[i] \in Scalar /\ s[j] # s[i]
      BY <2>1 DEF Numbers
    <3>2. s[j] (-) s[i] \in Scalar /\ s[j] (-) s[i] # 0
      BY <3>1, MinusNotZero
    <3> QED BY <1>1, <2>1, <3>2 DEF Below
  <2>2. CASE j \notin D \ {i}
    BY <1>1, <2>2, Order DEF Below
  <2> QED BY <2>1, <2>2
<1>4. Vector(Above(s, D, i), n)
  BY <1>1, <1>2, VectorOf DEF Above
<1>5. Vector(Below(s, D, i), n)
  <2>1. \A j \in 1 .. n : Below(s, D, i)[j] \in Nat
    BY <1>3, ScalarIsNat
  <2> QED BY <1>1, <2>1, VectorOf DEF Below
<1>6. Product(Above(s, D, i)) \in Nat
  BY <1>4, ProductType
<1>7. Product(Below(s, D, i)) \in Scalar /\ Product(Below(s, D, i)) # 0
  BY <1>3, <1>5, ProductType, ProductNotZero
<1>8. inverse(Product(Below(s, D, i))) \in Nat
  BY <1>7, InverseType
<1>9. Coefficient(s, D, i) \in Scalar
  BY <1>6, <1>8, Operations DEF Coefficient
<1> QED BY <1>4, <1>5, <1>6, <1>7, <1>9, ScalarIsNat

\* Of a1 = x * a0, b1 = d * b0: a1 / b1 is x / d times a0 / b0.
LEMMA Quotients ==
  ASSUME NEW a0 \in Nat, NEW a1 \in Nat, NEW b0 \in Nat, NEW b1 \in Nat, NEW i0 \in Nat,
           NEW i1 \in Nat,
         NEW x \in Nat, NEW d \in Nat,
         Cong(a1, x * a0), Cong(b1, d * b0), Cong(b0 * i0, 1), Cong(b1 * i1, 1)
  PROVE  Cong((a1 * i1) * d, x * (a0 * i0))
<1> a0 \in Int /\ a1 \in Int /\ b0 \in Int /\ b1 \in Int /\ i0 \in Int /\ i1 \in Int
  /\ x \in Int /\ d \in Int
  OBVIOUS
<1>1. PICK k1 \in Int : a1 = x * a0 + q * k1
  BY DEF Cong
<1>2. PICK k2 \in Int : b1 = d * b0 + q * k2
  BY DEF Cong
<1>3. PICK k3 \in Int : b0 * i0 = 1 + q * k3
  BY DEF Cong
<1>4. PICK k4 \in Int : b1 * i1 = 1 + q * k4
  BY DEF Cong
<1>0. q \in Int
  BY Order
<1>5. d * i1 = i0 + q * (k4 * i0 - k2 * i0 * i1 - d * i1 * k3)
  <2> DEFINE m1 == k4 * i0
             m2 == k2 * i0 * i1
             m3 == d * i1 * k3
             lhs == d * (b0 * i0) * i1
             mid == (b1 * i1) * i0
             di == d * i1
  <2>1. lhs = mid - q * m2
    <3>1. lhs = (d * b0) * i0 * i1
      OBVIOUS
    <3>2. (d * b0) * i0 * i1 = (b1 - q * k2) * i0 * i1
      BY <1>0, <1>2
    <3>3. (b1 - q * k2) * i0 * i1 = mid - q * m2
      BY <1>0
    <3> HIDE DEF lhs, mid, m2
    <3> QED BY <3>1, <3>2, <3>3
  <2>2. mid = i0 + q * m1
    BY <1>0, <1>4
  <2>3. lhs = di + q * m3
    BY <1>0, <1>3
  <2>5. m1 \in Int /\ m2 \in Int /\ m3 \in Int /\ di \in Int
    OBVIOUS
  <2> HIDE DEF m1, m2, m3, lhs, mid, di
  <2>7. di = i0 + q * (m1 - m2 - m3)
    BY <1>0, <2>1, <2>2, <2>3, <2>5
  <2> QED BY <2>7 DEF m1, m2, m3, di
<1> DEFINE m == k4 * i0 - k2 * i0 * i1 - d * i1 * k3
           di == d * i1
<1>6. m \in Int /\ di \in Int /\ di = i0 + q * m
  BY <1>5
<1>7. (a1 * i1) * d = a1 * di
  OBVIOUS
<1> HIDE DEF m, di
<1>8. Cong(di, i0)
  BY <1>6 DEF Cong
<1>9. x * a0 \in Int
  OBVIOUS
<1>10. Cong(a1 * di, (x * a0) * i0)
  BY <1>6, <1>8, <1>9, CongTimes, Zenon
<1>11. (x * a0) * i0 = x * (a0 * i0)
  OBVIOUS
<1> QED BY <1>7, <1>10, <1>11

\* A coefficient among more numbers, from that among one less.
LEMMA CoefficientStep ==
  ASSUME NEW n \in Nat, NEW s, Numbers(s, n), NEW D \in SUBSET (1 .. n),
         NEW b \in D, NEW i \in D \ {b}
  PROVE  Cong(Coefficient(s, D, i) * (s[b] (-) s[i]), s[b] * Coefficient(s, D \ {b}, i))
<1> DEFINE E == D \ {b}
           a0 == Product(Above(s, E, i))
           a1 == Product(Above(s, D, i))
           b0 == Product(Below(s, E, i))
           b1 == Product(Below(s, D, i))
           i0 == inverse(b0)
           i1 == inverse(b1)
           x  == s[b]
           d  == s[b] (-) s[i]
<1>1. i \in 1 .. n /\ b \in 1 .. n /\ i # b /\ b \in D /\ b \notin E
  OBVIOUS
<1>2. DOMAIN s = 1 .. n /\ x \in Scalar /\ s[i] \in Scalar /\ x # s[i]
  BY <1>1 DEF Numbers
<1>3. x \in Nat /\ d \in Nat /\ x * 1 = x /\ d * 1 = d /\ x \in Int /\ d \in Int
  BY <1>2, MinusNotZero, ScalarIsNat
<1>4. a0 \in Nat /\ a1 \in Nat /\ b0 \in Scalar /\ b0 # 0 /\ b1 \in Scalar /\ b1 # 0
  BY <1>1, FactorTypes
<1>5. b0 \in Nat /\ b1 \in Nat /\ i0 \in Nat /\ i1 \in Nat /\ Cong(b0 * i0, 1) /\ Cong(b1 * i1, 1)
  BY <1>4, InverseType, ScalarIsNat
<1>6. Cong(a1, x * a0)
  <2> DEFINE u == Above(s, E, i)
             w == Above(s, D, i)
  <2>1. Vector(u, n) /\ Vector(w, n)
    BY <1>1, FactorTypes
  <2>2. \A j \in 1 .. n : j # b => w[j] = u[j]
    BY <1>2 DEF Above
  <2>3. u[b] = 1 /\ w[b] = x
    BY <1>1, <1>2 DEF Above
  <2> HIDE DEF u, w, x
  <2>4. Cong(w[b], x * u[b])
    BY <1>3, <2>3, CongRefl
  <2>5. Cong(Product(w), x * Product(u))
    BY <1>1, <1>3, <2>1, <2>2, <2>4, ProductOne
  <2> QED BY <2>5 DEF u, w
<1>7. Cong(b1, d * b0)
  <2> DEFINE u == Below(s, E, i)
             w == Below(s, D, i)
  <2>1. Vector(u, n) /\ Vector(w, n)
    BY <1>1, FactorTypes
  <2>2. \A j \in 1 .. n : j # b => w[j] = u[j]
    BY <1>2 DEF Below
  <2>3. u[b] = 1 /\ w[b] = d
    BY <1>1, <1>2 DEF Below
  <2> HIDE DEF u, w, d
  <2>4. Cong(w[b], d * u[b])
    BY <1>3, <2>3, CongRefl
  <2>5. Cong(Product(w), d * Product(u))
    BY <1>1, <1>3, <2>1, <2>2, <2>4, ProductOne
  <2> QED BY <2>5 DEF u, w
<1>8. Coefficient(s, D, i) = a1 (.) i1 /\ Coefficient(s, E, i) = a0 (.) i0
  BY DEF Coefficient
<1> HIDE DEF a0, a1, b0, b1, i0, i1, x, d
<1>9. Cong((a1 * i1) * d, x * (a0 * i0))
  BY <1>3, <1>4, <1>5, <1>6, <1>7, Quotients
<1>10. Cong((a1 (.) i1) * d, (a1 * i1) * d) /\ (a1 (.) i1) * d \in Int /\ (a1 * i1) * d \in Int
  <2>1. a1 (.) i1 \in Int /\ a1 * i1 \in Int /\ Cong(a1 (.) i1, a1 * i1)
    BY <1>4, <1>5, TimesInt, Zenon
  <2> QED BY <1>3, <2>1, ScaledRight, Zenon
<1>11. Cong(x * (a0 * i0), x * (a0 (.) i0)) /\ x * (a0 (.) i0) \in Int /\ x * (a0 * i0) \in Int
  <2>1. a0 (.) i0 \in Int /\ a0 * i0 \in Int /\ Cong(a0 (.) i0, a0 * i0)
    BY <1>4, <1>5, TimesInt, Zenon
  <2>2. Cong(a0 * i0, a0 (.) i0)
    BY <2>1, CongSym
  <2> QED BY <1>3, <2>1, <2>2, Scaled, Zenon
<1>12. Cong((a1 (.) i1) * d, x * (a0 * i0))
  BY <1>9, <1>10, <1>11, CongTrans
<1>13. Cong((a1 (.) i1) * d, x * (a0 (.) i0))
  BY <1>10, <1>11, <1>12, CongTrans
<1> QED BY <1>8, <1>13 DEF x, d

\* A term of a moment, as the next power of its number.
LEMMA MomentTerm ==
  ASSUME NEW p \in Nat, NEW y \in Nat, NEW c \in Nat
  PROVE  Cong((p (.) y) (.) c, y * (p (.) c)) /\ (p (.) y) (.) c \in Int /\ y * (p (.) c) \in Int
<1> p \in Int /\ y \in Int /\ c \in Int
  OBVIOUS
<1>1. p (.) y \in Nat /\ p (.) y \in Int /\ p * y \in Int /\ Cong(p (.) y, p * y)
  BY Operations, ScalarIsNat
<1>2. (p (.) y) (.) c \in Int /\ (p (.) y) * c \in Int /\ Cong((p (.) y) (.) c, (p (.) y) * c)
  BY <1>1, TimesInt, Zenon
<1>3. (p * y) * c \in Int /\ Cong((p (.) y) * c, (p * y) * c)
  BY <1>1, ScaledRight, Zenon
<1>4. p (.) c \in Int /\ p * c \in Int /\ Cong(p (.) c, p * c)
  BY TimesInt, Zenon
<1>5. Cong(p * c, p (.) c)
  BY <1>4, CongSym
<1>6. y * (p * c) \in Int /\ y * (p (.) c) \in Int /\ Cong(y * (p * c), y * (p (.) c))
  BY <1>4, <1>5, Scaled, Zenon
<1>7. (p * y) * c = y * (p * c)
  OBVIOUS
<1>8. Cong((p (.) y) * c, y * (p (.) c))
  BY <1>2, <1>3, <1>6, <1>7, CongTrans
<1> QED BY <1>2, <1>6, <1>8, CongTrans

\* A term of the next moment, from two terms of this one.
LEMMA MomentTerms ==
  ASSUME NEW p \in Nat, NEW y \in Scalar, NEW c \in Nat, NEW e \in Nat, NEW x \in Scalar,
         Cong(c * (x (-) y), x * e)
  PROVE  Cong((p (.) y) (.) c, x * (p (.) c) + (-x) * (p (.) e))
<1>1. p \in Int /\ y \in Nat /\ y \in Int /\ c \in Int /\ e \in Int /\ x \in Nat /\ x \in Int
  BY ScalarIsNat
<1>2. p (.) c \in Int /\ p * c \in Int /\ Cong(p (.) c, p * c)
  BY TimesInt, Zenon
<1>3. p (.) e \in Int /\ p * e \in Int /\ Cong(p (.) e, p * e)
  BY TimesInt, Zenon
<1> DEFINE t == x (-) y
           pc == p (.) c
           pe == p (.) e
<1>4. t \in Int /\ Cong(t, x - y)
  BY <1>1, Difference
<1>5. Cong(c * t, x * e)
  OBVIOUS
<1>6. Cong((p (.) y) (.) c, y * pc) /\ (p (.) y) (.) c \in Int
  BY <1>1, MomentTerm
<1> HIDE DEF t, pc, pe
<1>7. PICK k1 \in Int : pc = p * c + q * k1
  BY <1>2 DEF Cong, pc
<1>8. PICK k2 \in Int : pe = p * e + q * k2
  BY <1>3 DEF Cong, pe
<1>9. PICK k3 \in Int : t = (x - y) + q * k3
  BY <1>4 DEF Cong
<1>10. PICK k4 \in Int : c * t = x * e + q * k4
  BY <1>5 DEF Cong
<1>0. q \in Int
  BY Order
<1>11. c * (x - y) = x * e + q * (k4 - c * k3)
  <2>1. c * t = c * (x - y) + q * (c * k3)
    BY <1>0, <1>1, <1>9
  <2> DEFINE m == c * k3
             ct == c * t
             cd == c * (x - y)
             xe == x * e
  <2>2. ct = cd + q * m /\ ct = xe + q * k4 /\ m \in Int /\ cd \in Int /\ xe \in Int
    BY <1>1, <1>10, <2>1
  <2> HIDE DEF m, ct, cd, xe
  <2>3. cd = xe + q * (k4 - m)
    BY <1>0, <2>2
  <2> QED BY <2>3 DEF m, cd, xe
<1> DEFINE m == k4 - c * k3
<1>12. m \in Int
  BY <1>1
<1> HIDE DEF m
<1>13. y * (p * c) = x * (p * c) + (-x) * (p * e) + q * (-(p * m))
  <2>1. p * (c * (x - y)) = p * (x * e + q * m)
    BY <1>11 DEF m
  <2>2. p * (c * (x - y)) = x * (p * c) - y * (p * c)
    BY <1>1
  <2>3. p * (x * e + q * m) = x * (p * e) + q * (p * m)
    BY <1>0, <1>1, <1>12
  <2> DEFINE a1 == x * (p * c)
             a2 == y * (p * c)
             a3 == x * (p * e)
             a4 == p * m
  <2>4. a1 - a2 = a3 + q * a4
    BY <2>1, <2>2, <2>3
  <2>5. a1 \in Int /\ a2 \in Int /\ a3 \in Int /\ a4 \in Int /\ (-x) * (p * e) = - a3
    BY <1>1, <1>12
  <2> HIDE DEF a1, a2, a3, a4
  <2>6. a2 = a1 + (-a3) + q * (-a4)
    BY <1>0, <2>4, <2>5
  <2> QED BY <2>5, <2>6 DEF a1, a2, a3, a4
<1> DEFINE rhs == x * pc + (-x) * pe
           mid == x * (p * c) + (-x) * (p * e)
<1>14. Cong(pc, p * c) /\ Cong(pe, p * e) /\ pc \in Int /\ pe \in Int /\ -x \in Int
  BY <1>1, <1>2, <1>3 DEF pc, pe
<1>15. Cong(mid, rhs) /\ mid \in Int /\ rhs \in Int
  <2>1. Cong(p * c, pc) /\ Cong(p * e, pe)
    BY <1>2, <1>3, <1>14, CongSym
  <2>2. x * (p * c) \in Int /\ x * pc \in Int /\ Cong(x * (p * c), x * pc)
    BY <1>1, <1>2, <1>14, <2>1, Scaled, Zenon
  <2>3. (-x) * (p * e) \in Int /\ (-x) * pe \in Int /\ Cong((-x) * (p * e), (-x) * pe)
    BY <1>3, <1>14, <2>1, Scaled, Zenon
  <2> QED BY <2>2, <2>3, CongSum, Zenon
<1>16. y * (p * c) \in Int /\ Cong(y * (p * c), mid)
  <2>1. y * (p * c) \in Int /\ -(p * m) \in Int
    BY <1>1, <1>12
  <2>2. y * (p * c) = mid + q * (-(p * m))
    BY <1>13
  <2> HIDE DEF mid
  <2> QED BY <2>1, <2>2 DEF Cong
<1>17. y * pc \in Int /\ Cong(y * pc, y * (p * c))
  BY <1>1, <1>2, <1>14, Scaled, Zenon
<1> HIDE DEF rhs, mid
<1>18. Cong(y * pc, mid)
  BY <1>15, <1>16, <1>17, CongTrans
<1>19. Cong(y * pc, rhs)
  BY <1>15, <1>17, <1>18, CongTrans
<1>20. Cong((p (.) y) (.) c, rhs)
  BY <1>6, <1>15, <1>17, <1>19, CongTrans
<1> QED BY <1>20 DEF rhs, pc, pe

\* The terms of a moment, and the moment, are scalars.
LEMMA TermTypes ==
  ASSUME NEW n \in Nat, NEW s, Numbers(s, n), NEW D \in SUBSET (1 .. n), NEW k \in Nat
  PROVE  /\ Vector(Terms(s, D, k), n)
         /\ \A i \in 1 .. n : Terms(s, D, k)[i] =
              IF i \in D THEN pow(s[i], k) (.) Coefficient(s, D, i) ELSE 0
         /\ Moment(s, D, k) \in Scalar /\ Moment(s, D, k) \in Nat /\ Moment(s, D, k) \in Int
<1>1. DOMAIN s = 1 .. n
  BY DEF Numbers
<1>2. ASSUME NEW i \in 1 .. n PROVE pow(s[i], k) (.) Coefficient(s, D, i) \in Nat
  <2>1. s[i] \in Nat
    BY ScalarIsNat DEF Numbers
  <2>2. pow(s[i], k) \in Nat
    BY <2>1, PowNext, ScalarIsNat
  <2>3. Coefficient(s, D, i) \in Nat
    BY FactorTypes
  <2> QED BY <2>2, <2>3, Operations, ScalarIsNat
<1>3. \A i \in 1 .. n : Terms(s, D, k)[i] =
        IF i \in D THEN pow(s[i], k) (.) Coefficient(s, D, i) ELSE 0
  BY <1>1 DEF Terms
<1>4. \A i \in 1 .. n : Terms(s, D, k)[i] \in Nat
  BY <1>2, <1>3
<1>5. Vector(Terms(s, D, k), n)
  BY <1>1, <1>4, VectorOf DEF Terms
<1> QED BY <1>3, <1>5, SumType DEF Moment

\* The moments of D and of D without b.
LEMMA MomentStep ==
  ASSUME NEW n \in Nat, NEW s, Numbers(s, n), NEW D \in SUBSET (1 .. n), NEW b \in D, NEW k \in Nat
  PROVE  Cong(Moment(s, D, k + 1), s[b] * Moment(s, D, k) + (-s[b]) * Moment(s, D \ {b}, k))
<1> DEFINE E == D \ {b}
           u == Terms(s, D, k)
           v == Terms(s, E, k)
           w == Terms(s, D, k + 1)
           x == s[b]
<1>1. k + 1 \in Nat /\ E \in SUBSET (1 .. n)
  OBVIOUS
<1>2. Vector(u, n) /\ Vector(v, n) /\ Vector(w, n)
  BY <1>1, TermTypes
<1>3. x \in Int /\ -x \in Int /\ x \in Nat /\ x \in Scalar
  BY ScalarIsNat DEF Numbers
<1>4. ASSUME NEW i \in 1 .. n PROVE Cong(w[i], x * u[i] + (-x) * v[i])
  <2>1. CASE i \notin D
    <3>1. w[i] = 0 /\ u[i] = 0 /\ v[i] = 0
      BY <1>1, <2>1, TermTypes
    <3>2. x * 0 + (-x) * 0 = 0 /\ Cong(0, 0)
      BY <1>3, CongRefl
    <3> QED BY <3>1, <3>2
  <2>2. CASE i \in D
    <3> DEFINE y == s[i]
               p == pow(y, k)
               c == Coefficient(s, D, i)
               e == Coefficient(s, E, i)
    <3>1. y \in Nat /\ y \in Scalar
      BY ScalarIsNat DEF Numbers
    <3>2. p \in Nat /\ pow(y, k + 1) = p (.) y
      BY <3>1, PowNext, ScalarIsNat
    <3>3. c \in Nat /\ e \in Nat
      BY FactorTypes
    <3>4. u[i] = p (.) c
      BY <2>2, TermTypes
    <3>5. w[i] = pow(y, k + 1) (.) c
      BY <1>1, <2>2, TermTypes
    <3>6. v[i] = IF i = b THEN 0 ELSE p (.) e
      BY <1>1, <2>2, TermTypes
    <3>7. i # b => Cong(c * (x (-) y), x * e)
      BY <2>2, CoefficientStep
    <3>8. i = b => x = y
      OBVIOUS
    <3> HIDE DEF x, y, p, c, e, u, v, w
    <3>9. CASE i = b
      <4>1. v[i] = 0 /\ u[i] \in Int /\ w[i] = (p (.) y) (.) c /\ x = y
        BY <3>2, <3>3, <3>4, <3>5, <3>6, <3>8, <3>9, Operations
      <4>2. Cong((p (.) y) (.) c, x * (p (.) c))
        BY <3>1, <3>2, <3>3, <4>1, MomentTerm, Zenon
      <4>3. x * u[i] + (-x) * v[i] = x * (p (.) c)
        BY <1>3, <3>4, <4>1
      <4> QED BY <4>1, <4>2, <4>3
    <3>10. CASE i # b
      <4>1. v[i] = p (.) e /\ w[i] = (p (.) y) (.) c
        BY <3>2, <3>5, <3>6, <3>10
      <4>2. Cong((p (.) y) (.) c, x * (p (.) c) + (-x) * (p (.) e))
        BY <1>3, <3>1, <3>2, <3>3, <3>7, <3>10, MomentTerms, Zenon
      <4> QED BY <3>4, <4>1, <4>2
    <3> QED BY <3>9, <3>10
  <2> QED BY <2>1, <2>2
<1> HIDE DEF x, u, v, w
<1>5. Cong(Sum(w), x * Sum(u) + (-x) * Sum(v))
  BY <1>2, <1>3, <1>4, SumLinear
<1> QED BY <1>5 DEF x, u, v, w, Moment

----------------------------------------------------------------------------
\* Of one number the first moment is one.
LEMMA MomentsOfOne ==
  ASSUME NEW n \in Nat, NEW s, Numbers(s, n), NEW b \in 1 .. n
  PROVE  Moment(s, {b}, 0) = 1
<1> DEFINE w == Terms(s, {b}, 0)
           u == [i \in 1 .. n |-> 0]
<1>1. DOMAIN s = 1 .. n /\ s[b] \in Nat
  BY ScalarIsNat DEF Numbers
<1>2. Product(Above(s, {b}, b)) = 1
  <2>1. \A j \in 1 .. n : Above(s, {b}, b)[j] = 1
    BY <1>1 DEF Above
  <2> QED BY <2>1, FactorTypes, ProductOnes
<1>3. Product(Below(s, {b}, b)) = 1
  <2>1. \A j \in 1 .. n : Below(s, {b}, b)[j] = 1
    BY <1>1 DEF Below
  <2> QED BY <2>1, FactorTypes, ProductOnes
<1>4. inverse(1) = 1
  <2> DEFINE y == inverse(1)
  <2>1. 1 \in Scalar /\ 1 # 0
    BY Order
  <2>2. y \in Scalar /\ y \in Nat /\ Cong(1 * y, 1)
    BY <2>1, InverseType
  <2> HIDE DEF y
  <2>3. 1 * y = y
    BY <2>2
  <2> QED BY <2>1, <2>2, <2>3, CongEqual DEF y
<1>5. 1 (.) 1 = 1
  BY FieldAssumption DEF (.)
<1>6. Coefficient(s, {b}, b) = 1 /\ pow(s[b], 0) = 1
  BY <1>1, <1>2, <1>3, <1>4, <1>5, PowNext DEF Coefficient
<1>7. {b} \in SUBSET (1 .. n) /\ 0 \in Nat
  OBVIOUS
<1>8. w[b] = 1 /\ \A j \in 1 .. n : j # b => w[j] = 0
  BY <1>5, <1>6, <1>7, TermTypes
<1>9. Vector(w, n)
  BY <1>7, TermTypes
<1>10. Vector(u, n)
  BY VectorOf
<1>11. \A j \in 1 .. n : u[j] = 0
  OBVIOUS
<1> HIDE DEF w, u
<1>12. Cong(0, 0) /\ 0 \in Int
  BY CongRefl
<1>13. Sum(u) = 0
  BY <1>10, <1>11, <1>12, SumZero
<1>14. \A j \in 1 .. n : j # b => Cong(w[j], u[j])
  BY <1>8, <1>11, <1>12
<1>15. Cong(Sum(w) + u[b], Sum(u) + w[b])
  BY <1>9, <1>10, <1>14, SumOne
<1>16. Sum(w) \in Scalar /\ Sum(w) \in Int
  BY <1>9, SumType
<1>17. Cong(Sum(w), 1)
  BY <1>8, <1>11, <1>13, <1>15, <1>16
<1> QED BY <1>16, <1>17, Order, CongEqual DEF w, Moment

\* Two equations that only one pair of moments solves.
LEMMA FirstMoment ==
  ASSUME NEW x \in Scalar, NEW y \in Scalar, x # y, NEW m0 \in Scalar, NEW m1 \in Scalar,
         Cong(m1, x * m0 + (-x) * 1), Cong(m1, y * m0 + (-y) * 1)
  PROVE  m0 = 1 /\ m1 = 0
<1>1. x \in Int /\ x \in Nat /\ y \in Int /\ m0 \in Int /\ m1 \in Int
  BY ScalarIsNat
<1> DEFINE a == x * m0 + (-x) * 1
           b == y * m0 + (-y) * 1
           d == x (-) y
<1>2. a \in Int /\ b \in Int
  BY <1>1
<1>3. d \in Scalar /\ d # 0 /\ d \in Int /\ Cong(d, x - y) /\ x - y \in Int
  BY <1>1, MinusNotZero, Difference
<1>4. (x - y) * m0 = (a - b) + (x - y) * 1
  BY <1>1
<1>5. Cong(a - b, 0)
  <2> HIDE DEF a, b
  <2>1. Cong(a, m1) /\ Cong(b, m1)
    BY <1>1, <1>2, CongSym DEF a, b
  <2>2. Cong(a - b, m1 - m1)
    BY <1>1, <1>2, <2>1, CongTimes
  <2> QED BY <1>1, <2>2
<1>6. (x - y) * 1 = x - y /\ (x - y) * m0 \in Int /\ a - b \in Int /\ 0 + (x - y) = x - y
  BY <1>1, <1>2
<1> HIDE DEF a, b, d
<1>7. Cong((x - y) * m0, (x - y) * 1)
  <2> 0 \in Int
    OBVIOUS
  <2>1. Cong((a - b) + (x - y), 0 + (x - y))
    BY <1>3, <1>5, <1>6, CongAdd, Zenon
  <2> QED BY <1>4, <1>6, <2>1
<1>8. d * m0 \in Int /\ Cong(d * m0, (x - y) * m0)
  BY <1>1, <1>3, ScaledRight, Zenon
<1>9. d * 1 \in Int /\ (x - y) * 1 \in Int /\ Cong((x - y) * 1, d * 1)
  <2>1. d * 1 = d /\ (x - y) * 1 = x - y
    BY <1>3, <1>6
  <2>2. Cong(x - y, d)
    BY <1>3, CongSym
  <2> QED BY <1>3, <2>1, <2>2
<1>10. Cong(d * m0, (x - y) * 1)
  BY <1>6, <1>7, <1>8, <1>9, CongTrans
<1>11. Cong(d * m0, d * 1)
  BY <1>8, <1>9, <1>10, CongTrans
<1>12. Cong(m0, 1)
  BY <1>1, <1>3, <1>11, Cancel
<1>13. m0 = 1
  BY <1>12, Order, CongEqual
<1>14. x * 1 + (-x) * 1 = 0
  BY <1>1
<1>15. Cong(m1, 0)
  BY <1>13, <1>14
<1> QED BY <1>13, <1>15, NotZero

\* Positions are finitely many.
LEMMA FinitePositions ==
  ASSUME NEW n \in Nat, NEW D \in SUBSET (1 .. n)
  PROVE  IsFiniteSet(D)
<1>1. 1 \in Int /\ n \in Int
  OBVIOUS
<1>2. IsFiniteSet(1 .. n)
  BY <1>1, FS_Interval
<1> QED BY <1>2, FS_Subset

\* The first moment is one, and those up to the number of positions are zero.
LEMMA Moments ==
  ASSUME NEW n \in Nat, NEW s, Numbers(s, n), NEW m \in Nat
  PROVE  \A D \in SUBSET (1 .. n) : Cardinality(D) = m + 1 =>
           /\ Moment(s, D, 0) = 1
           /\ \A k \in 1 .. m : Moment(s, D, k) = 0
<1> DEFINE Good(D, l) == Moment(s, D, 0) = 1 /\ \A k \in 1 .. l : Moment(s, D, k) = 0
           S == {l \in Nat : \A D \in SUBSET (1 .. n) : Cardinality(D) = l + 1 => Good(D, l)}
<1>1. 0 \in S
  <2>1. ASSUME NEW D \in SUBSET (1 .. n), Cardinality(D) = 0 + 1 PROVE Good(D, 0)
    <3>1. IsFiniteSet(D)
      BY FinitePositions
    <3>2. PICK b : D = {b}
      BY <2>1, <3>1, FS_Singleton
    <3>3. Moment(s, D, 0) = 1
      BY <3>2, MomentsOfOne
    <3> QED BY <3>3
  <2> HIDE DEF Good
  <2> QED BY <2>1
<1>2. ASSUME NEW l \in Nat, l \in S PROVE l + 1 \in S
  <2> SUFFICES ASSUME NEW D \in SUBSET (1 .. n), Cardinality(D) = (l + 1) + 1
               PROVE  Good(D, l + 1)
    <3> HIDE DEF Good
    <3> QED OBVIOUS
  <2>1. IsFiniteSet(D)
    BY FinitePositions
  <2>2. ASSUME NEW b \in D PROVE Good(D \ {b}, l)
    <3>1. Cardinality(D \ {b}) = l + 1
      BY <2>1, FS_RemoveElement
    <3>2. D \ {b} \in SUBSET (1 .. n)
      OBVIOUS
    <3> HIDE DEF Good
    <3> QED BY <1>2, <3>1, <3>2
  <2>3. PICK a \in D : TRUE
    <3>1. D # {}
      BY FS_EmptySet
    <3> QED BY <3>1
  <2>4. PICK b \in D : b # a
    <3>1. D # {a}
      BY FS_Singleton
    <3> QED BY <2>3, <3>1
  <2> DEFINE M(k) == Moment(s, D, k)
             x == s[a]
             y == s[b]
  <2>5. x \in Scalar /\ y \in Scalar /\ x # y
    BY <2>4 DEF Numbers
  <2>6. x \in Int /\ y \in Int /\ x \in Nat /\ y \in Nat
    BY <2>5, ScalarIsNat
  <2>7. ASSUME NEW k \in Nat PROVE M(k) \in Scalar /\ M(k) \in Int /\ M(k) \in Nat
    BY TermTypes
  <2>8. ASSUME NEW e \in D, NEW k \in Nat
        PROVE  Cong(M(k + 1), s[e] * M(k) + (-s[e]) * Moment(s, D \ {e}, k))
    BY MomentStep
  <2>9. Moment(s, D \ {a}, 0) = 1 /\ Moment(s, D \ {b}, 0) = 1
    BY <2>2
  <2>10. \A k \in 1 .. l : Moment(s, D \ {b}, k) = 0
    BY <2>2
  <2>11. M(0) \in Int /\ M(0) \in Scalar /\ M(1) \in Int /\ M(1) \in Scalar
    BY <2>7
  <2>12. Cong(M(1), x * M(0) + (-x) * 1) /\ Cong(M(1), y * M(0) + (-y) * 1)
    <3>1. 0 \in Nat /\ 0 + 1 = 1
      OBVIOUS
    <3>2. Cong(M(0 + 1), x * M(0) + (-x) * Moment(s, D \ {a}, 0))
      BY <2>8, <3>1, Zenon
    <3>3. Cong(M(0 + 1), y * M(0) + (-y) * Moment(s, D \ {b}, 0))
      BY <2>8, <3>1, Zenon
    <3> QED BY <2>9, <3>1, <3>2, <3>3
  <2> DEFINE m0 == M(0)
             m1 == M(1)
  <2>13. /\ m0 \in Scalar /\ m0 \in Int /\ m1 \in Scalar /\ m1 \in Int
         /\ Cong(m1, x * m0 + (-x) * 1) /\ Cong(m1, y * m0 + (-y) * 1)
    BY <2>11, <2>12
  <2> HIDE DEF m0, m1, M, x, y
  <2>14. m0 = 1 /\ m1 = 0
    BY <2>5, <2>13, FirstMoment
  <2>15. M(0) = 1 /\ M(1) = 0
    BY <2>14 DEF m0, m1
  <2> DEFINE T == {k \in Nat : k <= l => M(k + 1) = 0}
  <2>16. 0 \in T
    <3>1. 0 + 1 = 1
      OBVIOUS
    <3> QED BY <2>15, <3>1
  <2>17. ASSUME NEW k \in Nat, k \in T PROVE k + 1 \in T
    <3> SUFFICES ASSUME k + 1 <= l PROVE M((k + 1) + 1) = 0
      OBVIOUS
    <3>1. k + 1 \in 1 .. l /\ k + 1 \in Nat /\ (k + 1) + 1 \in Nat
      OBVIOUS
    <3>2. M(k + 1) = 0 /\ Moment(s, D \ {b}, k + 1) = 0
      BY <2>10, <2>17, <3>1
    <3>3. Cong(M((k + 1) + 1), y * M(k + 1) + (-y) * Moment(s, D \ {b}, k + 1))
      BY <2>8, <3>1, Zenon DEF y
    <3>4. y * 0 + (-y) * 0 = 0
      BY <2>6
    <3>5. Cong(M((k + 1) + 1), 0)
      BY <3>2, <3>3, <3>4
    <3>6. M((k + 1) + 1) \in Scalar
      BY <2>7, <3>1
    <3> QED BY <3>5, <3>6, NotZero
  <2>18. \A k \in Nat : k \in T
    <3> HIDE DEF T
    <3> QED BY <2>16, <2>17, FromZero
  <2>19. ASSUME NEW k \in 1 .. l + 1 PROVE M(k) = 0
    <3>1. k - 1 \in T /\ k - 1 \in Nat /\ k - 1 <= l /\ (k - 1) + 1 = k
      BY <2>18
    <3>2. M((k - 1) + 1) = 0
      BY <3>1
    <3> QED BY <3>1, <3>2
  <2> QED BY <2>15, <2>19 DEF M
<1>3. m \in S
  <2> HIDE DEF S
  <2> QED BY <1>1, <1>2, FromZero
<1> QED BY <1>3

----------------------------------------------------------------------------
(***************************************************************************)
(* Verdicts on batches.                                                    *)
(***************************************************************************)
LEMMA CongWithout ==
  ASSUME NEW a \in Int, NEW b \in Int, NEW c \in Int, Cong(c + a, c + b)
  PROVE  Cong(a, b)
<1>1. PICK k \in Int : c + a = (c + b) + q * k
  BY DEF Cong
<1>2. a = b + q * k
  BY <1>1, Order
<1> QED BY <1>2 DEF Cong

\* Two equations of sums, and the equations of their terms.
Judged(n, a, b, c, d, batch, single) ==
  /\ a \in [1 .. n -> Scalar] /\ b \in [1 .. n -> Scalar]
  /\ c \in [1 .. n -> Scalar] /\ d \in [1 .. n -> Scalar]
  /\ single \in [1 .. n -> BOOLEAN]
  /\ batch <=> Sum(a) = Sum(b) /\ Sum(c) = Sum(d)
  /\ \A i \in 1 .. n : single[i] <=> a[i] = b[i] /\ c[i] = d[i]

\* Two equations are judged in a batch as they are one by one.
LEMMA Verdicts ==
  ASSUME NEW n \in Nat, NEW a, NEW b, NEW c, NEW d, NEW batch \in BOOLEAN, NEW single,
         Judged(n, a, b, c, d, batch, single)
  PROVE  FollowsFrom(batch, single)
<1> USE DEF Judged
<1> DEFINE failing == {x \in DOMAIN single : ~single[x]}
<1>1. Vector(a, n) /\ Vector(b, n) /\ Vector(c, n) /\ Vector(d, n)
  <2>1. \A v \in [1 .. n -> Scalar] : \A i \in 1 .. n : v[i] \in Nat
    BY ScalarIsNat
  <2>2. \A v \in [1 .. n -> Scalar] : v = [i \in 1 .. n |-> v[i]]
    OBVIOUS
  <2> QED BY <2>1, <2>2, VectorOf
<1>2. DOMAIN single = 1 .. n
  OBVIOUS
<1>3. ASSUME failing = {} PROVE batch
  <2>1. \A i \in 1 .. n : a[i] = b[i] /\ c[i] = d[i]
    BY <1>2, <1>3
  <2>2. \A i \in 1 .. n : Cong(a[i], b[i]) /\ Cong(c[i], d[i])
    BY <2>1, CongRefl, ScalarIsNat
  <2> QED BY <1>1, <2>2, SumSame
<1>4. ASSUME Cardinality(failing) = 1, batch PROVE FALSE
  <2>1. failing \in SUBSET (1 .. n)
    OBVIOUS
  <2>2. IsFiniteSet(failing)
    BY <2>1, FinitePositions
  <2> HIDE DEF failing
  <2>3. PICK x : failing = {x}
    BY <1>4, <2>2, FS_Singleton
  <2>4. x \in 1 .. n /\ ~single[x] /\ \A j \in 1 .. n : j # x => single[j]
    BY <2>3 DEF failing
  <2>5. \A j \in 1 .. n : j # x => Cong(a[j], b[j]) /\ Cong(c[j], d[j])
    BY <2>4, CongRefl, ScalarIsNat
  <2>6. Cong(Sum(a) + b[x], Sum(b) + a[x]) /\ Cong(Sum(c) + d[x], Sum(d) + c[x])
    BY <1>1, <2>4, <2>5, SumOne
  <2>7. Sum(a) = Sum(b) /\ Sum(c) = Sum(d) /\ Sum(b) \in Int /\ Sum(d) \in Int
    BY <1>1, <1>4, SumType
  <2>8. Cong(b[x], a[x]) /\ Cong(d[x], c[x])
    <3> DEFINE sb == Sum(b)
               sd == Sum(d)
    <3>1. sb \in Int /\ sd \in Int /\ Cong(sb + b[x], sb + a[x]) /\ Cong(sd + d[x], sd + c[x])
      BY <2>6, <2>7
    <3>2. a[x] \in Int /\ b[x] \in Int /\ c[x] \in Int /\ d[x] \in Int
      BY <2>4, ScalarIsNat
    <3> HIDE DEF sb, sd
    <3> QED BY <3>1, <3>2, CongWithout
  <2> QED BY <2>4, <2>8, CongEqual
<1> QED BY <1>3, <1>4 DEF FollowsFrom

----------------------------------------------------------------------------
(***************************************************************************)
(* Ciphertexts, and the challenges to them.                                *)
(***************************************************************************)
Cipher == [c1 : Scalar, c2 : Scalar]

\* A hash of numbers is a scalar.
LEMMA HashSeq ==
  ASSUME oracle \in Nat, NEW v \in Seq(Nat)
  PROVE  Hash(v) \in Scalar /\ Hash(v) \in Nat
<1>1. Len(v) \in Nat /\ Vector(v, Len(v))
  BY DEF Vector
<1>2. Hash(v) \in Scalar
  BY <1>1, HashType DEF Hash
<1> QED BY <1>2, ScalarIsNat

\* A vector of scalars is a vector, and a sequence.
LEMMA ScalarVector ==
  ASSUME NEW n \in Nat, NEW v \in [1 .. n -> Scalar]
  PROVE  Vector(v, n) /\ v \in Seq(Nat) /\ v \in Seq(Scalar) /\ Len(v) = n
<1>1. \A i \in 1 .. n : v[i] \in Nat
  BY ScalarIsNat
<1> QED BY <1>1 DEF Vector

\* What encryption returns is a ciphertext.
LEMMA CipherType ==
  ASSUME NEW pk \in Scalar, NEW m \in Nat, NEW r \in Scalar
  PROVE  encrypt_with_randomness(pk, m, r) \in Cipher
<1>1. generator \in Nat /\ r \in Nat /\ pk \in Nat /\ base_point2 \in Nat
  BY ScalarIsNat, BasePointAssumption DEF generator
<1>2. generator (.) r \in Scalar /\ pk (.) r \in Nat /\ base_point2 (.) m \in Nat
  BY <1>1, Operations, ScalarIsNat
<1>3. (pk (.) r) (+) (base_point2 (.) m) \in Scalar
  BY <1>2, Operations
<1> QED BY <1>2, <1>3 DEF encrypt_with_randomness, Cipher

\* A challenge to a ciphertext is a scalar.
LEMMA EncChallengeType ==
  ASSUME oracle \in Nat, NEW pk \in Scalar, NEW c \in Cipher, NEW t \in Cipher
  PROVE  EncChallenge(pk, c, t) \in Scalar
<1>1. /\ pk \in Nat /\ c.c1 \in Nat /\ c.c2 \in Nat /\ t.c1 \in Nat /\ t.c2 \in Nat
  BY ScalarIsNat DEF Cipher
<1>2. <<pk, c.c1, c.c2, t.c1, t.c2>> \in Seq(Nat)
  BY <1>1
<1> QED BY <1>2, HashSeq DEF EncChallenge

\* The inner product of two vectors is a sum.
Products(u, v) == [i \in DOMAIN v |-> u[i] (.) v[i]]

\* An inner product is the sum of the products.
LEMMA DotType ==
  ASSUME NEW n \in Nat, NEW u, NEW v, Vector(u, n), Vector(v, n)
  PROVE  /\ Vector(Products(u, v), n)
         /\ \A i \in 1 .. n : Products(u, v)[i] = u[i] (.) v[i]
         /\ Dot(u, v) = Sum(Products(u, v))
         /\ Dot(u, v) \in Scalar /\ Dot(u, v) \in Nat /\ Dot(u, v) \in Int
<1>1. DOMAIN v = 1 .. n
  BY DEF Vector
<1>2. \A i \in 1 .. n : u[i] (.) v[i] \in Nat
  <2>1. \A i \in 1 .. n : u[i] \in Nat /\ v[i] \in Nat
    BY DEF Vector
  <2> QED BY <2>1, Operations, ScalarIsNat
<1>3. Vector(Products(u, v), n)
  BY <1>1, <1>2 DEF Vector, Products
<1>4. \A i \in 1 .. n : Products(u, v)[i] = u[i] (.) v[i]
  BY <1>1 DEF Products
<1>5. Dot(u, v) = Sum(Products(u, v))
  BY DEF Dot, Products
<1> QED BY <1>3, <1>4, <1>5, SumType

\* The components of ciphertexts.
LEMMA ComponentTypes ==
  ASSUME NEW n \in Nat, NEW c \in [1 .. n -> Cipher]
  PROVE  /\ C1(c) \in [1 .. n -> Scalar] /\ C2(c) \in [1 .. n -> Scalar]
         /\ \A i \in 1 .. n : C1(c)[i] = c[i].c1 /\ C2(c)[i] = c[i].c2
BY DEF C1, C2, Cipher

\* The challenges to a vector of ciphertexts are scalars.
LEMMA EncChallengesType ==
  ASSUME oracle \in Nat, NEW n \in Nat, NEW pk \in Scalar, NEW c \in [1 .. n -> Cipher],
         NEW u \in [1 .. n -> Scalar], NEW v \in [1 .. n -> Scalar]
  PROVE  EncChallenges(pk, c, u, v) \in [1 .. n -> Scalar]
<1>1. ASSUME NEW j \in 1 .. n
      PROVE  EncChallenge(pk, c[j], [c1 |-> u[j], c2 |-> v[j]]) \in Scalar
  BY EncChallengeType DEF Cipher
<1> QED BY <1>1 DEF EncChallenges

EncProof(n) == [c1_vec : [1 .. n -> Scalar], c2_vec : [1 .. n -> Scalar],
                total_zm : Scalar, total_zr : Scalar]

\* The left sides of the two equations of a proof.
LEMMA EncLeftType ==
  ASSUME oracle \in Nat, NEW n \in Nat, NEW pk \in Scalar, NEW c \in [1 .. n -> Cipher],
         NEW prf \in EncProof(n)
  PROVE  EncLeft(prf, pk, c) \in Cipher
<1> DEFINE e == EncChallenges(pk, c, prf.c1_vec, prf.c2_vec)
           u == prf.c1_vec
           v == prf.c2_vec
<1>1. u \in [1 .. n -> Scalar] /\ v \in [1 .. n -> Scalar]
  BY DEF EncProof
<1>2. e \in [1 .. n -> Scalar]
  BY <1>1, EncChallengesType
<1> HIDE DEF e, u, v
<1>3. Vector(u, n) /\ Vector(v, n) /\ Vector(e, n) /\ Vector(C1(c), n) /\ Vector(C2(c), n)
  BY <1>1, <1>2, ScalarVector, ComponentTypes
<1>4. /\ Dot(e, C1(c)) \in Nat /\ Dot(e, C2(c)) \in Nat
      /\ Sum(u) \in Nat /\ Sum(v) \in Nat
  BY <1>3, DotType, SumType
<1>5. Sum(u) (+) Dot(e, C1(c)) \in Scalar /\ Sum(v) (+) Dot(e, C2(c)) \in Scalar
  BY <1>4, Operations
<1> QED BY <1>5 DEF EncLeft, Cipher, e, u, v

----------------------------------------------------------------------------
\* Scalars that are congruent to the same number are equal.
LEMMA CongSame ==
  ASSUME NEW x \in Scalar, NEW y \in Scalar, NEW z \in Int, Cong(x, z), Cong(y, z)
  PROVE  x = y
<1>1. x \in Int /\ y \in Int
  BY ScalarIsNat
<1>2. Cong(z, y)
  BY <1>1, CongSym
<1>3. Cong(x, y)
  BY <1>1, <1>2, CongTrans
<1> QED BY <1>3, CongEqual

\* A scalar that is congruent to a product is the product in the group.
LEMMA CongProduct ==
  ASSUME NEW x \in Scalar, NEW a \in Nat, NEW b \in Nat, Cong(x, a * b)
  PROVE  x = a (.) b
<1>1. a (.) b \in Scalar
  BY Operations
<1>2. a * b \in Int /\ Cong(a (.) b, a * b)
  BY TimesInt, Zenon
<1> QED BY <1>1, <1>2, CongSame, Zenon

\* The sum of two products in the group.
LEMMA TwoProducts ==
  ASSUME NEW a \in Nat, NEW x \in Nat, NEW b \in Nat, NEW y \in Nat
  PROVE  /\ (a (.) x) (+) (b (.) y) \in Scalar
         /\ Cong((a (.) x) (+) (b (.) y), a * x + b * y)
<1>1. a (.) x \in Nat /\ b (.) y \in Nat /\ Cong(a (.) x, a * x) /\ Cong(b (.) y, b * y)
  BY Operations, ScalarIsNat
<1>2. a * x \in Int /\ b * y \in Int
  OBVIOUS
<1> QED BY <1>1, <1>2, PlusCong

Encrypted(n, pk, m, r, b, d) ==
  /\ Vector(m, n) /\ Vector(r, n) /\ Vector(b, n) /\ Vector(d, n)
  /\ \A i \in 1 .. n : b[i] = generator (.) r[i]
                        /\ d[i] = (pk (.) r[i]) (+) (base_point2 (.) m[i])

\* Ciphertexts of several amounts under one key add up to one of their sum.
LEMMA SumEncrypted ==
  ASSUME NEW n \in Nat, NEW pk \in Scalar, NEW m, NEW r, NEW b, NEW d,
         Encrypted(n, pk, m, r, b, d)
  PROVE  Sum(b) = generator (.) Sum(r) /\ Sum(d) = (pk (.) Sum(r)) (+) (base_point2 (.) Sum(m))
<1> USE DEF Encrypted
<1>1. generator \in Nat /\ generator \in Int /\ pk \in Nat /\ pk \in Int
      /\ base_point2 \in Nat /\ base_point2 \in Int
  BY ScalarIsNat, BasePointAssumption DEF generator
<1>2. \A i \in 1 .. n : m[i] \in Nat /\ r[i] \in Nat
  BY DEF Vector
<1>3. \A i \in 1 .. n : Cong(b[i], generator * r[i])
  BY <1>1, <1>2, Operations
<1>4. ASSUME NEW i \in 1 .. n PROVE Cong(d[i], pk * r[i] + base_point2 * m[i])
  BY <1>1, <1>2, TwoProducts
<1> DEFINE sb == Sum(b)
           sd == Sum(d)
           sr == Sum(r)
           sm == Sum(m)
<1>5. sb \in Scalar /\ sd \in Scalar /\ sr \in Nat /\ sm \in Nat /\ sb \in Int /\ sd \in Int
  BY SumType
<1>6. Cong(sb, generator * sr)
  BY <1>1, <1>3, SumScaled
<1>7. Cong(sd, pk * sr + base_point2 * sm)
  BY <1>1, <1>4, SumLinear
<1> HIDE DEF sb, sd, sr, sm
<1>8. sb = generator (.) sr
  BY <1>1, <1>5, <1>6, CongProduct
<1>9. /\ (pk (.) sr) (+) (base_point2 (.) sm) \in Scalar
      /\ Cong((pk (.) sr) (+) (base_point2 (.) sm), pk * sr + base_point2 * sm)
  BY <1>1, <1>5, TwoProducts
<1>10. pk * sr + base_point2 * sm \in Int
  BY <1>1, <1>5
<1>11. sd = (pk (.) sr) (+) (base_point2 (.) sm)
  <2> DEFINE x == (pk (.) sr) (+) (base_point2 (.) sm)
             y == pk * sr + base_point2 * sm
  <2>1. x \in Scalar /\ x \in Int /\ y \in Int /\ Cong(x, y) /\ Cong(sd, y)
    BY <1>7, <1>9, <1>10, ScalarIsNat
  <2> HIDE DEF x, y
  <2>2. sd = x
    BY <1>5, <2>1, CongSame
  <2> QED BY <2>2 DEF x
<1> QED BY <1>8, <1>11 DEF sb, sd, sr, sm

\* batch_verify judges n proofs that ciphertexts are well formed as verify does.
EncJudged(n, pk, prfs, vecs) ==
  FollowsFrom(BatchEnc_batch_verify(prfs, pk, vecs),
              [i \in 1 .. n |-> BatchEnc_verify(prfs[i], pk, vecs[i])])

\* A batch of proofs that ciphertexts are well formed is judged as its parts.
LEMMA EncBatch ==
  ASSUME oracle \in Nat, NEW n \in Nat, NEW w \in Nat, NEW pk \in Scalar,
         NEW prfs \in [1 .. n -> EncProof(w)], NEW vecs \in [1 .. n -> [1 .. w -> Cipher]]
  PROVE  EncJudged(n, pk, prfs, vecs)
<1> DEFINE left == [i \in 1 .. n |-> EncLeft(prfs[i], pk, vecs[i])]
           zm == [i \in 1 .. n |-> prfs[i].total_zm]
           zr == [i \in 1 .. n |-> prfs[i].total_zr]
           a == C1(left)
           b == [i \in 1 .. n |-> generator (.) zr[i]]
           c == C2(left)
           d == [i \in 1 .. n |-> (pk (.) zr[i]) (+) (base_point2 (.) zm[i])]
<1>1. left \in [1 .. n -> Cipher]
  BY EncLeftType
<1>2. a \in [1 .. n -> Scalar] /\ c \in [1 .. n -> Scalar]
      /\ \A i \in 1 .. n : a[i] = left[i].c1 /\ c[i] = left[i].c2
  <2> HIDE DEF left
  <2> QED BY <1>1, ComponentTypes
<1>3. zm \in [1 .. n -> Scalar] /\ zr \in [1 .. n -> Scalar]
  BY DEF EncProof
<1>4. Vector(zm, n) /\ Vector(zr, n) /\ Sum(zm) \in Scalar /\ Sum(zr) \in Scalar /\ Sum(zm) \in Nat
  <2> HIDE DEF zm, zr
  <2> QED BY <1>3, ScalarVector, SumType
<1>5. ASSUME NEW i \in 1 .. n
      PROVE  encrypt_with_randomness(pk, zm[i], zr[i]) = [c1 |-> b[i], c2 |-> d[i]]
             /\ b[i] \in Scalar /\ d[i] \in Scalar
  <2>1. encrypt_with_randomness(pk, zm[i], zr[i]) \in Cipher
    BY <1>3, CipherType, ScalarIsNat
  <2>2. encrypt_with_randomness(pk, zm[i], zr[i]) = [c1 |-> b[i], c2 |-> d[i]]
    BY DEF encrypt_with_randomness
  <2> QED BY <2>1, <2>2 DEF Cipher
<1>6. b \in [1 .. n -> Scalar] /\ d \in [1 .. n -> Scalar]
  BY <1>5
<1>7. Sum(b) = generator (.) Sum(zr) /\ Sum(d) = (pk (.) Sum(zr)) (+) (base_point2 (.) Sum(zm))
  <2>1. \A i \in 1 .. n : b[i] = generator (.) zr[i]
          /\ d[i] = (pk (.) zr[i]) (+) (base_point2 (.) zm[i])
    OBVIOUS
  <2> HIDE DEF b, d, zm, zr
  <2>2. Vector(b, n) /\ Vector(d, n)
    BY <1>6, ScalarVector
  <2>3. Encrypted(n, pk, zm, zr, b, d)
    BY <1>4, <2>1, <2>2 DEF Encrypted
  <2> QED BY <2>3, SumEncrypted
<1>8. BatchEnc_batch_verify(prfs, pk, vecs) <=> Sum(a) = Sum(b) /\ Sum(c) = Sum(d)
  <2>1. DOMAIN prfs = 1 .. n
    OBVIOUS
  <2> HIDE DEF a, b, c, d
  <2> QED BY <1>7, <2>1 DEF BatchEnc_batch_verify, encrypt_with_randomness, a, c
<1>9. ASSUME NEW i \in 1 .. n
      PROVE  BatchEnc_verify(prfs[i], pk, vecs[i]) <=> a[i] = b[i] /\ c[i] = d[i]
  <2>1. left[i] = EncLeft(prfs[i], pk, vecs[i]) /\ left[i] \in Cipher
    BY <1>1
  <2>2. left[i] = [c1 |-> a[i], c2 |-> c[i]]
    <3> HIDE DEF left
    <3> QED BY <1>2, <2>1 DEF Cipher
  <2> DEFINE right == encrypt_with_randomness(pk, zm[i], zr[i])
  <2>3. right = [c1 |-> b[i], c2 |-> d[i]]
    BY <1>5
  <2>4. BatchEnc_verify(prfs[i], pk, vecs[i]) <=> left[i] = right
    BY DEF BatchEnc_verify
  <2> HIDE DEF left, right, a, b, c, d
  <2> QED BY <2>2, <2>3, <2>4
<1> DEFINE batch == BatchEnc_batch_verify(prfs, pk, vecs)
           single == [i \in 1 .. n |-> BatchEnc_verify(prfs[i], pk, vecs[i])]
<1>10. batch \in BOOLEAN /\ single \in [1 .. n -> BOOLEAN]
  BY DEF BatchEnc_batch_verify, BatchEnc_verify
<1>11. \A i \in 1 .. n : single[i] <=> a[i] = b[i] /\ c[i] = d[i]
  BY <1>9
<1> HIDE DEF batch, single, a, b, c, d
<1>12. FollowsFrom(batch, single)
  <2>1. batch <=> Sum(a) = Sum(b) /\ Sum(c) = Sum(d)
    BY <1>8 DEF batch
  <2>2. Judged(n, a, b, c, d, batch, single)
    BY <1>2, <1>6, <1>10, <1>11, <2>1 DEF Judged
  <2> QED BY <1>10, <2>2, Verdicts
<1> QED BY <1>12 DEF EncJudged, batch, single

----------------------------------------------------------------------------
(***************************************************************************)
(* Shares, and batches of the proofs of shares.                            *)
(***************************************************************************)
LEMMA TimesType ==
  ASSUME NEW n \in Nat, NEW c \in Nat, NEW v \in [1 .. n -> Scalar]
  PROVE  /\ Times(c, v) \in [1 .. n -> Scalar]
         /\ \A i \in 1 .. n : Times(c, v)[i] = c (.) v[i]
         /\ Sum(Times(c, v)) = c (.) Sum(v)
         /\ Sum(Times(c, v)) \in Nat /\ Sum(v) \in Nat
<1>1. \A i \in 1 .. n : c (.) v[i] \in Scalar /\ Cong(c (.) v[i], c * v[i])
  BY Operations, ScalarIsNat
<1>2. Times(c, v) \in [1 .. n -> Scalar] /\ \A i \in 1 .. n : Times(c, v)[i] = c (.) v[i]
  BY <1>1 DEF Times
<1>3. Vector(v, n) /\ Vector(Times(c, v), n)
  BY <1>2, ScalarVector
<1>4. \A i \in 1 .. n : Cong(Times(c, v)[i], c * v[i])
  BY <1>1, <1>2
<1> DEFINE s == Sum(Times(c, v))
           t == Sum(v)
<1>5. s \in Scalar /\ s \in Nat /\ t \in Nat
  BY <1>3, SumType
<1>6. c \in Int
  OBVIOUS
<1>7. Cong(s, c * t)
  BY <1>3, <1>4, <1>6, SumScaled
<1> HIDE DEF s, t
<1>8. s = c (.) t
  BY <1>5, <1>7, CongProduct
<1> QED BY <1>2, <1>5, <1>8 DEF s, t

DecProof(w) == [t1 : Scalar, t2_vec : [1 .. w -> Scalar], zm : Scalar]

\* The challenge to the shares of a node is a scalar.
LEMMA DecChallengeType ==
  ASSUME oracle \in Nat, NEW pk \in Scalar, NEW t1 \in Scalar, NEW t2, NEW c, NEW d, NEW w \in Nat,
         t2 \in [1 .. w -> Scalar], c \in [1 .. w -> Scalar], d \in [1 .. w -> Scalar]
  PROVE  BatchDecChallenge(pk, t1, t2, c, d) \in Scalar
<1>1. pk \in Nat /\ t1 \in Nat /\ t2 \in Seq(Nat) /\ c \in Seq(Nat) /\ d \in Seq(Nat)
  BY ScalarIsNat, ScalarVector
<1>2. <<pk, t1>> \in Seq(Nat)
  BY <1>1
<1>3. <<pk, t1>> \o t2 \o c \o d \in Seq(Nat)
  BY <1>1, <1>2
<1> QED BY <1>3, HashSeq DEF BatchDecChallenge

Sides == [t1 : Scalar, t2 : Scalar]

\* The left sides of the two equations of a proof of shares.
LEMMA DecLeftType ==
  ASSUME oracle \in Nat, NEW w \in Nat, NEW pk \in Scalar, NEW c \in [1 .. w -> Scalar],
         NEW d \in [1 .. w -> Scalar], NEW prf \in DecProof(w)
  PROVE  DecLeft(prf, pk, c, d) \in Sides
<1> DEFINE e == BatchDecChallenge(pk, prf.t1, prf.t2_vec, c, d)
           u == prf.t2_vec
           t == prf.t1
<1>1. t \in Scalar /\ u \in [1 .. w -> Scalar]
  BY DEF DecProof
<1>2. e \in Scalar
  BY <1>1, DecChallengeType
<1> HIDE DEF e, u, t
<1>3. e \in Nat /\ t \in Nat /\ pk \in Nat /\ Sum(u) \in Nat
  BY <1>1, <1>2, ScalarIsNat, ScalarVector, SumType
<1>4. pk (.) e \in Nat /\ Sum(Times(e, d)) \in Nat
  BY <1>3, Operations, TimesType, ScalarIsNat
<1>5. t (+) (pk (.) e) \in Scalar /\ Sum(u) (+) Sum(Times(e, d)) \in Scalar
  BY <1>3, <1>4, Operations
<1> QED BY <1>5 DEF DecLeft, Sides, e, u, t

\* The right sides of these equations.
LEMMA DecRightSides ==
  ASSUME NEW w \in Nat, NEW c \in [1 .. w -> Scalar], NEW z \in Nat
  PROVE  /\ DecRight(z, c) = [t1 |-> generator (.) z, t2 |-> z (.) Sum(c)]
         /\ generator (.) z \in Scalar /\ z (.) Sum(c) \in Scalar
<1>1. Sum(Times(z, c)) = z (.) Sum(c) /\ Sum(c) \in Nat
  BY TimesType
<1>2. generator \in Nat
  BY DEF generator
<1> QED BY <1>1, <1>2, Operations DEF DecRight

\* The two sides of the two equations.
LeftOne(n, prfs, pks, c1, decs) == [i \in 1 .. n |-> DecLeft(prfs[i], pks[i], c1, decs[i]).t1]
LeftTwo(n, prfs, pks, c1, decs) == [i \in 1 .. n |-> DecLeft(prfs[i], pks[i], c1, decs[i]).t2]
RightOne(n, prfs)     == [i \in 1 .. n |-> generator (.) prfs[i].zm]
RightTwo(n, prfs, c1) == [i \in 1 .. n |-> prfs[i].zm (.) Sum(c1)]

\* Proofs of shares, the keys that they are checked with, and the shares.
Shown(n, w, prfs, pks, c1, decs) ==
  /\ c1 \in [1 .. w -> Scalar] /\ prfs \in [1 .. n -> DecProof(w)]
  /\ pks \in [1 .. n -> Scalar] /\ decs \in [1 .. n -> [1 .. w -> Scalar]]

ComparesSums(n, prfs, pks, c1, decs) ==
  /\ LeftOne(n, prfs, pks, c1, decs) \in [1 .. n -> Scalar]
  /\ LeftTwo(n, prfs, pks, c1, decs) \in [1 .. n -> Scalar]
  /\ RightOne(n, prfs) \in [1 .. n -> Scalar]
  /\ RightTwo(n, prfs, c1) \in [1 .. n -> Scalar]
  /\ BatchDec_batch_verify(prfs, pks, c1, decs) <=>
       /\ Sum(LeftOne(n, prfs, pks, c1, decs)) = Sum(RightOne(n, prfs))
       /\ Sum(LeftTwo(n, prfs, pks, c1, decs)) = Sum(RightTwo(n, prfs, c1))

\* The verifier of a batch compares the sums of the sides.
LEMMA DecSums ==
  ASSUME oracle \in Nat, NEW n \in Nat, NEW w \in Nat, NEW c1, NEW prfs, NEW pks, NEW decs,
         Shown(n, w, prfs, pks, c1, decs)
  PROVE  ComparesSums(n, prfs, pks, c1, decs)
<1> USE DEF Shown
<1> DEFINE left == [i \in 1 .. n |-> DecLeft(prfs[i], pks[i], c1, decs[i])]
           zm == [i \in 1 .. n |-> prfs[i].zm]
           a == [i \in 1 .. n |-> left[i].t1]
           b == [i \in 1 .. n |-> generator (.) zm[i]]
           c == [i \in 1 .. n |-> left[i].t2]
           d == [i \in 1 .. n |-> zm[i] (.) Sum(c1)]
<1>1. left \in [1 .. n -> Sides]
  BY DecLeftType
<1>2. a \in [1 .. n -> Scalar] /\ c \in [1 .. n -> Scalar]
  <2> HIDE DEF left
  <2> QED BY <1>1 DEF Sides
<1>3. zm \in [1 .. n -> Scalar]
  BY DEF DecProof
<1>4. Vector(zm, n) /\ Sum(zm) \in Nat
  <2> HIDE DEF zm
  <2> QED BY <1>3, ScalarVector, SumType
<1>5. \A i \in 1 .. n : zm[i] \in Nat
  BY <1>3, ScalarIsNat
<1>6. b \in [1 .. n -> Scalar] /\ d \in [1 .. n -> Scalar]
  <2> HIDE DEF zm
  <2> QED BY <1>5, DecRightSides
<1>7. Sum(b) = generator (.) Sum(zm) /\ Sum(d) = Sum(zm) (.) Sum(c1)
  <2> DEFINE t == Sum(c1)
  <2>1. t \in Nat /\ t \in Int
    BY ScalarVector, SumType
  <2>2. generator \in Nat /\ generator \in Int
    BY DEF generator
  <2>3. \A i \in 1 .. n : b[i] = generator (.) zm[i] /\ d[i] = zm[i] (.) t
    OBVIOUS
  <2>4. Vector(b, n) /\ Vector(d, n) /\ Sum(b) \in Scalar /\ Sum(d) \in Scalar
    <3> HIDE DEF b, d
    <3> QED BY <1>6, ScalarVector, SumType
  <2> HIDE DEF b, d, zm, t
  <2>5. \A i \in 1 .. n : Cong(b[i], generator * zm[i])
    BY <1>5, <2>2, <2>3, Operations
  <2>6. ASSUME NEW i \in 1 .. n PROVE Cong(d[i], t * zm[i])
    <3> DEFINE z == zm[i]
    <3>1. z \in Nat /\ d[i] = z (.) t
      BY <1>5, <2>3
    <3> HIDE DEF z
    <3>2. Cong(z (.) t, z * t)
      BY <2>1, <3>1, TimesInt, Zenon
    <3>3. z * t = t * z
      BY <2>1, <3>1
    <3> QED BY <3>1, <3>2, <3>3 DEF z
  <2>7. Cong(Sum(b), generator * Sum(zm))
    BY <1>4, <2>2, <2>4, <2>5, SumScaled
  <2>8. Cong(Sum(d), t * Sum(zm))
    BY <1>4, <2>1, <2>4, <2>6, SumScaled
  <2>9. Sum(b) = generator (.) Sum(zm)
    BY <1>4, <2>2, <2>4, <2>7, CongProduct
  <2>10. t * Sum(zm) = Sum(zm) * t
    BY <1>4, <2>1
  <2>11. Sum(d) = Sum(zm) (.) t
    BY <1>4, <2>1, <2>4, <2>8, <2>10, CongProduct
  <2> QED BY <2>9, <2>11 DEF t
<1>8. BatchDec_batch_verify(prfs, pks, c1, decs) <=> Sum(a) = Sum(b) /\ Sum(c) = Sum(d)
  <2>1. DOMAIN prfs = 1 .. n /\ DOMAIN left = 1 .. n
    OBVIOUS
  <2>2. DecRight(Sum(zm), c1) = [t1 |-> Sum(b), t2 |-> Sum(d)]
    <3> HIDE DEF zm, b, d
    <3> QED BY <1>4, <1>7, DecRightSides
  <2>3. BatchDec_batch_verify(prfs, pks, c1, decs) <=>
          [t1 |-> Sum(a), t2 |-> Sum(c)] = DecRight(Sum(zm), c1)
    BY <2>1 DEF BatchDec_batch_verify
  <2> HIDE DEF a, b, c, d, zm
  <2> QED BY <2>2, <2>3
<1>9. /\ a = LeftOne(n, prfs, pks, c1, decs) /\ b = RightOne(n, prfs)
      /\ c = LeftTwo(n, prfs, pks, c1, decs) /\ d = RightTwo(n, prfs, c1)
  BY DEF LeftOne, LeftTwo, RightOne, RightTwo
<1> HIDE DEF a, b, c, d
<1> QED BY <1>2, <1>6, <1>8, <1>9 DEF ComparesSums

\* A batch of proofs of shares is judged as its parts.
LEMMA DecBatch ==
  ASSUME oracle \in Nat, NEW n \in Nat, NEW w \in Nat, NEW c1 \in [1 .. w -> Scalar],
         NEW prfs \in [1 .. n -> DecProof(w)], NEW pks \in [1 .. n -> Scalar],
         NEW decs \in [1 .. n -> [1 .. w -> Scalar]]
  PROVE  FollowsFrom(BatchDec_batch_verify(prfs, pks, c1, decs),
                     [i \in 1 .. n |-> BatchDec_verify(prfs[i], pks[i], c1, decs[i])])
<1> DEFINE a == LeftOne(n, prfs, pks, c1, decs)
           b == RightOne(n, prfs)
           c == LeftTwo(n, prfs, pks, c1, decs)
           d == RightTwo(n, prfs, c1)
<1>1. /\ a \in [1 .. n -> Scalar] /\ b \in [1 .. n -> Scalar]
      /\ c \in [1 .. n -> Scalar] /\ d \in [1 .. n -> Scalar]
      /\ BatchDec_batch_verify(prfs, pks, c1, decs) <=> Sum(a) = Sum(b) /\ Sum(c) = Sum(d)
  <2>1. Shown(n, w, prfs, pks, c1, decs)
    BY DEF Shown
  <2>2. ComparesSums(n, prfs, pks, c1, decs)
    BY <2>1, DecSums
  <2> QED BY <2>2 DEF ComparesSums
<1>2. ASSUME NEW i \in 1 .. n
      PROVE  BatchDec_verify(prfs[i], pks[i], c1, decs[i]) <=> a[i] = b[i] /\ c[i] = d[i]
  <2> DEFINE left == DecLeft(prfs[i], pks[i], c1, decs[i])
             z == prfs[i].zm
  <2>1. left \in Sides
    BY DecLeftType
  <2>2. a[i] = left.t1 /\ c[i] = left.t2 /\ b[i] = generator (.) z /\ d[i] = z (.) Sum(c1)
    BY DEF LeftOne, LeftTwo, RightOne, RightTwo
  <2>3. z \in Nat
    BY ScalarIsNat DEF DecProof
  <2>4. BatchDec_verify(prfs[i], pks[i], c1, decs[i]) <=> left = DecRight(z, c1)
    BY DEF BatchDec_verify
  <2> HIDE DEF left, z, a, b, c, d
  <2>5. DecRight(z, c1) = [t1 |-> generator (.) z, t2 |-> z (.) Sum(c1)]
    BY <2>3, DecRightSides
  <2>6. left = [t1 |-> a[i], t2 |-> c[i]]
    BY <2>1, <2>2 DEF Sides
  <2> QED BY <2>2, <2>4, <2>5, <2>6
<1> DEFINE batch == BatchDec_batch_verify(prfs, pks, c1, decs)
           single == [i \in 1 .. n |-> BatchDec_verify(prfs[i], pks[i], c1, decs[i])]
<1>3. batch \in BOOLEAN /\ single \in [1 .. n -> BOOLEAN]
  BY DEF BatchDec_batch_verify, BatchDec_verify
<1>4. \A i \in 1 .. n : single[i] <=> a[i] = b[i] /\ c[i] = d[i]
  BY <1>2
<1>5. batch <=> Sum(a) = Sum(b) /\ Sum(c) = Sum(d)
  BY <1>1
<1> HIDE DEF batch, single, a, b, c, d
<1>6. Judged(n, a, b, c, d, batch, single)
  BY <1>1, <1>3, <1>4, <1>5 DEF Judged
<1>7. FollowsFrom(batch, single)
  BY <1>3, <1>6, Verdicts
<1> QED BY <1>7 DEF batch, single

----------------------------------------------------------------------------
(***************************************************************************)
(* What a node proves of its own is accepted.                              *)
(***************************************************************************)
\* The response to a challenge, with the challenge times the secret taken away.
LEMMA Response ==
  ASSUME NEW g \in Nat, NEW e \in Nat, NEW x \in Nat, NEW s \in Nat, NEW y \in Nat, Cong(y, g * x)
  PROVE  /\ (e (.) x) (+) s \in Scalar
         /\ g (.) ((e (.) x) (+) s) \in Scalar
         /\ Cong(g (.) ((e (.) x) (+) s), g * s + y * e)
<1> g \in Int /\ e \in Int /\ x \in Int /\ s \in Int /\ y \in Int
  OBVIOUS
<1> DEFINE z == (e (.) x) (+) s
<1>1. e (.) x \in Nat /\ e * x \in Int /\ Cong(e (.) x, e * x) /\ Cong(s, s)
  BY TimesInt, CongRefl, Zenon
<1>2. z \in Scalar /\ Cong(z, e * x + s)
  BY <1>1, PlusCong, Zenon
<1> HIDE DEF z
<1>3. z \in Nat /\ z \in Int /\ e * x + s \in Int
  BY <1>1, <1>2, ScalarIsNat
<1>4. g (.) z \in Scalar /\ g (.) z \in Int /\ g * z \in Int /\ Cong(g (.) z, g * z)
  BY <1>3, TimesInt, Zenon
<1>5. g * (e * x + s) \in Int /\ Cong(g * z, g * (e * x + s))
  BY <1>2, <1>3, Scaled, Zenon
<1>6. y * e \in Int /\ (g * x) * e \in Int /\ Cong((g * x) * e, y * e)
  <2>1. g * x \in Int
    OBVIOUS
  <2>2. Cong(g * x, y)
    BY <2>1, CongSym, Zenon
  <2> QED BY <2>1, <2>2, ScaledRight, Zenon
<1>7. g * (e * x + s) = (g * x) * e + g * s
  BY Z3
<1> DEFINE gs == g * s
           ye == y * e
           ge == (g * x) * e
           gz == g (.) z
<1>8. gs \in Int /\ ye \in Int /\ ge \in Int
  BY <1>6
<1>9. gz \in Int /\ Cong(gz, g * z) /\ Cong(g * z, ge + gs) /\ g * z \in Int
  BY <1>4, <1>5, <1>7
<1>10. Cong(ge, ye)
  BY <1>6
<1> HIDE DEF gs, ye, ge, gz
<1>11. ge + gs \in Int /\ ye + gs \in Int /\ gs + ye = ye + gs
  BY <1>8
<1>12. Cong(ge + gs, ye + gs)
  BY <1>8, <1>10, CongAdd
<1>13. Cong(gz, ge + gs)
  BY <1>9, <1>11, CongTrans
<1>14. Cong(gz, ye + gs)
  BY <1>9, <1>11, <1>12, <1>13, CongTrans
<1>15. Cong(gz, gs + ye)
  BY <1>11, <1>14
<1> QED BY <1>2, <1>4, <1>15 DEF z, gs, ye, gz

\* What is left when a product is taken away.
LEMMA TakenAway ==
  ASSUME NEW a \in Nat, NEW b \in Int, NEW y \in Nat, NEW e \in Nat, Cong(a, b + y * e)
  PROVE  a (-) (y (.) e) \in Scalar /\ Cong(a (-) (y (.) e), b)
<1> DEFINE t == y (.) e
           p == y * e
<1>1. t \in Scalar /\ t \in Nat /\ t \in Int /\ p \in Int /\ Cong(t, p)
  BY TimesInt, Zenon
<1>2. Cong(a, b + p)
  OBVIOUS
<1> HIDE DEF t, p
<1>3. b + p \in Int /\ (b + p) - p = b
  BY <1>1
<1> QED BY <1>1, <1>2, <1>3, MinusCong DEF t

\* The verifiers find the commitment of the prover again.
LEMMA Recovered ==
  ASSUME NEW pk \in Scalar, NEW m \in Nat, NEW r \in Scalar, NEW sm \in Scalar, NEW sr \in Scalar,
         NEW e \in Scalar
  PROVE  /\ Without(encrypt_with_randomness(pk, (e (.) m) (+) sm, (e (.) r) (+) sr), e,
                    encrypt_with_randomness(pk, m, r))
              = encrypt_with_randomness(pk, sm, sr)
         /\ (e (.) m) (+) sm \in Scalar /\ (e (.) r) (+) sr \in Scalar
<1>1. /\ pk \in Nat /\ r \in Nat /\ sm \in Nat /\ sr \in Nat /\ e \in Nat
      /\ generator \in Nat /\ base_point2 \in Nat
  BY ScalarIsNat, BasePointAssumption DEF generator
<1> DEFINE zm == (e (.) m) (+) sm
           zr == (e (.) r) (+) sr
           y0 == generator (.) r
           y1 == pk (.) r
           y2 == base_point2 (.) m
           x0 == generator (.) zr
           x1 == pk (.) zr
           x2 == base_point2 (.) zm
           y  == y1 (+) y2
           x  == x1 (+) x2
<1>2. /\ y0 \in Nat /\ Cong(y0, generator * r) /\ y1 \in Nat /\ Cong(y1, pk * r)
      /\ y2 \in Nat /\ Cong(y2, base_point2 * m)
  BY <1>1, TimesInt, Zenon
<1>3. zr \in Scalar /\ x0 \in Scalar /\ Cong(x0, generator * sr + y0 * e)
  BY <1>1, <1>2, Response, Zenon
<1>4. x1 \in Scalar /\ Cong(x1, pk * sr + y1 * e)
  BY <1>1, <1>2, Response, Zenon
<1>5. zm \in Scalar /\ x2 \in Scalar /\ Cong(x2, base_point2 * sm + y2 * e)
  BY <1>1, <1>2, Response, Zenon
<1> HIDE DEF zm, zr, y0, y1, y2, x0, x1, x2
<1>6. x0 \in Nat /\ x1 \in Nat /\ x2 \in Nat
  BY <1>3, <1>4, <1>5, ScalarIsNat
<1>7. x0 (-) (y0 (.) e) = generator (.) sr
  <2>1. generator * sr \in Int
    BY <1>1
  <2>2. x0 (-) (y0 (.) e) \in Scalar /\ Cong(x0 (-) (y0 (.) e), generator * sr)
    BY <1>1, <1>2, <1>3, <1>6, <2>1, TakenAway, Zenon
  <2> QED BY <1>1, <2>2, CongProduct, Zenon
<1>8. y \in Nat /\ x \in Nat /\ y \in Int /\ x \in Int /\ Cong(y, y1 + y2) /\ y1 + y2 \in Int
      /\ Cong(x, x1 + x2) /\ x1 + x2 \in Int
  BY <1>2, <1>6, OpInt, Zenon
<1> DEFINE a1 == pk * sr
           a2 == base_point2 * sm
           b1 == y1 * e
           b2 == y2 * e
           ye == y * e
<1>9. a1 \in Int /\ a2 \in Int /\ b1 \in Int /\ b2 \in Int /\ ye \in Int
  BY <1>1, <1>2, <1>8
<1>10. Cong(b1 + b2, ye)
  <2>1. (y1 + y2) * e \in Int /\ Cong(ye, (y1 + y2) * e)
    <3>1. e \in Int
      BY <1>1
    <3> HIDE DEF y
    <3> QED BY <1>8, <3>1, ScaledRight, Zenon
  <2>2. (y1 + y2) * e = b1 + b2
    BY <1>1, <1>2
  <2> HIDE DEF b1, b2, ye
  <2> QED BY <1>9, <2>1, <2>2, CongSym
<1>11. Cong(x1, a1 + b1) /\ Cong(x2, a2 + b2)
  BY <1>4, <1>5
<1> HIDE DEF a1, a2, b1, b2, ye, x, y
<1>12. Cong(x, (a1 + a2) + ye)
  <2>1. x1 \in Int /\ x2 \in Int /\ a1 + b1 \in Int /\ a2 + b2 \in Int
    BY <1>6, <1>9
  <2>2. Cong(x1 + x2, (a1 + b1) + (a2 + b2))
    BY <1>11, <2>1, CongSum, Zenon
  <2>3. (a1 + b1) + (a2 + b2) = (b1 + b2) + (a1 + a2) /\ a1 + a2 \in Int /\ b1 + b2 \in Int
    BY <1>9
  <2>4. Cong((b1 + b2) + (a1 + a2), ye + (a1 + a2))
    BY <1>9, <1>10, <2>3, CongAdd, Zenon
  <2>5. ye + (a1 + a2) = (a1 + a2) + ye /\ ye + (a1 + a2) \in Int /\ (b1 + b2) + (a1 + a2) \in Int
    BY <1>9
  <2>6. Cong(x1 + x2, (b1 + b2) + (a1 + a2))
    BY <2>2, <2>3
  <2>7. Cong(x, (b1 + b2) + (a1 + a2))
    BY <1>8, <2>5, <2>6, CongTrans
  <2>8. Cong(x, ye + (a1 + a2))
    BY <1>8, <1>9, <2>4, <2>5, <2>7, CongTrans
  <2> QED BY <2>5, <2>8
<1>13. x (-) (y (.) e) = (pk (.) sr) (+) (base_point2 (.) sm)
  <2>1. a1 + a2 \in Int
    BY <1>9
  <2>2. x (-) (y (.) e) \in Scalar /\ Cong(x (-) (y (.) e), a1 + a2)
    BY <1>1, <1>8, <1>12, <2>1, TakenAway, Zenon DEF ye
  <2>3. (pk (.) sr) (+) (base_point2 (.) sm) \in Scalar
        /\ Cong((pk (.) sr) (+) (base_point2 (.) sm), a1 + a2)
    BY <1>1, TwoProducts, Zenon DEF a1, a2
  <2> QED BY <2>1, <2>2, <2>3, CongSame, Zenon
<1>14. encrypt_with_randomness(pk, m, r) = [c1 |-> y0, c2 |-> y]
  BY DEF encrypt_with_randomness, y0, y1, y2, y
<1>15. encrypt_with_randomness(pk, zm, zr) = [c1 |-> x0, c2 |-> x]
  BY DEF encrypt_with_randomness, x0, x1, x2, x
<1>16. Without([c1 |-> x0, c2 |-> x], e, [c1 |-> y0, c2 |-> y])
         = encrypt_with_randomness(pk, sm, sr)
  BY <1>7, <1>13 DEF Without, encrypt_with_randomness
<1> QED BY <1>3, <1>5, <1>14, <1>15, <1>16 DEF zm, zr

\* EncRightProof::verify accepts what EncRightProof::proof makes.
LEMMA OwnEncRight ==
  ASSUME oracle \in Nat, NEW pk \in Scalar, NEW m \in Nat, NEW r \in Scalar,
         NEW sm \in Scalar, NEW sr \in Scalar
  PROVE  EncRight_verify(EncRight_proof(pk, encrypt_with_randomness(pk, m, r), m, r, sm, sr),
                         pk, encrypt_with_randomness(pk, m, r))
<1> DEFINE c == encrypt_with_randomness(pk, m, r)
           t == encrypt_with_randomness(pk, sm, sr)
           e == EncChallenge(pk, c, t)
<1>1. c \in Cipher /\ t \in Cipher
  BY CipherType, ScalarIsNat
<1>2. e \in Scalar
  <2> HIDE DEF c, t
  <2> QED BY <1>1, EncChallengeType
<1> HIDE DEF e
<1>3. Without(encrypt_with_randomness(pk, (e (.) m) (+) sm, (e (.) r) (+) sr), e, c) = t
  BY <1>2, Recovered
<1> HIDE DEF c, t
<1>4. EncRight_proof(pk, c, m, r, sm, sr)
        = [zm |-> (e (.) m) (+) sm, zr |-> (e (.) r) (+) sr, e |-> e]
  BY DEF EncRight_proof, e, t
<1>5. EncRight_verify([zm |-> (e (.) m) (+) sm, zr |-> (e (.) r) (+) sr, e |-> e], pk, c)
  BY <1>3 DEF EncRight_verify, e
<1> QED BY <1>4, <1>5 DEF c

\* EncEqualProof::verify accepts what EncEqualProof::proof makes.
LEMMA OwnEncEqual ==
  ASSUME oracle \in Nat, NEW pk1 \in Scalar, NEW pk2 \in Scalar, NEW m \in Nat,
         NEW r1 \in Scalar, NEW r2 \in Scalar, NEW sm \in Scalar, NEW sr1 \in Scalar,
           NEW sr2 \in Scalar
  PROVE  LET c == encrypt_with_randomness(pk1, m, r1)
             d == encrypt_with_randomness(pk2, m, r2)
         IN  EncEqual_verify(EncEqual_proof(pk1, pk2, c, d, m, r1, r2, sm, sr1, sr2), pk1, pk2,
           c, d)
<1> DEFINE c == encrypt_with_randomness(pk1, m, r1)
           d == encrypt_with_randomness(pk2, m, r2)
           t == encrypt_with_randomness(pk1, sm, sr1)
           u == encrypt_with_randomness(pk2, sm, sr2)
           e == EqualChallenge(pk1, pk2, c, d, t, u)
           zm == (e (.) m) (+) sm
           zr1 == (e (.) r1) (+) sr1
           zr2 == (e (.) r2) (+) sr2
<1>1. c \in Cipher /\ t \in Cipher /\ d \in Cipher /\ u \in Cipher
  BY CipherType, ScalarIsNat
<1>2. e \in Scalar
  <2> HIDE DEF c, d, t, u
  <2>1. /\ pk1 \in Nat /\ pk2 \in Nat /\ c.c1 \in Nat /\ c.c2 \in Nat /\ d.c1 \in Nat
             /\ d.c2 \in Nat
        /\ t.c1 \in Nat /\ t.c2 \in Nat /\ u.c1 \in Nat /\ u.c2 \in Nat
    BY <1>1, ScalarIsNat DEF Cipher
  <2>2. <<pk1, pk2, c.c1, c.c2, d.c1, d.c2, t.c1, t.c2, u.c1, u.c2>> \in Seq(Nat)
    BY <2>1
  <2> QED BY <2>2, HashSeq DEF EqualChallenge
<1> HIDE DEF e
<1>3. Without(encrypt_with_randomness(pk1, zm, zr1), e, c) = t
  BY <1>2, Recovered
<1>4. Without(encrypt_with_randomness(pk2, zm, zr2), e, d) = u
  BY <1>2, Recovered
<1> HIDE DEF c, d, t, u
<1>5. EncEqual_proof(pk1, pk2, c, d, m, r1, r2, sm, sr1, sr2) =
        [zm |-> zm, zr1 |-> zr1, zr2 |-> zr2, e |-> e]
  BY DEF EncEqual_proof, e, t, u
<1> HIDE DEF zm, zr1, zr2
<1>6. EncEqual_verify([zm |-> zm, zr1 |-> zr1, zr2 |-> zr2, e |-> e], pk1, pk2, c, d)
  BY <1>3, <1>4 DEF EncEqual_verify, e
<1> QED BY <1>5, <1>6 DEF c, d

\* DecRightProof::verify accepts what DecRightProof::proof makes.
LEMMA OwnDecRight ==
  ASSUME oracle \in Nat, NEW c1 \in Scalar, NEW sk \in Scalar, NEW s \in Scalar
  PROVE  LET P == generator (.) sk
             d == c1 (.) sk
         IN  DecRight_verify(DecRight_proof(P, c1, d, sk, s), P, c1, d)
<1> DEFINE P == generator (.) sk
           d == c1 (.) sk
           e == DecChallenge(P, c1, d, generator (.) s, c1 (.) s)
           z == (e (.) sk) (+) s
<1>1. generator \in Nat /\ sk \in Nat /\ s \in Nat /\ c1 \in Nat
  BY ScalarIsNat DEF generator
<1>2. P \in Nat /\ Cong(P, generator * sk) /\ d \in Nat /\ Cong(d, c1 * sk)
  BY <1>1, TimesInt, Zenon
<1>3. generator (.) s \in Nat /\ c1 (.) s \in Nat /\ generator * s \in Int /\ c1 * s \in Int
  BY <1>1, TimesInt, Zenon
<1>4. e \in Nat
  <2>1. <<P, c1, d, generator (.) s, c1 (.) s>> \in Seq(Nat)
    BY <1>1, <1>2, <1>3
  <2> QED BY <2>1, HashSeq DEF DecChallenge
<1> HIDE DEF P, d, e
<1>5. generator (.) z \in Scalar /\ Cong(generator (.) z, generator * s + P * e)
  BY <1>1, <1>2, <1>4, Response, Zenon
<1>6. c1 (.) z \in Scalar /\ Cong(c1 (.) z, c1 * s + d * e)
  BY <1>1, <1>2, <1>4, Response, Zenon
<1> HIDE DEF z
<1>7. generator (.) z \in Nat /\ c1 (.) z \in Nat
  BY <1>5, <1>6, ScalarIsNat
<1>8. (generator (.) z) (-) (P (.) e) \in Scalar
        /\ Cong((generator (.) z) (-) (P (.) e), generator * s)
  BY <1>2, <1>3, <1>4, <1>5, <1>7, TakenAway, Zenon
<1>9. (c1 (.) z) (-) (d (.) e) \in Scalar /\ Cong((c1 (.) z) (-) (d (.) e), c1 * s)
  BY <1>2, <1>3, <1>4, <1>6, <1>7, TakenAway, Zenon
<1>10. (generator (.) z) (-) (P (.) e) = generator (.) s /\ (c1 (.) z) (-) (d (.) e) = c1 (.) s
  <2>1. (generator (.) z) (-) (P (.) e) = generator (.) s
    BY <1>1, <1>8, CongProduct, Zenon
  <2>2. (c1 (.) z) (-) (d (.) e) = c1 (.) s
    BY <1>1, <1>9, CongProduct, Zenon
  <2> QED BY <2>1, <2>2, Zenon
<1>11. DecRight_proof(P, c1, d, sk, s) = [zm |-> z, e |-> e]
  BY DEF DecRight_proof, e, z
<1>12. DecRight_verify([zm |-> z, e |-> e], P, c1, d)
  BY <1>10 DEF DecRight_verify, e
<1> QED BY <1>11, <1>12 DEF P, d

----------------------------------------------------------------------------
\* A challenge times the parts of a ciphertext.
LEMMA ProductOfCipher ==
  ASSUME NEW e \in Nat, NEW a \in Nat, NEW x \in Nat, NEW b \in Nat, NEW y \in Nat
  PROVE  /\ e (.) (a (.) x) \in Scalar
         /\ Cong(e (.) (a (.) x), a * (e (.) x))
         /\ e (.) ((a (.) x) (+) (b (.) y)) \in Scalar
         /\ Cong(e (.) ((a (.) x) (+) (b (.) y)), a * (e (.) x) + b * (e (.) y))
<1> e \in Int /\ a \in Int /\ x \in Int /\ b \in Int /\ y \in Int
  OBVIOUS
<1> DEFINE ax == a (.) x
           by == b (.) y
           ex == e (.) x
           ey == e (.) y
           z  == ax (+) by
<1>1. ax \in Nat /\ ax \in Int /\ Cong(ax, a * x) /\ a * x \in Int /\ by \in Nat /\ by \in Int
      /\ Cong(by, b * y) /\ b * y \in Int
  BY TimesInt, Zenon
<1>2. ex \in Nat /\ ex \in Int /\ Cong(ex, e * x) /\ e * x \in Int /\ ey \in Nat /\ ey \in Int
      /\ Cong(ey, e * y) /\ e * y \in Int
  BY TimesInt, Zenon
<1> HIDE DEF ax, by, ex, ey
<1>3. z \in Nat /\ z \in Int /\ Cong(z, a * x + b * y) /\ a * x + b * y \in Int
  <2>1. z \in Scalar /\ Cong(z, a * x + b * y)
    BY <1>1, PlusCong, Zenon
  <2>2. a * x + b * y \in Int
    BY <1>1
  <2> QED BY <2>1, <2>2, ScalarIsNat
<1> HIDE DEF z
<1>4. /\ e (.) ax \in Scalar /\ e (.) ax \in Int /\ e * ax \in Int /\ Cong(e (.) ax, e * ax)
      /\ e (.) z \in Scalar /\ e (.) z \in Int /\ e * z \in Int /\ Cong(e (.) z, e * z)
  BY <1>1, <1>3, TimesInt, Zenon
<1>5. e * (a * x) \in Int /\ Cong(e * ax, e * (a * x))
      /\ e * (a * x + b * y) \in Int /\ Cong(e * z, e * (a * x + b * y))
  BY <1>1, <1>3, Scaled, Zenon
<1>6. a * (e * x) \in Int /\ a * ex \in Int /\ Cong(a * (e * x), a * ex)
      /\ b * (e * y) \in Int /\ b * ey \in Int /\ Cong(b * (e * y), b * ey)
  <2>1. Cong(e * x, ex) /\ Cong(e * y, ey)
    BY <1>2, CongSym, Zenon
  <2> QED BY <1>2, <2>1, Scaled, Zenon
<1>7. e * (a * x) = a * (e * x) /\ e * (a * x + b * y) = a * (e * x) + b * (e * y)
  BY Z3
<1> DEFINE p == e * (a * x)
           t == a * (e * x) + b * (e * y)
           u == a * ex
           w == a * ex + b * ey
           f1 == e (.) ax
           f2 == e (.) z
           g1 == e * ax
           g2 == e * z
<1>8. /\ f1 \in Int /\ f2 \in Int /\ g1 \in Int /\ g2 \in Int /\ p \in Int /\ t \in Int
      /\ u \in Int /\ w \in Int
      /\ Cong(f1, g1) /\ Cong(f2, g2) /\ Cong(g1, p) /\ Cong(g2, t) /\ Cong(p, u)
  BY <1>4, <1>5, <1>6, <1>7
<1>9. Cong(t, w)
  BY <1>6, CongSum, Zenon
<1> HIDE DEF p, t, u, w, f1, f2, g1, g2
<1>10. Cong(f1, p) /\ Cong(f2, t)
  BY <1>8, CongTrans, Zenon
<1>11. Cong(f1, u) /\ Cong(f2, w)
  BY <1>8, <1>9, <1>10, CongTrans, Zenon
<1> QED BY <1>4, <1>11 DEF ax, by, ex, ey, z, u, w, f1, f2

\* c are ciphertexts of m, t those of the nonces, and e any challenges.
LEMMA LeftSums ==
  ASSUME NEW n \in Nat, NEW pk \in Scalar, NEW m, NEW r, NEW e, NEW c, NEW d,
         Encrypted(n, pk, m, r, c, d), Vector(e, n)
  PROVE  /\ Cong(Dot(e, c), generator * Dot(e, r))
         /\ Cong(Dot(e, d), pk * Dot(e, r) + base_point2 * Dot(e, m))
<1>1. generator \in Nat /\ generator \in Int /\ pk \in Nat /\ pk \in Int
      /\ base_point2 \in Nat /\ base_point2 \in Int
  BY ScalarIsNat, BasePointAssumption DEF generator
<1>2. Vector(m, n) /\ Vector(r, n) /\ Vector(c, n) /\ Vector(d, n)
  BY DEF Encrypted
<1> DEFINE er == Products(e, r)
           em == Products(e, m)
           ec == Products(e, c)
           ed == Products(e, d)
<1>3. Vector(er, n) /\ Vector(em, n) /\ Vector(ec, n) /\ Vector(ed, n)
  BY <1>2, DotType
<1>4. Dot(e, r) = Sum(er) /\ Dot(e, m) = Sum(em) /\ Dot(e, c) = Sum(ec) /\ Dot(e, d) = Sum(ed)
  BY <1>2, DotType
<1>5. ASSUME NEW i \in 1 .. n
      PROVE  Cong(ec[i], generator * er[i]) /\ Cong(ed[i], pk * er[i] + base_point2 * em[i])
  <2> DEFINE ei == e[i]
             ri == r[i]
             mi == m[i]
  <2>1. ei \in Nat /\ ri \in Nat /\ mi \in Nat
    BY <1>2 DEF Vector
  <2>2. /\ er[i] = ei (.) ri /\ em[i] = ei (.) mi
        /\ ec[i] = ei (.) (generator (.) ri)
        /\ ed[i] = ei (.) ((pk (.) ri) (+) (base_point2 (.) mi))
    BY <1>2, DotType DEF Encrypted
  <2> HIDE DEF ei, ri, mi, er, em, ec, ed
  <2>3. Cong(ei (.) (generator (.) ri), generator * (ei (.) ri))
    BY <1>1, <2>1, ProductOfCipher, Zenon
  <2>4. Cong(ei (.) ((pk (.) ri) (+) (base_point2 (.) mi)),
          pk * (ei (.) ri) + base_point2 * (ei (.) mi))
    BY <1>1, <2>1, ProductOfCipher, Zenon
  <2> QED BY <2>2, <2>3, <2>4
<1> HIDE DEF er, em, ec, ed
<1>6. Cong(Sum(ec), generator * Sum(er))
  BY <1>1, <1>3, <1>5, SumScaled
<1>7. Cong(Sum(ed), pk * Sum(er) + base_point2 * Sum(em))
  BY <1>1, <1>3, <1>5, SumLinear
<1> QED BY <1>4, <1>6, <1>7

----------------------------------------------------------------------------
(***************************************************************************)
(* Batches of ciphertexts.                                                 *)
(***************************************************************************)
LEMMA SpreadOut ==
  ASSUME NEW g \in Nat, NEW x \in Nat, NEW y \in Nat
  PROVE  /\ x (+) y \in Scalar /\ x (+) y \in Nat
         /\ g (.) (x (+) y) \in Scalar /\ g (.) (x (+) y) \in Nat
         /\ Cong(g (.) (x (+) y), g * x + g * y)
<1> DEFINE z == x (+) y
           gz == g (.) z
<1>1. z \in Scalar /\ z \in Nat /\ z \in Int /\ x + y \in Int /\ Cong(z, x + y) /\ g \in Int
  <2>1. g \in Int
    OBVIOUS
  <2> QED BY <2>1, OpInt, Zenon
<1> HIDE DEF z
<1>2. gz \in Scalar /\ gz \in Nat /\ gz \in Int /\ g * z \in Int /\ Cong(gz, g * z)
  BY <1>1, TimesInt, Zenon
<1>3. g * (x + y) \in Int /\ Cong(g * z, g * (x + y))
  BY <1>1, Scaled, Zenon
<1>4. g * (x + y) = g * x + g * y
  BY Z3
<1> HIDE DEF gz
<1>5. Cong(gz, g * (x + y))
  BY <1>2, <1>3, CongTrans, Zenon
<1> QED BY <1>1, <1>2, <1>4, <1>5 DEF z, gz

\* The two equations of a proof: s and t are the sums of the nonces, r and m
\* those of what is encrypted, times the challenges.
Combined(g, p, b, s, t, r, m, u, v) ==
  /\ g \in Nat /\ p \in Nat /\ b \in Nat /\ s \in Nat /\ t \in Nat
  /\ r \in Nat /\ m \in Nat /\ u \in Nat /\ v \in Nat
  /\ Cong(u, g * r) /\ Cong(v, p * r + b * m)

Balanced(g, p, b, s, t, r, m, u, v) ==
  /\ (g (.) s) (+) u = g (.) (r (+) s)
  /\ ((p (.) s) (+) (b (.) t)) (+) v = (p (.) (r (+) s)) (+) (b (.) (m (+) t))

\* Combined ciphertexts balance both equations.
LEMMA TwoEquations ==
  ASSUME NEW g, NEW p, NEW b, NEW s, NEW t, NEW r, NEW m, NEW u, NEW v,
         Combined(g, p, b, s, t, r, m, u, v)
  PROVE  Balanced(g, p, b, s, t, r, m, u, v)
<1> g \in Nat /\ p \in Nat /\ b \in Nat /\ s \in Nat /\ t \in Nat
    /\ r \in Nat /\ m \in Nat /\ u \in Nat /\ v \in Nat
  BY DEF Combined
<1> DEFINE gs == g * s
           gr == g * r
           ps == p * s
           pr == p * r
           bt == b * t
           bm == b * m
           x1 == g (.) s
           x2 == (p (.) s) (+) (b (.) t)
           y0 == g (.) (r (+) s)
           y1 == p (.) (r (+) s)
           y2 == b (.) (m (+) t)
<1>1. gs \in Int /\ gr \in Int /\ ps \in Int /\ pr \in Int /\ bt \in Int /\ bm \in Int
  OBVIOUS
<1>2. x1 \in Nat /\ Cong(x1, gs)
  BY TimesInt, Zenon
<1>3. x2 \in Scalar /\ Cong(x2, ps + bt)
  BY TwoProducts, Zenon
<1>4. y0 \in Scalar /\ Cong(y0, gr + gs)
  BY SpreadOut, Zenon
<1>5. y1 \in Nat /\ Cong(y1, pr + ps)
  BY SpreadOut, Zenon
<1>6. y2 \in Nat /\ Cong(y2, bm + bt)
  BY SpreadOut, Zenon
<1>7. Cong(u, gr) /\ Cong(v, pr + bm)
  BY DEF Combined
<1> HIDE DEF gs, gr, ps, pr, bt, bm, x1, x2, y0, y1, y2
<1>8. x1 (+) u \in Scalar /\ Cong(x1 (+) u, gs + gr)
  BY <1>1, <1>2, <1>7, PlusCong, Zenon
<1>9. x1 (+) u = y0
  <2>1. gs + gr = gr + gs /\ gs + gr \in Int
    BY <1>1
  <2>2. Cong(x1 (+) u, gr + gs)
    BY <1>8, <2>1
  <2> QED BY <1>4, <1>8, <2>1, <2>2, CongSame
<1>10. x2 \in Nat /\ ps + bt \in Int /\ pr + bm \in Int /\ pr + ps \in Int /\ bm + bt \in Int
  BY <1>1, <1>3, ScalarIsNat
<1>11. x2 (+) v \in Scalar /\ Cong(x2 (+) v, (ps + bt) + (pr + bm))
  BY <1>3, <1>7, <1>10, PlusCong, Zenon
<1>12. y1 (+) y2 \in Scalar /\ Cong(y1 (+) y2, (pr + ps) + (bm + bt))
  BY <1>5, <1>6, <1>10, PlusCong, Zenon
<1>13. (ps + bt) + (pr + bm) = (pr + ps) + (bm + bt) /\ (pr + ps) + (bm + bt) \in Int
  BY <1>1
<1>14. x2 (+) v = y1 (+) y2
  <2>1. Cong(x2 (+) v, (pr + ps) + (bm + bt))
    BY <1>11, <1>13
  <2> QED BY <1>11, <1>12, <1>13, <2>1, CongSame
<1> QED BY <1>9, <1>14 DEF x1, x2, y0, y1, y2, Balanced

\* The ciphertexts of amounts under a key.
Under(n, pk, m, r) == [j \in 1 .. n |-> encrypt_with_randomness(pk, m[j], r[j])]

\* Amounts under a key are ciphertexts.
LEMMA Ciphertexts ==
  ASSUME NEW n \in Nat, NEW pk \in Scalar, NEW m, Vector(m, n), NEW r \in [1 .. n -> Scalar]
  PROVE  /\ Under(n, pk, m, r) \in [1 .. n -> Cipher]
         /\ C1(Under(n, pk, m, r)) \in [1 .. n -> Scalar]
         /\ C2(Under(n, pk, m, r)) \in [1 .. n -> Scalar]
         /\ Encrypted(n, pk, m, r, C1(Under(n, pk, m, r)), C2(Under(n, pk, m, r)))
<1> DEFINE c == Under(n, pk, m, r)
<1>1. ASSUME NEW j \in 1 .. n
      PROVE  encrypt_with_randomness(pk, m[j], r[j]) \in Cipher
  <2>1. m[j] \in Nat /\ r[j] \in Scalar
    BY DEF Vector
  <2> QED BY <2>1, CipherType
<1>2. c \in [1 .. n -> Cipher]
  BY <1>1 DEF Under
<1>3. \A j \in 1 .. n : c[j].c1 = generator (.) r[j]
                        /\ c[j].c2 = (pk (.) r[j]) (+) (base_point2 (.) m[j])
  BY DEF Under, encrypt_with_randomness
<1> HIDE DEF c
<1>4. /\ C1(c) \in [1 .. n -> Scalar] /\ C2(c) \in [1 .. n -> Scalar]
      /\ \A i \in 1 .. n : C1(c)[i] = c[i].c1 /\ C2(c)[i] = c[i].c2
  BY <1>2, ComponentTypes
<1>5. Vector(C1(c), n) /\ Vector(C2(c), n) /\ Vector(r, n)
  BY <1>4, ScalarVector
<1>6. \A i \in 1 .. n : C1(c)[i] = generator (.) r[i]
                        /\ C2(c)[i] = (pk (.) r[i]) (+) (base_point2 (.) m[i])
  BY <1>3, <1>4
<1>7. Encrypted(n, pk, m, r, C1(c), C2(c))
  BY <1>5, <1>6 DEF Encrypted
<1> QED BY <1>2, <1>4, <1>7 DEF c

\* What the verifiers have on the left, with any challenges e.
LEMMA LeftTotals ==
  ASSUME NEW n \in Nat, NEW pk \in Scalar, NEW m, Vector(m, n), NEW r \in [1 .. n -> Scalar],
         NEW sm, Vector(sm, n), NEW sr \in [1 .. n -> Scalar], NEW e, Vector(e, n)
  PROVE  /\ Dot(e, r) (+) Sum(sr) \in Scalar /\ Dot(e, m) (+) Sum(sm) \in Scalar
         /\ Sum(C1(Under(n, pk, sm, sr))) (+) Dot(e, C1(Under(n, pk, m, r)))
              = generator (.) (Dot(e, r) (+) Sum(sr))
         /\ Sum(C2(Under(n, pk, sm, sr))) (+) Dot(e, C2(Under(n, pk, m, r)))
              = (pk (.) (Dot(e, r) (+) Sum(sr))) (+) (base_point2 (.) (Dot(e, m) (+) Sum(sm)))
<1> DEFINE x == C1(Under(n, pk, m, r))
           y == C2(Under(n, pk, m, r))
           a == C1(Under(n, pk, sm, sr))
           b == C2(Under(n, pk, sm, sr))
           rs == Sum(sr)
           ms == Sum(sm)
           re == Dot(e, r)
           me0 == Dot(e, m)
           u == Dot(e, x)
           v == Dot(e, y)
<1>1. Encrypted(n, pk, m, r, x, y) /\ Encrypted(n, pk, sm, sr, a, b)
      /\ x \in [1 .. n -> Scalar] /\ y \in [1 .. n -> Scalar]
  BY Ciphertexts
<1> HIDE DEF x, y, a, b
<1>3. Sum(a) = generator (.) rs /\ Sum(b) = (pk (.) rs) (+) (base_point2 (.) ms)
  BY <1>1, SumEncrypted
<1>4. Cong(u, generator * re) /\ Cong(v, pk * re + base_point2 * me0)
  BY <1>1, LeftSums
<1>5. Vector(r, n) /\ Vector(sr, n) /\ Vector(x, n) /\ Vector(y, n)
  BY <1>1, ScalarVector
<1>6. u \in Nat /\ v \in Nat /\ re \in Nat /\ me0 \in Nat /\ rs \in Nat /\ ms \in Nat
  BY <1>5, DotType, SumType
<1>7. generator \in Nat /\ base_point2 \in Nat /\ pk \in Nat
  BY ScalarIsNat, BasePointAssumption DEF generator
<1> HIDE DEF rs, ms, re, me0, u, v
<1>8. /\ (generator (.) rs) (+) u = generator (.) (re (+) rs)
      /\ ((pk (.) rs) (+) (base_point2 (.) ms)) (+) v
           = (pk (.) (re (+) rs)) (+) (base_point2 (.) (me0 (+) ms))
  <2>1. Combined(generator, pk, base_point2, rs, ms, re, me0, u, v)
    BY <1>4, <1>6, <1>7 DEF Combined
  <2>2. Balanced(generator, pk, base_point2, rs, ms, re, me0, u, v)
    BY <2>1, TwoEquations, Zenon
  <2> QED BY <2>2 DEF Balanced
<1>9. re (+) rs \in Scalar /\ me0 (+) ms \in Scalar
  BY <1>6, Operations
<1>10. /\ Sum(a) (+) u = generator (.) (re (+) rs)
       /\ Sum(b) (+) v = (pk (.) (re (+) rs)) (+) (base_point2 (.) (me0 (+) ms))
  BY <1>3, <1>8
<1> QED BY <1>9, <1>10 DEF x, y, a, b, rs, ms, re, me0, u, v

\* BatchEncRightProof::verify accepts what BatchEncRightProof::proof makes.
LEMMA OwnBatchEnc ==
  ASSUME oracle \in Nat, NEW n \in Nat, NEW pk \in Scalar, NEW m, Vector(m, n),
         NEW r \in [1 .. n -> Scalar], NEW sm \in [1 .. n -> Scalar], NEW sr \in [1 .. n -> Scalar]
  PROVE  /\ BatchEnc_proof(pk, Under(n, pk, m, r), m, r, sm, sr) \in EncProof(n)
         /\ BatchEnc_verify(BatchEnc_proof(pk, Under(n, pk, m, r), m, r, sm, sr), pk, Under(n,
              pk, m, r))
<1> DEFINE c == Under(n, pk, m, r)
           t == Under(n, pk, sm, sr)
           e == EncChallenges(pk, c, C1(t), C2(t))
           zr == Dot(e, r) (+) Sum(sr)
           zm == Dot(e, m) (+) Sum(sm)
<1>1. Vector(sm, n) /\ Vector(sr, n)
  BY ScalarVector
<1>2. c \in [1 .. n -> Cipher] /\ C1(t) \in [1 .. n -> Scalar] /\ C2(t) \in [1 .. n -> Scalar]
  BY <1>1, Ciphertexts
<1>3. e \in [1 .. n -> Scalar]
  <2> HIDE DEF c, t
  <2> QED BY <1>2, EncChallengesType
<1>4. Vector(e, n)
  <2> HIDE DEF e
  <2> QED BY <1>3, ScalarVector
<1> HIDE DEF e
<1>5. /\ zr \in Scalar /\ zm \in Scalar
      /\ Sum(C1(t)) (+) Dot(e, C1(c)) = generator (.) zr
      /\ Sum(C2(t)) (+) Dot(e, C2(c)) = (pk (.) zr) (+) (base_point2 (.) zm)
  BY <1>1, <1>4, LeftTotals
<1>6. t = [j \in DOMAIN c |-> encrypt_with_randomness(pk, sm[j], sr[j])]
  BY DEF Under
<1> DEFINE prf == [c1_vec |-> C1(t), c2_vec |-> C2(t), total_zm |-> zm, total_zr |-> zr]
<1>7. BatchEnc_proof(pk, c, m, r, sm, sr) = prf
  <2> HIDE DEF c, t
  <2> QED BY <1>6 DEF BatchEnc_proof, e
<1> HIDE DEF c, t, zr, zm
<1>8. prf \in EncProof(n)
  BY <1>2, <1>5 DEF EncProof
<1>9. BatchEnc_verify(prf, pk, c)
  BY <1>5 DEF BatchEnc_verify, EncLeft, encrypt_with_randomness, e
<1> QED BY <1>7, <1>8, <1>9 DEF c

----------------------------------------------------------------------------
(***************************************************************************)
(* What shares of other keys leave over.                                   *)
(***************************************************************************)
LEMMA GeneratorTimes ==
  ASSUME NEW x \in Scalar
  PROVE  generator (.) x = x /\ x (.) generator = x
<1>1. x \in Nat /\ generator \in Nat /\ 1 * x = x /\ x * 1 = x /\ generator = 1
  BY ScalarIsNat DEF generator
<1>2. Cong(x, generator * x) /\ Cong(x, x * generator)
  BY <1>1, CongRefl
<1> QED BY <1>1, <1>2, CongProduct

\* Two steps of a chain of congruences.
LEMMA CongChain ==
  ASSUME NEW a \in Int, NEW b \in Int, NEW c \in Int, NEW d \in Int,
         Cong(a, b), Cong(b, c), Cong(c, d)
  PROVE  Cong(a, d)
BY CongTrans

\* The first equation of a share: made is the challenge that its proof was made
\* with, here the one that is found under the key p.
LEMMA FirstOfShare ==
  ASSUME NEW sk \in Scalar, NEW s \in Scalar, NEW p \in Scalar, NEW here \in Scalar,
           NEW made \in Scalar
  PROVE  Cong((generator (.) s) (+) (p (.) here),
              1 * (generator (.) ((made (.) sk) (+) s))
                + 1 * ((here (.) p) (-) (made (.) sk)))
<1> DEFINE ms == made (.) sk
           hp == here (.) p
           ph == p (.) here
           z  == ms (+) s
           x  == hp (-) ms
           msi == made * sk
           hpi == here * p
           left == (generator (.) s) (+) ph
<1>1. sk \in Nat /\ s \in Nat /\ p \in Nat /\ here \in Nat /\ made \in Nat /\ s \in Int
  BY ScalarIsNat
<1>2. ms \in Scalar /\ ms \in Nat /\ msi \in Int /\ Cong(ms, msi)
  BY <1>1, TimesInt, Zenon
<1>3. hp \in Nat /\ hpi \in Int /\ Cong(hp, hpi)
  BY <1>1, TimesInt, Zenon
<1>4. ph \in Nat /\ Cong(ph, hpi)
  <2>1. p * here = here * p
    BY <1>1
  <2>2. ph \in Nat /\ Cong(ph, p * here)
    BY <1>1, TimesInt, Zenon
  <2> QED BY <2>1, <2>2
<1> HIDE DEF ms, hp, ph, msi, hpi
<1>5. Cong(s, s)
  BY <1>1, CongRefl
<1>6. z \in Scalar /\ Cong(z, msi + s)
  BY <1>1, <1>2, <1>5, PlusCong
<1>7. x \in Scalar /\ Cong(x, hpi - msi)
  BY <1>2, <1>3, MinusCong
<1>8. left \in Scalar /\ Cong(left, s + hpi)
  BY <1>1, <1>3, <1>4, <1>5, GeneratorTimes, PlusCong
<1>9. generator (.) z = z
  BY <1>6, GeneratorTimes
<1> HIDE DEF z, x, left
<1>10. z \in Int /\ x \in Int /\ left \in Int /\ msi + s \in Int /\ hpi - msi \in Int
  BY <1>1, <1>2, <1>3, <1>6, <1>7, <1>8, ScalarIsNat
<1>11. Cong(z + x, (msi + s) + (hpi - msi))
  BY <1>6, <1>7, <1>10, CongSum
<1>12. (msi + s) + (hpi - msi) = s + hpi /\ z + x \in Int /\ s + hpi \in Int
         /\ 1 * z + 1 * x = z + x
  BY <1>1, <1>2, <1>3, <1>10
<1>13. Cong(s + hpi, z + x)
  BY <1>11, <1>12, CongSym
<1>14. Cong(left, z + x)
  BY <1>8, <1>10, <1>12, <1>13, CongTrans
<1>15. Cong(left, 1 * z + 1 * x)
  BY <1>12, <1>14
<1> QED BY <1>9, <1>15 DEF left, z, x, ms, hp, ph

\* The second equation of a share, with one challenge made and another one here.
LEMMA SecondOfShare ==
  ASSUME NEW sk \in Scalar, NEW s \in Scalar, NEW t \in Nat, NEW here \in Scalar,
           NEW made \in Scalar
  PROVE  Cong((s (.) t) (+) (here (.) (sk (.) t)),
              1 * (((made (.) sk) (+) s) (.) t) + t * ((here (-) made) (.) sk))
<1> DEFINE ms == made (.) sk
           z  == ms (+) s
           zt == z (.) t
           d  == here (-) made
           x  == d (.) sk
           kt == sk (.) t
           hk == here (.) kt
           st == s (.) t
           left == st (+) hk
           a  == s * t
           b  == here * (sk * t)
           c1 == (made * sk + s) * t
           c2 == t * ((here - made) * sk)
<1>1. /\ sk \in Nat /\ s \in Nat /\ here \in Nat /\ made \in Nat
      /\ sk \in Int /\ s \in Int /\ here \in Int /\ made \in Int /\ t \in Int
  BY ScalarIsNat
<1>2. ms \in Nat /\ Cong(ms, made * sk) /\ made * sk \in Int
  BY <1>1, TimesInt, Zenon
<1>3. Cong(s, s)
  BY <1>1, CongRefl
<1>4. st \in Nat /\ Cong(st, a) /\ a \in Int
  BY <1>1, TimesInt, Zenon
<1>5. kt \in Nat /\ kt \in Int /\ Cong(kt, sk * t) /\ sk * t \in Int
  BY <1>1, TimesInt, Zenon
<1>6. d \in Scalar /\ Cong(d, here - made) /\ here - made \in Int
  <2>1. here - made \in Int
    BY <1>1
  <2> QED BY <1>1, <2>1, Difference
<1> HIDE DEF ms, st, kt, d
<1>7. hk \in Nat /\ hk \in Int /\ Cong(hk, here * kt) /\ here * kt \in Int
  BY <1>1, <1>5, TimesInt, Zenon
<1>8. Cong(here * kt, b) /\ b \in Int
  BY <1>1, <1>5, Scaled, Zenon
<1>9. z \in Scalar /\ Cong(z, made * sk + s) /\ made * sk + s \in Int
  <2>1. made * sk + s \in Int
    BY <1>1, <1>2
  <2> QED BY <1>1, <1>2, <1>3, <2>1, PlusCong, Zenon
<1>10. d \in Nat /\ d \in Int /\ z \in Nat /\ z \in Int
  BY <1>6, <1>9, ScalarIsNat
<1> HIDE DEF z
<1>11. zt \in Int /\ Cong(zt, z * t) /\ z * t \in Int
  BY <1>10, TimesInt, Zenon
<1>12. Cong(z * t, c1) /\ c1 \in Int
  BY <1>1, <1>9, <1>10, ScaledRight, Zenon
<1>13. x \in Int /\ Cong(x, d * sk) /\ d * sk \in Int
  BY <1>1, <1>10, TimesInt, Zenon
<1>14. Cong(d * sk, (here - made) * sk) /\ (here - made) * sk \in Int
  BY <1>1, <1>6, <1>10, ScaledRight, Zenon
<1>15. Cong(x, (here - made) * sk)
  BY <1>13, <1>14, CongTrans, Zenon
<1> HIDE DEF x
<1>16. t * x \in Int /\ Cong(t * x, c2) /\ c2 \in Int
  BY <1>1, <1>13, <1>14, <1>15, Scaled, Zenon
<1>17. c1 + c2 = a + b
  BY <1>1, Z3
<1> DEFINE tx == t * x
           zs == z * t
           hs == here * kt
<1>18. tx \in Int /\ zs \in Int /\ hs \in Int /\ Cong(zt, zs) /\ Cong(zs, c1) /\ Cong(tx, c2)
       /\ Cong(hk, hs) /\ Cong(hs, b)
  BY <1>7, <1>8, <1>11, <1>12, <1>16
<1> HIDE DEF tx, zs, hs, a, b, c1, c2, zt, hk
<1>19. Cong(zt, c1) /\ Cong(hk, b)
  BY <1>7, <1>8, <1>11, <1>12, <1>18, CongTrans, Zenon
<1>20. left \in Scalar /\ Cong(left, a + b)
  BY <1>4, <1>7, <1>8, <1>19, PlusCong, Zenon
<1>21. Cong(zt + tx, c1 + c2) /\ zt + tx \in Int /\ c1 + c2 \in Int
  BY <1>11, <1>12, <1>16, <1>18, <1>19, CongSum, Zenon
<1> HIDE DEF left
<1>22. Cong(left, c1 + c2) /\ left \in Int
  BY <1>17, <1>20, ScalarIsNat
<1>23. Cong(c1 + c2, zt + tx)
  BY <1>21, CongSym
<1>24. Cong(left, zt + tx)
  BY <1>21, <1>22, <1>23, CongTrans
<1>25. 1 * zt + tx = zt + tx
  BY <1>11, <1>18
<1>26. Cong(left, 1 * zt + tx)
  BY <1>24, <1>25
<1> QED BY <1>26 DEF left, zt, tx, z, ms, st, hk, kt, x, d

\* The proof of the share of c1 with a key sk, and the challenge to it under p.
ShareProof(sk, s, c1) == BatchDec_proof(generator (.) sk, c1, Times(sk, c1), sk, s)

ChallengeUnder(p, sk, s, c1) ==
  BatchDecChallenge(p, ShareProof(sk, s, c1).t1, ShareProof(sk, s, c1).t2_vec, c1, Times(sk, c1))

\* The proof of the shares of a node.
LEMMA ShareProofType ==
  ASSUME oracle \in Nat, NEW w \in Nat, NEW c1 \in [1 .. w -> Scalar],
         NEW sk \in Scalar, NEW s \in Scalar
  PROVE  /\ ShareProof(sk, s, c1) \in DecProof(w)
         /\ ShareProof(sk, s, c1).t1 = generator (.) s
         /\ ShareProof(sk, s, c1).t2_vec = Times(s, c1)
         /\ ShareProof(sk, s, c1).zm = (ChallengeUnder(generator (.) sk, sk, s, c1) (.) sk) (+) s
         /\ Times(sk, c1) \in [1 .. w -> Scalar]
         /\ \A p \in Scalar : ChallengeUnder(p, sk, s, c1) \in Scalar
<1> DEFINE prf == ShareProof(sk, s, c1)
           dec == Times(sk, c1)
           e   == BatchDecChallenge(generator (.) sk, generator (.) s, Times(s, c1), c1, dec)
<1>1. sk \in Nat /\ s \in Nat /\ generator \in Nat
  BY ScalarIsNat DEF generator
<1>2. dec \in [1 .. w -> Scalar] /\ Times(s, c1) \in [1 .. w -> Scalar]
  BY <1>1, TimesType
<1>3. generator (.) sk \in Scalar /\ generator (.) s \in Scalar
  BY <1>1, Operations
<1>4. prf.t1 = generator (.) s /\ prf.t2_vec = Times(s, c1) /\ prf.zm = (e (.) sk) (+) s
      /\ prf = [t1 |-> prf.t1, t2_vec |-> prf.t2_vec, zm |-> prf.zm]
  BY DEF ShareProof, BatchDec_proof
<1>5. e = ChallengeUnder(generator (.) sk, sk, s, c1)
  BY <1>4 DEF ChallengeUnder
<1> HIDE DEF prf, dec
<1>6. ASSUME NEW p \in Scalar
      PROVE BatchDecChallenge(p, generator (.) s, Times(s, c1), c1, dec) \in Scalar
  BY <1>2, <1>3, DecChallengeType
<1>7. ASSUME NEW p \in Scalar PROVE ChallengeUnder(p, sk, s, c1) \in Scalar
  <2>1. ChallengeUnder(p, sk, s, c1) = BatchDecChallenge(p, generator (.) s, Times(s, c1), c1, dec)
    BY <1>4 DEF ChallengeUnder, prf, dec
  <2> QED BY <1>6, <2>1
<1>8. e \in Scalar
  BY <1>3, <1>6
<1> HIDE DEF e
<1>9. (e (.) sk) (+) s \in Scalar
  <2>1. e \in Nat
    BY <1>8, ScalarIsNat
  <2>2. e (.) sk \in Nat
    BY <1>1, <2>1, TimesInt, Zenon
  <2> QED BY <1>1, <2>2, Operations
<1>10. prf \in DecProof(w)
  BY <1>2, <1>3, <1>4, <1>9 DEF DecProof
<1> QED BY <1>2, <1>4, <1>5, <1>7, <1>10 DEF prf, dec

\* What is left of the two equations of the share of a key sk, checked with p.
LeftOver(p, sk, s, c1) ==
  (ChallengeUnder(p, sk, s, c1) (.) p) (-) (ChallengeUnder(generator (.) sk, sk, s, c1) (.) sk)
LeftOfBoth(p, sk, s, c1) ==
  (ChallengeUnder(p, sk, s, c1) (-) ChallengeUnder(generator (.) sk, sk, s, c1)) (.) sk

\* Both equations of a share, with what is left over.
LEMMA ShareSides ==
  ASSUME oracle \in Nat, NEW w \in Nat, NEW c1 \in [1 .. w -> Scalar],
         NEW sk \in Scalar, NEW s \in Scalar, NEW p \in Scalar
  PROVE  /\ LeftOver(p, sk, s, c1) \in Nat /\ LeftOfBoth(p, sk, s, c1) \in Nat
         /\ Cong(DecLeft(ShareProof(sk, s, c1), p, c1, Times(sk, c1)).t1,
                 1 * (generator (.) ShareProof(sk, s, c1).zm) + 1 * LeftOver(p, sk, s, c1))
         /\ Cong(DecLeft(ShareProof(sk, s, c1), p, c1, Times(sk, c1)).t2,
                 1 * (ShareProof(sk, s, c1).zm (.) Sum(c1)) + Sum(c1) * LeftOfBoth(p, sk, s, c1))
<1> DEFINE prf  == ShareProof(sk, s, c1)
           dec  == Times(sk, c1)
           here == ChallengeUnder(p, sk, s, c1)
           made == ChallengeUnder(generator (.) sk, sk, s, c1)
           t    == Sum(c1)
           lhs  == DecLeft(prf, p, c1, dec)
<1>1. /\ prf.t1 = generator (.) s /\ prf.t2_vec = Times(s, c1) /\ prf.zm = (made (.) sk) (+) s
      /\ dec \in [1 .. w -> Scalar]
      /\ \A x \in Scalar : ChallengeUnder(x, sk, s, c1) \in Scalar
  BY ShareProofType
<1>2. generator (.) sk \in Scalar
  BY GeneratorTimes
<1>3. here \in Scalar /\ made \in Scalar
  BY <1>1, <1>2
<1>4. s \in Nat /\ sk \in Nat /\ here \in Nat /\ made \in Nat /\ p \in Nat
  BY <1>3, ScalarIsNat
<1>5. t \in Nat /\ Sum(Times(s, c1)) = s (.) t /\ Sum(dec) = sk (.) t
  BY <1>4, TimesType
<1>6. Sum(Times(here, dec)) = here (.) (sk (.) t)
  <2> HIDE DEF here, dec, t
  <2>1. Sum(Times(here, dec)) = here (.) Sum(dec)
    BY <1>1, <1>4, TimesType
  <2> QED BY <1>5, <2>1
<1>7. lhs.t1 = prf.t1 (+) (p (.) here) /\ lhs.t2 = Sum(prf.t2_vec) (+) Sum(Times(here, dec))
  BY DEF DecLeft, ChallengeUnder
<1> HIDE DEF prf, dec, here, made, t, lhs
<1>8. lhs.t1 = (generator (.) s) (+) (p (.) here)
      /\ lhs.t2 = (s (.) t) (+) (here (.) (sk (.) t))
  BY <1>1, <1>5, <1>6, <1>7
<1>9. Cong(lhs.t1, 1 * (generator (.) prf.zm) + 1 * ((here (.) p) (-) (made (.) sk)))
  BY <1>1, <1>3, <1>8, FirstOfShare
<1>10. Cong(lhs.t2, 1 * (prf.zm (.) t) + t * ((here (-) made) (.) sk))
  BY <1>1, <1>3, <1>5, <1>8, SecondOfShare
<1>11. (here (.) p) (-) (made (.) sk) \in Nat
  <2>1. here (.) p \in Nat /\ made (.) sk \in Scalar
    BY <1>4, TimesInt, Zenon
  <2> QED BY <2>1, Difference, ScalarIsNat
<1>12. (here (-) made) (.) sk \in Nat
  <2>1. here (-) made \in Nat
    BY <1>3, <1>4, Difference, ScalarIsNat
  <2> QED BY <1>4, <2>1, TimesInt, Zenon
<1> QED BY <1>9, <1>10, <1>11, <1>12 DEF LeftOver, LeftOfBoth, prf, dec, here, made, t, lhs

\* Two sums are equal if what they differ by is zero.
LEMMA SumsDiffer ==
  ASSUME NEW x \in Scalar, NEW y \in Scalar, NEW a \in Nat, NEW z \in Scalar, Cong(x, 1 * y + a * z)
  PROVE  x = y <=> z (.) a = 0
<1> DEFINE az == a * z
           p == z (.) a
<1>1. x \in Int /\ y \in Int /\ z \in Nat
  BY ScalarIsNat
<1>2. az \in Int /\ p \in Scalar /\ p \in Int /\ Cong(p, az)
  <2>1. z * a = a * z /\ z * a \in Int
    BY <1>1
  <2>2. p \in Scalar /\ p \in Int /\ Cong(p, z * a)
    BY <1>1, TimesInt, Zenon
  <2> QED BY <2>1, <2>2
<1> HIDE DEF az, p
<1>3. Cong(x, y + az)
  <2>1. 1 * y = y
    BY <1>1
  <2> QED BY <2>1 DEF az
<1>4. ASSUME x = y PROVE p = 0
  <2>1. y + 0 = y /\ 0 \in Int
    BY <1>1
  <2>2. Cong(y + 0, y + az)
    BY <1>3, <1>4, <2>1
  <2>3. Cong(0, az)
    BY <1>1, <1>2, <2>1, <2>2, CongWithout
  <2>4. Cong(az, 0)
    BY <1>2, <2>1, <2>3, CongSym
  <2>5. Cong(p, 0)
    BY <1>2, <2>1, <2>4, CongTrans
  <2> QED BY <1>2, <2>5, NotZero
<1>5. ASSUME p = 0 PROVE x = y
  <2>1. 0 \in Int /\ 0 + y = y /\ az + y = y + az /\ y + az \in Int
    BY <1>1, <1>2
  <2>2. Cong(az, 0)
    BY <1>2, <1>5, <2>1, CongSym
  <2>3. Cong(az + y, 0 + y)
    BY <1>1, <1>2, <2>1, <2>2, CongAdd
  <2>4. Cong(y + az, y)
    BY <2>1, <2>3
  <2>5. Cong(x, y)
    BY <1>1, <1>3, <2>1, <2>4, CongTrans
  <2> QED BY <2>5, CongEqual
<1> QED BY <1>4, <1>5 DEF p

\* A verdict on shares, and what is left over of their keys.
JudgedBy(n, c1, sks, ss, ps, prfs, decs) ==
  BatchDec_batch_verify(prfs, ps, c1, decs) <=>
    /\ Sum([k \in 1 .. n |-> LeftOver(ps[k], sks[k], ss[k], c1)]) = 0
    /\ Sum([k \in 1 .. n |-> LeftOfBoth(ps[k], sks[k], ss[k], c1)]) (.) Sum(c1) = 0

\* Shares of the keys sks, made with the nonces ss and checked with ps.
LEMMA SharesJudged ==
  ASSUME oracle \in Nat, NEW n \in Nat, NEW w \in Nat, NEW c1 \in [1 .. w -> Scalar],
         NEW sks \in [1 .. n -> Scalar], NEW ss \in [1 .. n -> Scalar],
           NEW ps \in [1 .. n -> Scalar],
         NEW prfs, NEW decs,
         prfs = [k \in 1 .. n |-> ShareProof(sks[k], ss[k], c1)],
         decs = [k \in 1 .. n |-> Times(sks[k], c1)]
  PROVE  JudgedBy(n, c1, sks, ss, ps, prfs, decs)
<1> DEFINE a == LeftOne(n, prfs, ps, c1, decs)
           b == RightOne(n, prfs)
           c == LeftTwo(n, prfs, ps, c1, decs)
           d == RightTwo(n, prfs, c1)
           x == [k \in 1 .. n |-> LeftOver(ps[k], sks[k], ss[k], c1)]
           y == [k \in 1 .. n |-> LeftOfBoth(ps[k], sks[k], ss[k], c1)]
           t == Sum(c1)
<1>1. Shown(n, w, prfs, ps, c1, decs)
  <2>1. \A k \in 1 .. n : ShareProof(sks[k], ss[k], c1) \in DecProof(w)
          /\ Times(sks[k], c1) \in [1 .. w -> Scalar]
    BY ShareProofType
  <2> QED BY <2>1 DEF Shown
<1>2. ComparesSums(n, prfs, ps, c1, decs)
  BY <1>1, DecSums
<1>3. /\ a \in [1 .. n -> Scalar] /\ b \in [1 .. n -> Scalar]
      /\ c \in [1 .. n -> Scalar] /\ d \in [1 .. n -> Scalar]
      /\ BatchDec_batch_verify(prfs, ps, c1, decs) <=> Sum(a) = Sum(b) /\ Sum(c) = Sum(d)
  BY <1>2 DEF ComparesSums
<1>4. t \in Nat /\ t \in Int /\ 1 \in Int
  BY ScalarVector, SumType
<1>5. ASSUME NEW k \in 1 .. n
      PROVE  /\ x[k] \in Nat /\ y[k] \in Nat
             /\ Cong(a[k], 1 * b[k] + 1 * x[k])
             /\ Cong(c[k], 1 * d[k] + t * y[k])
  <2> DEFINE sk == sks[k]
             s == ss[k]
             p == ps[k]
  <2>1. sk \in Scalar /\ s \in Scalar /\ p \in Scalar
    OBVIOUS
  <2>2. /\ a[k] = DecLeft(ShareProof(sk, s, c1), p, c1, Times(sk, c1)).t1
        /\ c[k] = DecLeft(ShareProof(sk, s, c1), p, c1, Times(sk, c1)).t2
        /\ b[k] = generator (.) ShareProof(sk, s, c1).zm
        /\ d[k] = ShareProof(sk, s, c1).zm (.) t
        /\ x[k] = LeftOver(p, sk, s, c1) /\ y[k] = LeftOfBoth(p, sk, s, c1)
    BY DEF LeftOne, LeftTwo, RightOne, RightTwo
  <2> HIDE DEF sk, s, p, a, b, c, d, x, y
  <2>3. /\ LeftOver(p, sk, s, c1) \in Nat /\ LeftOfBoth(p, sk, s, c1) \in Nat
        /\ Cong(DecLeft(ShareProof(sk, s, c1), p, c1, Times(sk, c1)).t1,
                 1 * (generator (.) ShareProof(sk, s, c1).zm) + 1 * LeftOver(p, sk, s, c1))
        /\ Cong(DecLeft(ShareProof(sk, s, c1), p, c1, Times(sk, c1)).t2,
                 1 * (ShareProof(sk, s, c1).zm (.) t) + t * LeftOfBoth(p, sk, s, c1))
    BY <2>1, ShareSides
  <2> QED BY <2>2, <2>3, Zenon
<1>6. x \in [1 .. n -> Nat] /\ y \in [1 .. n -> Nat]
  BY <1>5
<1> HIDE DEF a, b, c, d, x, y, t
<1>7. Vector(x, n) /\ Vector(y, n) /\ Vector(a, n) /\ Vector(b, n) /\ Vector(c, n) /\ Vector(d, n)
  BY <1>3, <1>6, ScalarVector DEF Vector
<1>8. Cong(Sum(a), 1 * Sum(b) + 1 * Sum(x))
  BY <1>4, <1>5, <1>7, SumLinear
<1>9. Cong(Sum(c), 1 * Sum(d) + t * Sum(y))
  BY <1>4, <1>5, <1>7, SumLinear
<1>10. /\ Sum(a) \in Scalar /\ Sum(b) \in Scalar /\ Sum(c) \in Scalar /\ Sum(d) \in Scalar
       /\ Sum(x) \in Scalar /\ Sum(y) \in Scalar
  BY <1>7, SumType
<1>11. Sum(a) = Sum(b) <=> Sum(x) (.) 1 = 0
  BY <1>8, <1>10, SumsDiffer
<1>12. Sum(x) (.) 1 = Sum(x)
  BY <1>10, GeneratorTimes DEF generator
<1>13. Sum(c) = Sum(d) <=> Sum(y) (.) t = 0
  BY <1>4, <1>9, <1>10, SumsDiffer
<1> QED BY <1>3, <1>11, <1>12, <1>13 DEF JudgedBy, x, y, t

----------------------------------------------------------------------------
(***************************************************************************)
(* The value of a polynomial.                                              *)
(***************************************************************************)
\* The value at x of the polynomial with the coefficients c.
Value(n, c, x) == Sum([k \in 1 .. n |-> c[k] (.) pow(x, k - 1)])

\* The powers in the value of a polynomial are scalars.
LEMMA PowType ==
  ASSUME NEW n \in Nat, NEW x \in Nat, NEW k \in 1 .. n
  PROVE  pow(x, k - 1) \in Scalar /\ pow(x, k - 1) \in Nat
<1>1. k - 1 \in Nat
  OBVIOUS
<1> QED BY <1>1, PowNext, ScalarIsNat

\* So is the value.
LEMMA ValueType ==
  ASSUME NEW n \in Nat, NEW c \in [1 .. n -> Scalar], NEW x \in Nat
  PROVE  /\ Vector([k \in 1 .. n |-> c[k] (.) pow(x, k - 1)], n)
         /\ Value(n, c, x) \in Scalar /\ Value(n, c, x) \in Nat
<1> DEFINE v == [k \in 1 .. n |-> c[k] (.) pow(x, k - 1)]
<1>1. \A k \in 1 .. n : c[k] (.) pow(x, k - 1) \in Nat
  BY PowType, ScalarIsNat, TimesInt
<1>2. Vector(v, n)
  BY <1>1 DEF Vector
<1> HIDE DEF v
<1>3. Sum(v) \in Scalar /\ Sum(v) \in Nat
  BY <1>2, SumType
<1> QED BY <1>2, <1>3 DEF Value, v

\* The powers of zero.
LEMMA PowZero ==
  ASSUME NEW k \in Nat, k # 0
  PROVE  pow(0, k) = 0
<1>1. k - 1 \in Nat /\ (k - 1) + 1 = k /\ 0 \in Nat
  OBVIOUS
<1>2. pow(0, k) = pow(0, k - 1) (.) 0 /\ pow(0, k - 1) \in Scalar
  BY <1>1, PowNext
<1>3. pow(0, k - 1) * 0 = 0 /\ pow(0, k - 1) \in Nat
  BY <1>2, ScalarIsNat
<1>4. Cong(0, pow(0, k - 1) * 0)
  BY <1>3, CongRefl
<1>5. 0 = pow(0, k - 1) (.) 0
  BY <1>1, <1>3, <1>4, Order, CongProduct
<1> QED BY <1>2, <1>5

\* A vector with one entry that is not zero sums up to it.
LEMMA SumOfOne ==
  ASSUME NEW n \in Nat, NEW w, Vector(w, n), NEW i \in 1 .. n, NEW a \in Scalar,
         Cong(w[i], a), \A j \in 1 .. n : j # i => Cong(w[j], 0)
  PROVE  Sum(w) = a
<1> DEFINE u == [j \in 1 .. n |-> IF j = i THEN a ELSE 0]
           z == [j \in 1 .. n |-> 0]
<1>1. Vector(u, n) /\ Vector(z, n) /\ z[i] = 0 /\ u[i] = a
  BY ScalarIsNat DEF Vector
<1>2. \A j \in 1 .. n : j # i => Cong(u[j], z[j])
  BY CongRefl
<1>3. \A j \in 1 .. n : Cong(w[j], u[j])
  OBVIOUS
<1>4. \A j \in 1 .. n : Cong(z[j], 0)
  BY CongRefl
<1> HIDE DEF u, z
<1>5. Sum(w) = Sum(u) /\ Sum(z) = 0
  BY <1>1, <1>3, <1>4, SumSame, SumZero
<1>6. Cong(Sum(u) + z[i], Sum(z) + u[i])
  BY <1>1, <1>2, SumOne
<1>7. Sum(u) \in Scalar /\ Sum(u) + 0 = Sum(u) /\ 0 + a = a
  BY <1>1, SumType, ScalarIsNat
<1>8. Cong(Sum(u), a)
  BY <1>1, <1>5, <1>6, <1>7
<1> QED BY <1>5, <1>7, <1>8, CongEqual

\* The value at zero is the first coefficient.
LEMMA ValueAtZero ==
  ASSUME NEW n \in Nat, n > 0, NEW c \in [1 .. n -> Scalar]
  PROVE  Value(n, c, 0) = c[1]
<1> DEFINE v == [k \in 1 .. n |-> c[k] (.) pow(0, k - 1)]
<1>1. Vector(v, n) /\ 1 \in 1 .. n /\ c[1] \in Scalar /\ c[1] \in Nat
  <2>1. 0 \in Nat /\ 1 \in 1 .. n
    OBVIOUS
  <2>2. Vector(v, n)
    BY <2>1, ValueType, Zenon
  <2>3. c[1] \in Scalar /\ c[1] \in Nat
    BY <2>1, ScalarIsNat
  <2> QED BY <2>1, <2>2, <2>3
<1>2. v[1] = c[1]
  <2>1. pow(0, 1 - 1) = 1 /\ 1 - 1 = 0
    BY PowNext
  <2>2. v[1] = c[1] (.) 1
    BY <1>1, <2>1
  <2> QED BY <1>1, <2>2, GeneratorTimes DEF generator
<1>3. ASSUME NEW j \in 1 .. n, j # 1 PROVE Cong(v[j], 0)
  <2>0. j - 1 \in Nat /\ j - 1 # 0 /\ c[j] \in Scalar
    BY <1>3
  <2>1. pow(0, j - 1) = 0 /\ c[j] \in Nat
    BY <2>0, PowZero, ScalarIsNat
  <2>2. v[j] = c[j] (.) 0
    BY <2>1
  <2>3. c[j] * 0 = 0
    BY <2>1
  <2> QED BY <2>1, <2>2, <2>3, TimesInt
<1> HIDE DEF v
<1>4. Cong(v[1], c[1])
  BY <1>1, <1>2, CongRefl
<1>5. Sum(v) = c[1]
  BY <1>1, <1>3, <1>4, SumOfOne
<1> QED BY <1>5 DEF Value, v

\* Products can be reordered.
LEMMA Reordered ==
  ASSUME NEW a \in Nat, NEW b \in Nat, NEW c \in Nat
  PROVE  /\ Cong((a (.) b) (.) c, a * (b (.) c)) /\ Cong((a (.) b) (.) c, c * (a (.) b))
         /\ (a (.) b) (.) c \in Nat /\ (a (.) b) (.) c \in Int
<1> DEFINE ab == a (.) b
           bc == b (.) c
           x  == ab (.) c
           p1 == ab * c
           p2 == (a * b) * c
           p3 == a * (b * c)
           p4 == a * bc
<1>1. a \in Int /\ b \in Int /\ c \in Int
  OBVIOUS
<1>2. ab \in Nat /\ ab \in Int /\ Cong(ab, a * b) /\ a * b \in Int /\ bc \in Nat /\ bc \in Int
      /\ Cong(bc, b * c) /\ b * c \in Int
  BY TimesInt, Zenon
<1> HIDE DEF ab, bc
<1>3. x \in Nat /\ x \in Int /\ p1 \in Int /\ Cong(x, p1)
  BY <1>2, TimesInt, Zenon
<1>4. Cong(p1, p2) /\ p2 \in Int
  BY <1>1, <1>2, ScaledRight, Zenon
<1>5. Cong(b * c, bc)
  BY <1>2, CongSym, Zenon
<1>6. Cong(p3, p4) /\ p3 \in Int /\ p4 \in Int
  BY <1>1, <1>2, <1>5, Scaled, Zenon
<1>7. p2 = p3
  BY Z3
<1>8. ab * c = c * ab
  BY <1>2
<1> HIDE DEF x, p1, p2, p3, p4
<1>9. Cong(x, p4)
  BY <1>3, <1>4, <1>6, <1>7, CongChain
<1> QED BY <1>3, <1>8, <1>9 DEF x, p1, p4, ab, bc

\* Lagrange's interpolation at zero.
LEMMA Interpolation ==
  ASSUME NEW n \in Nat, n > 0, NEW s, Numbers(s, n), NEW c \in [1 .. n -> Scalar]
  PROVE  Sum([p \in 1 .. n |-> Value(n, c, s[p]) (.) Coefficient(s, 1 .. n, p)]) = c[1]
<1> DEFINE co(p) == Coefficient(s, 1 .. n, p)
           A == [p \in 1 .. n |-> [k \in 1 .. n |-> (c[k] (.) pow(s[p], k - 1)) (.) co(p)]]
           R == [p \in 1 .. n |-> Value(n, c, s[p]) (.) co(p)]
<1>1. \A p \in 1 .. n : s[p] \in Nat /\ co(p) \in Nat /\ c[p] \in Nat /\ c[p] \in Scalar
  BY FactorTypes, ScalarIsNat DEF Numbers
<1>2. ASSUME NEW p \in 1 .. n, NEW k \in 1 .. n
      PROVE  /\ c[k] (.) pow(s[p], k - 1) \in Nat /\ pow(s[p], k - 1) \in Nat
             /\ (c[k] (.) pow(s[p], k - 1)) (.) co(p) \in Nat
  <2> DEFINE x == pow(s[p], k - 1)
             y == co(p)
             z == c[k]
  <2>1. x \in Nat /\ y \in Nat /\ z \in Nat
    BY <1>1, PowType
  <2> HIDE DEF x, y, z
  <2>2. z (.) x \in Nat /\ (z (.) x) (.) y \in Nat
    BY <2>1, TimesInt, Reordered
  <2> QED BY <2>1, <2>2 DEF x, y, z
<1>3. \A p \in 1 .. n : Vector(A[p], n)
  BY <1>2 DEF Vector
<1>4. ASSUME NEW p \in 1 .. n PROVE Sum(A[p]) = R[p] /\ R[p] \in Nat
  <2> DEFINE v == [k \in 1 .. n |-> c[k] (.) pow(s[p], k - 1)]
             y == co(p)
             w == A[p]
  <2>0. Vector(v, n)
    <3>1. s[p] \in Nat
      BY <1>1
    <3> QED BY <3>1, ValueType, Zenon
  <2>1. Vector(v, n) /\ Vector(w, n) /\ y \in Nat /\ y \in Int
    BY <1>1, <1>3, <2>0
  <2>2. ASSUME NEW k \in 1 .. n PROVE Cong(w[k], y * v[k])
    <3> DEFINE x == pow(s[p], k - 1)
               z == c[k]
    <3>1. w[k] = (z (.) x) (.) y /\ v[k] = z (.) x
      OBVIOUS
    <3>2. x \in Nat /\ z \in Nat
      BY <1>1, <1>2
    <3> HIDE DEF x, z, y, v, w
    <3>3. Cong((z (.) x) (.) y, y * (z (.) x))
      BY <2>1, <3>2, Reordered
    <3> QED BY <3>1, <3>3
  <2>3. R[p] = Sum(v) (.) y
    BY DEF Value
  <2> HIDE DEF v, w, y, R
  <2>4. Cong(Sum(w), y * Sum(v))
    BY <2>1, <2>2, SumScaled
  <2>5. Sum(w) \in Scalar /\ Sum(v) \in Nat
    BY <2>1, SumType
  <2>6. y * Sum(v) = Sum(v) * y
    BY <2>1, <2>5
  <2>7. Sum(w) = Sum(v) (.) y
    BY <2>1, <2>4, <2>5, <2>6, CongProduct
  <2> QED BY <2>3, <2>5, <2>7, ScalarIsNat DEF w
<1>5. Rows(A, n) = R
  BY <1>4 DEF Rows
<1>6. ASSUME NEW k \in 1 .. n
      PROVE  /\ Columns(A, n, n)[k] = Sum(Column(A, n, k))
             /\ Cong(Sum(Column(A, n, k)), c[k] * Moment(s, 1 .. n, k - 1))
             /\ Sum(Column(A, n, k)) \in Nat
  <2> DEFINE w == Column(A, n, k)
             u == Terms(s, 1 .. n, k - 1)
  <2>1. k - 1 \in Nat /\ c[k] \in Nat /\ c[k] \in Int
    BY <1>1
  <2>2. Vector(u, n) /\ \A p \in 1 .. n : u[p] = pow(s[p], k - 1) (.) co(p)
    BY <2>1, TermTypes
  <2>3. Vector(w, n) /\ \A p \in 1 .. n : w[p] = (c[k] (.) pow(s[p], k - 1)) (.) co(p)
    BY <1>2 DEF Column, Vector
  <2>4. ASSUME NEW p \in 1 .. n PROVE Cong(w[p], c[k] * u[p])
    <3> DEFINE x == pow(s[p], k - 1)
               y == co(p)
               z == c[k]
    <3>1. x \in Nat /\ y \in Nat /\ z \in Nat /\ w[p] = (z (.) x) (.) y /\ u[p] = x (.) y
      BY <1>1, <1>2, <2>2, <2>3
    <3> HIDE DEF x, y, z, w, u
    <3>2. Cong((z (.) x) (.) y, z * (x (.) y))
      BY <3>1, Reordered, Zenon
    <3>3. Cong(w[p], z * u[p])
      BY <3>1, <3>2, Zenon
    <3> QED BY <3>3, Zenon DEF z
  <2> HIDE DEF w, u
  <2>5. Cong(Sum(w), c[k] * Sum(u))
    BY <2>1, <2>2, <2>3, <2>4, SumScaled
  <2>6. Sum(w) \in Nat
    BY <2>3, SumType
  <2> QED BY <2>5, <2>6 DEF w, u, Columns, Moment
<1>7. Numbers(s, n) /\ n - 1 \in Nat /\ (1 .. n) \in SUBSET (1 .. n)
        /\ Cardinality(1 .. n) = (n - 1) + 1
  <2>1. Cardinality(1 .. n) = n
    BY FS_Interval
  <2> QED BY <2>1
<1>8. Moment(s, 1 .. n, 0) = 1 /\ \A k \in 1 .. (n - 1) : Moment(s, 1 .. n, k) = 0
  <2> DEFINE D == 1 .. n
             m == n - 1
  <2>1. D \in SUBSET (1 .. n) /\ Cardinality(D) = m + 1 /\ m \in Nat
    BY <1>7
  <2> HIDE DEF D, m
  <2>2. Moment(s, D, 0) = 1 /\ \A k \in 1 .. m : Moment(s, D, k) = 0
    BY <1>7, <2>1, Moments
  <2> QED BY <2>2 DEF D, m
<1>9. Sum(Columns(A, n, n)) = c[1]
  <2> DEFINE w == Columns(A, n, n)
  <2>1. Vector(w, n)
    <3>1. w = [k \in 1 .. n |-> w[k]]
      BY DEF Columns
    <3> HIDE DEF w, A
    <3>2. \A k \in 1 .. n : w[k] \in Nat
      BY <1>6 DEF w
    <3> QED BY <3>1, <3>2 DEF Vector
  <2>2. 1 \in 1 .. n /\ 1 - 1 = 0 /\ c[1] * 1 = c[1] /\ c[1] \in Scalar
    BY <1>1
  <2> HIDE DEF A
  <2>3. Cong(w[1], c[1])
    BY <1>6, <1>8, <2>2
  <2>4. ASSUME NEW k \in 1 .. n, k # 1 PROVE Cong(w[k], 0)
    <3>0. k - 1 \in 1 .. (n - 1)
      BY <2>4
    <3>1. k - 1 \in 1 .. (n - 1) /\ c[k] \in Nat
      BY <1>1, <3>0
    <3>2. Moment(s, 1 .. n, k - 1) = 0
      BY <1>8, <3>1
    <3>3. c[k] * 0 = 0
      BY <3>1
    <3> QED BY <1>6, <3>2, <3>3
  <2> HIDE DEF w
  <2>5. Sum(w) = c[1]
    BY <2>1, <2>2, <2>3, <2>4, SumOfOne
  <2> QED BY <2>5 DEF w
<1> HIDE DEF A, R
<1>10. Sum(Rows(A, n)) = Sum(Columns(A, n, n))
  BY <1>3, SumSwap
<1> QED BY <1>5, <1>9, <1>10 DEF R

\* The coefficients of dec_phase_three are those of all nodes in s.
LEMMA NewParams ==
  ASSUME NEW n \in Nat, NEW s, Numbers(s, n), NEW p \in 1 .. n
  PROVE  map_share_to_new_params(s[p], s) = Coefficient(s, 1 .. n, p)
<1>1. DOMAIN s = 1 .. n
  BY DEF Numbers
<1>2. \A j \in 1 .. n : s[j] # s[p] <=> j \in (1 .. n) \ {p}
  BY DEF Numbers
<1>3. [j \in DOMAIN s |-> IF s[j] # s[p] THEN s[j] ELSE 1] = Above(s, 1 .. n, p)
  BY <1>1, <1>2 DEF Above
<1>4. [j \in DOMAIN s |-> IF s[j] # s[p] THEN s[j] (-) s[p] ELSE 1] = Below(s, 1 .. n, p)
  BY <1>1, <1>2 DEF Below
<1> QED BY <1>3, <1>4 DEF map_share_to_new_params, Coefficient

----------------------------------------------------------------------------
(***************************************************************************)
(* The keys on the disk.                                                   *)
(***************************************************************************)
\* What does not change once a run has begun.
Given ==
  /\ oracle \in Oracles
  /\ me \in Receivers
  /\ disk \in Disks
  /\ money \in Moneys

\* The numbers of the nodes are scalars but zero.
LEMMA Numbered == /\ share_counts \in Nat /\ share_counts # 0 /\ 1 \in Ids
                       /\ Ids = 1 .. share_counts
                  /\ threshold \in Nat /\ threshold + 1 \in Nat /\ threshold + 1 <= share_counts
                  /\ \A i \in Ids : i \in Scalar /\ i # 0 /\ i \in Nat
<1>1. /\ share_counts \in Nat \ {0} /\ share_counts < q
      /\ threshold \in Nat /\ threshold < share_counts
  BY AmountsAssumption, Zenon
<1> QED BY <1>1, FieldAssumption DEF Ids, Scalar

\* A share is the value of a polynomial.
LEMMA ShareType ==
  ASSUME NEW run \in {"this", "earlier"}, NEW d \in Ids, NEW x \in Nat
  PROVE  /\ f[run][d] \in [1 .. threshold + 1 -> Scalar]
         /\ Share(run, d, x) = Value(threshold + 1, f[run][d], x)
         /\ Share(run, d, x) \in Scalar /\ Share(run, d, x) \in Nat
<1>0. f \in [{"this", "earlier"} -> [Ids -> [1 .. threshold + 1 -> Scalar]]]
  BY AmountsAssumption, Zenon
<1>1. f[run][d] \in [1 .. threshold + 1 -> Scalar]
  BY <1>0
<1>2. Share(run, d, x) = Value(threshold + 1, f[run][d], x)
  BY DEF Share, Value
<1> QED BY <1>1, <1>2, Numbered, ValueType

\* The shares of all dealers at a node.
SharesAt(run, x) == [d \in Ids |-> Share(run, d, x)]

\* The shares of a node sum to a scalar.
LEMMA SharesAtType ==
  ASSUME NEW run \in {"this", "earlier"}, NEW x \in Nat
  PROVE  /\ Vector(SharesAt(run, x), share_counts)
         /\ Sum(SharesAt(run, x)) \in Scalar /\ Sum(SharesAt(run, x)) \in Nat
<1>1. Vector(SharesAt(run, x), share_counts)
  BY ShareType, Numbered DEF SharesAt, Vector
<1> QED BY <1>1, Numbered, SumType

\* What the disk says of keys.
LEMMA OnDisk ==
  ASSUME Given
  PROVE  /\ oracle \in Nat /\ me \in Ids
         /\ \A i \in Ids : disk.keypair[i] \in {"this", "earlier", "partial"}
         /\ \A i \in Ids : disk.pk_share[i] \in {"this", "earlier"}
         /\ \A i, j \in Ids : disk.keypair[i] = "partial" /\ disk.keypair[j] = "partial" => i = j
<1>1. oracle \in Nat
  BY FieldAssumption DEF Given
<1>2. me \in Ids
  BY AmountsAssumption DEF Given
<1>3. /\ disk.keypair \in [Ids -> {"this", "earlier", "partial"}]
      /\ disk.pk_share \in [Ids -> {"this", "earlier"}]
      /\ \A i, j \in Ids : disk.keypair[i] = "partial" /\ disk.keypair[j] = "partial" => i = j
  BY AmountsAssumption DEF Given
<1> QED BY <1>1, <1>2, <1>3

\* The keys are scalars.
LEMMA KeyTypes ==
  ASSUME Given
  PROVE  \A i \in Ids : /\ RegPk(i) = reg_sk[Run(disk.keypair[i])] /\ RegPk(i) \in Scalar
                         /\ Sk(i) \in Scalar /\ Pk(i) \in Scalar
                         /\ \A j \in Ids : PkShare(i, j) \in Scalar
<1>1. ASSUME NEW i \in Ids
      PROVE  RegPk(i) = reg_sk[Run(disk.keypair[i])] /\ RegPk(i) \in Scalar
  <2>0. reg_sk \in [{"this", "earlier"} -> Scalar]
    BY AmountsAssumption, Zenon
  <2>1. reg_sk[Run(disk.keypair[i])] \in Scalar
    BY <2>0 DEF Run
  <2> QED BY <2>1, GeneratorTimes DEF RegPk
<1>2. ASSUME NEW i \in Ids, NEW x \in Nat
      PROVE  Dot(Summed(disk.keypair[i], i), SharesAt(Run(disk.keypair[i]), x)) \in Scalar
  <2>1. Vector(Summed(disk.keypair[i], i), share_counts)
    BY Numbered DEF Summed, Vector
  <2>2. Run(disk.keypair[i]) \in {"this", "earlier"}
    BY DEF Run
  <2>3. Vector(SharesAt(Run(disk.keypair[i]), x), share_counts)
    BY <2>2, SharesAtType
  <2> QED BY <2>1, <2>3, Numbered, DotType
<1>3. ASSUME NEW i \in Ids PROVE Sk(i) \in Scalar /\ Pk(i) \in Scalar
  <2>1. i \in Nat /\ 0 \in Nat
    BY Numbered
  <2> QED BY <1>2, <2>1 DEF Sk, Pk, SharesAt
<1>4. ASSUME NEW i \in Ids, NEW j \in Ids PROVE PkShare(i, j) \in Scalar
  <2>1. j \in Nat /\ disk.pk_share[i] \in {"this", "earlier"}
    BY Numbered, OnDisk
  <2>2. Sum(SharesAt(disk.pk_share[i], j)) \in Scalar
    BY <2>1, SharesAtType
  <2>3. Run(disk.pk_share[i]) = disk.pk_share[i]
    BY <2>1 DEF Run
  <2> QED BY <2>2, <2>3 DEF PkShare, SharesAt
<1> QED BY <1>1, <1>3, <1>4

\* The group key of a run, and the keys of the nodes in it.
GroupKey(run) == Sum([d \in Ids |-> f[run][d][1]])

\* A key that is not partial is the sum of shares, and the key of the group.
LEMMA WholeKey ==
  ASSUME NEW run \in {"this", "earlier"}, NEW i \in Ids, disk.keypair[i] = run
  PROVE  Sk(i) = Sum(SharesAt(run, i)) /\ Pk(i) = GroupKey(run)
<1>1. ASSUME NEW x \in Nat PROVE Dot(Summed(run, i), SharesAt(run, x)) = Sum(SharesAt(run, x))
  <2>1. ASSUME NEW d \in Ids
        PROVE  Summed(run, i)[d] (.) SharesAt(run, x)[d] = SharesAt(run, x)[d]
    <3>1. Summed(run, i)[d] = generator
      BY DEF Summed, generator
    <3>2. SharesAt(run, x)[d] \in Scalar
      BY ShareType DEF SharesAt
    <3> QED BY <3>1, <3>2, GeneratorTimes
  <2>2. DOMAIN SharesAt(run, x) = Ids /\ SharesAt(run, x) = [d \in Ids |-> SharesAt(run, x)[d]]
    BY DEF SharesAt
  <2>3. [d \in DOMAIN SharesAt(run, x) |-> Summed(run, i)[d] (.) SharesAt(run, x)[d]]
          = SharesAt(run, x)
    BY <2>1, <2>2
  <2> QED BY <2>3 DEF Dot
<1>2. Run(run) = run
  BY DEF Run
<1>3. i \in Nat /\ 0 \in Nat
  BY Numbered
<1>4. Sk(i) = Sum(SharesAt(run, i)) /\ Pk(i) = Sum(SharesAt(run, 0))
  BY <1>1, <1>2, <1>3 DEF Sk, Pk, SharesAt
<1>5. ASSUME NEW d \in Ids PROVE Share(run, d, 0) = f[run][d][1]
  <2>1. threshold + 1 \in Nat /\ threshold + 1 > 0
    BY Numbered
  <2>2. 0 \in Nat
    OBVIOUS
  <2>3. f[run][d] \in [1 .. threshold + 1 -> Scalar]
          /\ Share(run, d, 0) = Value(threshold + 1, f[run][d], 0)
    BY <2>2, ShareType
  <2>4. Value(threshold + 1, f[run][d], 0) = f[run][d][1]
    BY <2>1, <2>3, ValueAtZero
  <2> QED BY <2>3, <2>4
<1>6. SharesAt(run, 0) = [d \in Ids |-> f[run][d][1]]
  BY <1>5 DEF SharesAt
<1> QED BY <1>4, <1>6 DEF GroupKey

\* The keys of threshold + 1 nodes make the group key.
LEMMA KeysCombine ==
  ASSUME NEW run \in {"this", "earlier"}, NEW s, Numbers(s, threshold + 1),
         \A p \in 1 .. threshold + 1 : s[p] \in Ids
  PROVE  Sum([p \in 1 .. threshold + 1 |->
                Sum(SharesAt(run, s[p])) (.) Coefficient(s, 1 .. threshold + 1, p)]) = GroupKey(run)
<1> DEFINE n == threshold + 1
           co(p) == Coefficient(s, 1 .. n, p)
           A == [p \in 1 .. n |-> [d \in 1 .. share_counts |-> Share(run, d, s[p]) (.) co(p)]]
           R == [p \in 1 .. n |-> Sum(SharesAt(run, s[p])) (.) co(p)]
<1>1. n \in Nat /\ n > 0 /\ share_counts \in Nat /\ Ids = 1 .. share_counts
  BY Numbered
<1> HIDE DEF n
<1>2. Numbers(s, n) /\ \A p \in 1 .. n : s[p] \in Ids /\ s[p] \in Nat
  BY Numbered DEF n
<1>3. \A p \in 1 .. n : co(p) \in Nat
  BY <1>1, <1>2, FactorTypes
<1>4. ASSUME NEW p \in 1 .. n, NEW d \in Ids
      PROVE  Share(run, d, s[p]) \in Nat /\ Share(run, d, s[p]) (.) co(p) \in Nat
  <2>1. Share(run, d, s[p]) \in Nat
    BY <1>2, ShareType
  <2> QED BY <1>3, <2>1, TimesInt
<1>5. \A p \in 1 .. n : Vector(A[p], share_counts)
  BY <1>1, <1>4 DEF Vector
<1>6. ASSUME NEW p \in 1 .. n PROVE Sum(A[p]) = R[p]
  <2> DEFINE v == SharesAt(run, s[p])
             y == co(p)
             w == A[p]
  <2>0. Vector(v, share_counts)
    <3>1. s[p] \in Nat
      BY <1>2
    <3> HIDE DEF A, R
    <3> QED BY <3>1, SharesAtType
  <2>1. Vector(v, share_counts) /\ Vector(w, share_counts) /\ y \in Nat /\ y \in Int
    BY <1>2, <1>3, <1>5, <2>0
  <2>2. ASSUME NEW d \in 1 .. share_counts PROVE Cong(w[d], y * v[d])
    <3> DEFINE x == Share(run, d, s[p])
    <3>1. w[d] = x (.) y /\ v[d] = x /\ x \in Nat
      BY <1>1, <1>4 DEF SharesAt
    <3> HIDE DEF x, y, v, w
    <3>2. Cong(x (.) y, x * y) /\ x * y = y * x
      BY <2>1, <3>1, TimesInt
    <3> QED BY <3>1, <3>2
  <2>3. R[p] = Sum(v) (.) y
    OBVIOUS
  <2> HIDE DEF v, w, y, R
  <2>4. Cong(Sum(w), y * Sum(v))
    BY <1>1, <2>1, <2>2, SumScaled
  <2>5. Sum(w) \in Scalar /\ Sum(v) \in Nat
    BY <1>1, <2>1, SumType
  <2>6. y * Sum(v) = Sum(v) * y
    BY <2>1, <2>5
  <2>7. Sum(w) = Sum(v) (.) y
    BY <2>1, <2>4, <2>5, <2>6, CongProduct
  <2> QED BY <2>3, <2>7 DEF w
<1>7. Rows(A, n) = R
  BY <1>6 DEF Rows
<1>8. ASSUME NEW d \in 1 .. share_counts PROVE Sum(Column(A, n, d)) = f[run][d][1]
  <2> DEFINE c == f[run][d]
  <2>1. d \in Ids
    BY <1>1
  <2>2. c \in [1 .. n -> Scalar]
    BY <2>1, ShareType DEF n
  <2>3. \A p \in 1 .. n : Share(run, d, s[p]) = Value(n, c, s[p])
    BY <1>2, <2>1, ShareType DEF n
  <2>4. Column(A, n, d) = [p \in 1 .. n |-> Value(n, c, s[p]) (.) co(p)]
    BY <2>1, <2>3 DEF Column
  <2> HIDE DEF A, c
  <2>5. Sum([p \in 1 .. n |-> Value(n, c, s[p]) (.) co(p)]) = c[1]
    BY <1>1, <1>2, <2>2, Interpolation
  <2> QED BY <2>4, <2>5 DEF c
<1>9. Columns(A, n, share_counts) = [d \in Ids |-> f[run][d][1]]
  BY <1>1, <1>8 DEF Columns
<1> HIDE DEF A, R
<1>10. Sum(Rows(A, n)) = Sum(Columns(A, n, share_counts))
  BY <1>1, <1>5, SumSwap
<1> QED BY <1>7, <1>9, <1>10 DEF R, n, GroupKey

\* Taking away the group's share of a ciphertext leaves its amount.
LEMMA Opens ==
  ASSUME NEW pk \in Scalar, NEW r \in Nat, NEW m \in Nat
  PROVE  ((pk (.) r) (+) (base_point2 (.) m)) (-) ((generator (.) r) (.) pk) = base_point2 (.) m
<1> DEFINE c1 == generator (.) r
           pr == pk * r
           bm == base_point2 * m
           c2 == (pk (.) r) (+) (base_point2 (.) m)
           x == c1 (.) pk
<1>1. pk \in Nat /\ pk \in Int /\ base_point2 \in Nat /\ generator \in Nat /\ r \in Int
  BY ScalarIsNat, BasePointAssumption DEF generator
<1>2. pr \in Int /\ bm \in Int
  BY <1>1
<1>3. c2 \in Scalar /\ Cong(c2, pr + bm)
  BY <1>1, TwoProducts
<1>4. c1 \in Nat /\ c1 \in Int /\ Cong(c1, r)
  <2>1. generator * r = r
    BY DEF generator
  <2>2. c1 \in Nat /\ c1 \in Int /\ Cong(c1, generator * r)
    BY <1>1, TimesInt, Zenon
  <2> QED BY <2>1, <2>2
<1> HIDE DEF c1, c2
<1>5. x \in Scalar /\ x \in Int /\ Cong(x, c1 * pk) /\ c1 * pk \in Int
  BY <1>1, <1>4, TimesInt, Zenon
<1>6. Cong(c1 * pk, r * pk)
  BY <1>1, <1>4, ScaledRight, Zenon
<1>7. r * pk = pr
  BY <1>1
<1>8. Cong(x, pr)
  BY <1>2, <1>5, <1>6, <1>7, CongTrans
<1> HIDE DEF x, pr, bm
<1>9. c2 \in Nat /\ pr + bm \in Int /\ (pr + bm) - pr = bm
  BY <1>2, <1>3, ScalarIsNat
<1>10. c2 (-) x \in Scalar /\ Cong(c2 (-) x, (pr + bm) - pr)
  BY <1>2, <1>3, <1>5, <1>8, <1>9, MinusCong
<1>11. Cong(c2 (-) x, bm)
  BY <1>9, <1>10
<1>12. c2 (-) x = base_point2 (.) m
  BY <1>1, <1>10, <1>11, CongProduct DEF bm
<1> QED BY <1>12 DEF c1, c2, x

----------------------------------------------------------------------------
(***************************************************************************)
(* The messages of the first phase.                                        *)
(***************************************************************************)
\* How many amounts a node encrypts.
Width == Len(money[1])

\* The random scalars that a node uses.
Draws(i, x) == [j \in 1 .. Width |-> tape[i][x][j]]

\* Amounts and random scalars, in vectors of the same width.
LEMMA MoneyTypes ==
  ASSUME Given
  PROVE  /\ Width \in Nat /\ Width # 0
         /\ DOMAIN money = Ids
         /\ \A i \in Ids : /\ Vector(money[i], Width) /\ DOMAIN money[i] = 1 .. Width
                           /\ Len(money[i]) = Width
                           /\ \A x \in {"r", "r_reg", "sm", "sr", "sm_eq", "sr1", "sr2"} :
                                /\ Draws(i, x) \in [1 .. Width -> Scalar]
                                /\ \A j \in 1 .. Width : tape[i][x][j] \in Scalar
                           /\ \A j \in 1 .. Width : tape[i].r[j] \in Scalar \ {0}
                           /\ tape[i].s \in Scalar
<1>1. money \in [Ids -> Seq(Nat)]
  BY AmountsAssumption DEF Given
<1>2. \A i \in Ids : /\ Len(money[i]) = Len(money[1]) /\ money[i] # << >>
                     /\ \A x \in {"r", "r_reg", "sm", "sr", "sm_eq", "sr1", "sr2"} :
                          Len(money[i]) <= Len(tape[i][x])
  BY AmountsAssumption DEF Given
<1>3. tape \in [Ids -> [r : Seq(Scalar \ {0}), r_reg : Seq(Scalar), sm : Seq(Scalar),
                     sr : Seq(Scalar), sm_eq : Seq(Scalar), sr1 : Seq(Scalar),
                     sr2 : Seq(Scalar), s : Scalar]]
  BY AmountsAssumption
<1>4. Width \in Nat /\ Width # 0
  BY <1>1, <1>2, Numbered DEF Width
<1>5. ASSUME NEW i \in Ids
      PROVE  Vector(money[i], Width) /\ DOMAIN money[i] = 1 .. Width /\ Len(money[i]) = Width
  <2>1. money[i] \in Seq(Nat) /\ Len(money[i]) = Width
    BY <1>1, <1>2 DEF Width
  <2> QED BY <2>1 DEF Vector
<1>6. ASSUME NEW i \in Ids, NEW x \in {"r", "r_reg", "sm", "sr", "sm_eq", "sr1", "sr2"}
      PROVE  \A j \in 1 .. Width : tape[i][x][j] \in Scalar
  <2>1. tape[i][x] \in Seq(Scalar)
    <3>1. tape[i].r \in Seq(Scalar)
      BY <1>3
    <3> QED BY <1>3, <3>1
  <2>2. Width <= Len(tape[i][x])
    BY <1>2, <1>5
  <2> QED BY <1>4, <2>1, <2>2
<1>7. ASSUME NEW i \in Ids
      PROVE  /\ \A j \in 1 .. Width : tape[i].r[j] \in Scalar \ {0}
             /\ tape[i].s \in Scalar
  <2>1. tape[i].r \in Seq(Scalar \ {0}) /\ tape[i].s \in Scalar
    BY <1>3
  <2>2. Width <= Len(tape[i].r)
    BY <1>2, <1>5
  <2> QED BY <1>4, <2>1, <2>2
<1>8. DOMAIN money = Ids
  BY <1>1
<1> QED BY <1>4, <1>5, <1>6, <1>7, <1>8 DEF Draws

\* What a node broadcasts first.
CipherOf(i) == Under(Width, Pk(i), money[i], Draws(i, "r"))
RegOf(i)    == Under(Width, RegPk(i), money[i], Draws(i, "r_reg"))
ProofOf(i)  == BatchEnc_proof(Pk(i), CipherOf(i), money[i], Draws(i, "r"), Draws(i, "sm"),
                 Draws(i, "sr"))

\* The parts of a message of the first phase.
LEMMA FirstMsgIs ==
  ASSUME Given, NEW i \in Ids
  PROVE  /\ FirstMsg(i).mul_cipher_vec = CipherOf(i)
         /\ FirstMsg(i).cipher_vec_reg = RegOf(i)
         /\ FirstMsg(i).batch_enc_proof = ProofOf(i)
         /\ \A j \in 1 .. Width :
              FirstMsg(i).equal_proof_vec[j] =
                EncEqual_proof(Pk(i), RegPk(i), CipherOf(i)[j], RegOf(i)[j], money[i][j], tape[i].r[j],
                               tape[i].r_reg[j], tape[i].sm_eq[j], tape[i].sr1[j], tape[i].sr2[j])
         /\ FirstMsg(i) = [mul_cipher_vec  |-> FirstMsg(i).mul_cipher_vec,
                           cipher_vec_reg  |-> FirstMsg(i).cipher_vec_reg,
                           batch_enc_proof |-> FirstMsg(i).batch_enc_proof,
                           equal_proof_vec |-> FirstMsg(i).equal_proof_vec]
<1>1. DOMAIN money[i] = 1 .. Width
  BY MoneyTypes
<1>2. [j \in DOMAIN money[i] |-> encrypt_with_randomness(Pk(i), money[i][j], tape[i].r[j])]
        = CipherOf(i)
  BY <1>1 DEF CipherOf, Under, Draws
<1>3. [j \in DOMAIN money[i] |-> encrypt_with_randomness(RegPk(i), money[i][j],
        tape[i].r_reg[j])] = RegOf(i)
  BY <1>1 DEF RegOf, Under, Draws
<1>4. DOMAIN CipherOf(i) = 1 .. Width
  BY DEF CipherOf, Under
<1>5. FirstMsg(i) =
        [mul_cipher_vec  |-> CipherOf(i),
         cipher_vec_reg  |-> RegOf(i),
         batch_enc_proof |-> ProofOf(i),
         equal_proof_vec |-> [j \in 1 .. Width |->
            EncEqual_proof(Pk(i), RegPk(i), CipherOf(i)[j], RegOf(i)[j], money[i][j], tape[i].r[j],
                           tape[i].r_reg[j], tape[i].sm_eq[j], tape[i].sr1[j], tape[i].sr2[j])]]
  BY <1>2, <1>3, <1>4 DEF FirstMsg, ProofOf, Draws
<1> QED BY <1>5

\* Their types; the proof passes under the key it was made with.
LEMMA FirstTypes ==
  ASSUME Given, NEW i \in Ids
  PROVE  /\ CipherOf(i) \in [1 .. Width -> Cipher]
         /\ RegOf(i) \in [1 .. Width -> Cipher]
         /\ ProofOf(i) \in EncProof(Width)
         /\ BatchEnc_verify(ProofOf(i), Pk(i), CipherOf(i))
<1>1. /\ Vector(money[i], Width) /\ Width \in Nat
      /\ Draws(i, "r") \in [1 .. Width -> Scalar] /\ Draws(i, "r_reg") \in [1 .. Width -> Scalar]
      /\ Draws(i, "sm") \in [1 .. Width -> Scalar] /\ Draws(i, "sr") \in [1 .. Width -> Scalar]
  BY MoneyTypes
<1>2. Pk(i) \in Scalar /\ RegPk(i) \in Scalar
  BY KeyTypes
<1>3. oracle \in Nat
  BY OnDisk
<1>4. CipherOf(i) \in [1 .. Width -> Cipher] /\ RegOf(i) \in [1 .. Width -> Cipher]
  BY <1>1, <1>2, Ciphertexts DEF CipherOf, RegOf
<1>5. ProofOf(i) \in EncProof(Width) /\ BatchEnc_verify(ProofOf(i), Pk(i), CipherOf(i))
  BY <1>1, <1>2, <1>3, OwnBatchEnc DEF CipherOf, ProofOf
<1> QED BY <1>4, <1>5

\* What a node proves of its own is accepted, in a batch or singly.
LEMMA OwnProofs ==
  ASSUME Given, NEW i \in Ids, phase_one_msgs[i] = FirstMsg(i)
  PROVE  OwnProofsPass(i)
<1> DEFINE msg == phase_one_msgs[i]
           t == tape[i]
           P == generator (.) Sk(i)
<1>1. BatchEnc_verify(msg.batch_enc_proof, Pk(i), msg.mul_cipher_vec)
  BY FirstMsgIs, FirstTypes
<1>2. oracle \in Nat /\ Pk(i) \in Scalar /\ Sk(i) \in Scalar /\ RegPk(i) \in Scalar /\ t.s \in Scalar
  BY OnDisk, KeyTypes, MoneyTypes
<1>3. DOMAIN money[i] = 1 .. Width
  BY MoneyTypes
<1>4. ASSUME NEW j \in 1 .. Width
      PROVE  LET c == msg.mul_cipher_vec[j]
                 d == c.c1 (.) Sk(i)
             IN  /\ EncEqual_verify(msg.equal_proof_vec[j], Pk(i), RegPk(i), c, msg.cipher_vec_reg[j])
                 /\ EncRight_verify(EncRight_proof(Pk(i), c, money[i][j], t.r[j], t.sm[j], t.sr[j]),
                                    Pk(i), c)
                 /\ DecRight_verify(DecRight_proof(P, c.c1, d, Sk(i), t.s), P, c.c1, d)
  <2> DEFINE c == msg.mul_cipher_vec[j]
             g == msg.cipher_vec_reg[j]
             m == money[i][j]
             d == c.c1 (.) Sk(i)
             r1 == t.r[j]
             r2 == t.r_reg[j]
             sm == t.sm[j]
             sr == t.sr[j]
             se == t.sm_eq[j]
             s1 == t.sr1[j]
             s2 == t.sr2[j]
  <2>1. m \in Nat
    BY MoneyTypes DEF Vector
  <2>2. /\ r1 \in Scalar /\ r2 \in Scalar /\ sm \in Scalar /\ sr \in Scalar
        /\ se \in Scalar /\ s1 \in Scalar /\ s2 \in Scalar
    BY MoneyTypes
  <2>3. c = encrypt_with_randomness(Pk(i), m, r1) /\ g = encrypt_with_randomness(RegPk(i), m, r2)
    <3>1. msg.mul_cipher_vec = CipherOf(i) /\ msg.cipher_vec_reg = RegOf(i)
      BY FirstMsgIs
    <3>2. CipherOf(i)[j] = encrypt_with_randomness(Pk(i), m, r1)
          /\ RegOf(i)[j] = encrypt_with_randomness(RegPk(i), m, r2)
      BY DEF CipherOf, RegOf, Under, Draws
    <3> QED BY <3>1, <3>2
  <2>4. msg.equal_proof_vec[j] = EncEqual_proof(Pk(i), RegPk(i), c, g, m, r1, r2, se, s1, s2)
    BY FirstMsgIs
  <2>5. c.c1 \in Scalar
    BY <1>2, <2>1, <2>2, <2>3, CipherType DEF Cipher
  <2> HIDE DEF c, g, m, r1, r2, sm, sr, se, s1, s2, t
  <2>6. EncEqual_verify(EncEqual_proof(Pk(i), RegPk(i), c, g, m, r1, r2, se, s1, s2), Pk(i),
          RegPk(i), c, g)
    BY <1>2, <2>1, <2>2, <2>3, OwnEncEqual
  <2>7. EncRight_verify(EncRight_proof(Pk(i), c, m, r1, sm, sr), Pk(i), c)
    BY <1>2, <2>1, <2>2, <2>3, OwnEncRight
  <2>8. DecRight_verify(DecRight_proof(P, c.c1, d, Sk(i), t.s), P, c.c1, d)
    BY <1>2, <2>5, OwnDecRight
  <2> QED BY <2>4, <2>6, <2>7, <2>8 DEF c, g, m, r1, r2, sm, sr, se, s1, s2, t
<1> QED BY <1>1, <1>3, <1>4 DEF OwnProofsPass

----------------------------------------------------------------------------
(***************************************************************************)
(* The inductive invariant.                                                *)
(***************************************************************************)
\* The messages of the first phase, and of the second.
MsgOne(i) == [mul_cipher_vec  : [1 .. Width -> Cipher],
              cipher_vec_reg  : {RegOf(i)},
              batch_enc_proof : EncProof(Width),
              equal_proof_vec : {FirstMsg(i).equal_proof_vec}]

MsgTwo == [sender       : Ids,
           batch_dec_c1 : [1 .. Width -> Scalar],
           dec_proof    : DecProof(Width)]

\* What is true of the types, also of messages that have been changed.
Typed ==
  /\ DOMAIN phase_one_msgs = Ids
  /\ phase_one_msgs = [i \in Ids |-> phase_one_msgs[i]]
  /\ \A i \in Ids : phase_one_msgs[i] \in MsgOne(i) \cup {<< >>}
  /\ phase_two_msgs \in Seq(MsgTwo)
  /\ phase_two_msgs # << >> => PhaseOneDone /\ batch_total_money \in [1 .. Width -> Cipher]
  /\ changed \in BOOLEAN

\* The senders of the shares so far are different nodes.
OneShareEach ==
  \A k, l \in DOMAIN phase_two_msgs :
    phase_two_msgs[k].sender = phase_two_msgs[l].sender => k = l

Accepted(i) == BatchEnc_batch_verify(EncProofs, Pk(i), CipherVecs)
SharesAccepted == BatchDec_batch_verify(DecProofs, PkShares, c1_vec, DecC1Vecs)

\* What is in the messages, and what was verified before a node went on or gave
\* up, unless a message was changed.
Computed ==
  /\ \A i \in Ids : phase_one_msgs[i] \in {FirstMsg(i), << >>}
  /\ phase_two_msgs # << >> => batch_total_money = Aggregate(CipherVecs)
  /\ \A i \in Ids : \A total \in [1 .. Width -> Cipher] : \A k \in DOMAIN phase_two_msgs :
       phase_two_msgs[k].sender = i /\ batch_total_money = total =>
         phase_two_msgs[k] = ShareMsg(i, total) /\ Accepted(i)
  /\ \A i \in Ids : <<i, 2>> \in panicked => PhaseOneDone /\ ~Accepted(i)
  /\ <<me, 3>> \in panicked => Len(phase_two_msgs) = share_counts /\ ~SharesAccepted
  /\ gm_vec # << >> => /\ Len(phase_two_msgs) = share_counts /\ SharesAccepted
                       /\ gm_vec = Opened(SubSeq(phase_two_msgs, 1, threshold + 1))

AmountsInv == Given /\ Typed /\ OneShareEach /\ (~changed => Computed)

\* AmountsInv holds initially.
LEMMA Initially == AmountInit => AmountsInv
<1> SUFFICES ASSUME AmountInit PROVE AmountsInv
  OBVIOUS
<1> USE DEF AmountInit
<1>1. Given
  BY DEF Given
<1>2. Typed
  <2>1. << >> \in Seq(MsgTwo)
    OBVIOUS
  <2>2. /\ DOMAIN phase_one_msgs = Ids /\ phase_one_msgs = [i \in Ids |-> phase_one_msgs[i]]
        /\ \A i \in Ids : phase_one_msgs[i] = << >>
    OBVIOUS
  <2> QED BY <2>1, <2>2 DEF Typed
<1>3. OneShareEach
  BY DEF OneShareEach
<1>4. Computed
  BY DEF Computed
<1> QED BY <1>1, <1>2, <1>3, <1>4 DEF AmountsInv

\* A message is not the empty sequence, which stands for none.
LEMMA NotEmpty ==
  /\ \A i \in Ids : \A m \in MsgOne(i) : m # << >>
  /\ \A m \in MsgTwo : m # << >>
<1>1. \A i \in Ids : \A m \in MsgOne(i) : "mul_cipher_vec" \in DOMAIN m
  BY DEF MsgOne
<1>2. \A m \in MsgTwo : "sender" \in DOMAIN m
  BY DEF MsgTwo
<1>3. DOMAIN << >> = {}
  OBVIOUS
<1> QED BY <1>1, <1>2, <1>3

\* The message that dec_phase_one makes is one.
LEMMA FirstMsgType ==
  ASSUME Given, NEW i \in Ids
  PROVE  FirstMsg(i) \in MsgOne(i) /\ FirstMsg(i) # << >>
<1>1. FirstMsg(i) \in MsgOne(i)
  BY FirstMsgIs, FirstTypes DEF MsgOne
<1> QED BY <1>1, NotEmpty

\* Nobody's message depends on what others send.
LEMMA StillFirstMsg ==
  ASSUME oracle' = oracle, disk' = disk, money' = money, NEW i \in Ids
  PROVE  FirstMsg(i)' = FirstMsg(i)
<1> DEFINE pk == Pk(i)
           m == money[i]
           t == tape[i]
           c == [j \in DOMAIN m |-> encrypt_with_randomness(pk, m[j], t.r[j])]
           g == [j \in DOMAIN m |-> encrypt_with_randomness(RegPk(i), m[j], t.r_reg[j])]
           a == [j \in DOMAIN c |-> t.r[j]]
           b == [j \in DOMAIN c |-> t.sm[j]]
           d == [j \in DOMAIN c |-> t.sr[j]]
           pr == BatchEnc_proof(pk, c, m, a, b, d)
           eq == [j \in DOMAIN c |-> EncEqual_proof(pk, RegPk(i), c[j], g[j], m[j], t.r[j], t.r_reg[j],
                        t.sm_eq[j], t.sr1[j], t.sr2[j])]
<1>1. FirstMsg(i)
        = [mul_cipher_vec |-> c, cipher_vec_reg |-> g, batch_enc_proof |-> pr,
          equal_proof_vec |-> eq]
  BY DEF FirstMsg
<1>2. FirstMsg(i)'
        = [mul_cipher_vec |-> c', cipher_vec_reg |-> g', batch_enc_proof |-> pr',
          equal_proof_vec |-> eq']
  BY DEF FirstMsg
<1>3. pk' = pk /\ m' = m
  BY DEF Pk
<1>4. c' = c
  BY <1>3
<1>5. g' = g
  BY DEF RegPk
<1>6. pr' = pr
  BY DEF BatchEnc_proof, EncChallenges, EncChallenge, Hash, Pk
<1>7. eq' = eq
  <2>1. RegPk(i)' = RegPk(i)
    BY DEF RegPk
  <2>2. \A p1, p2, c_1, c_2, t_1, t_2 :
          EqualChallenge(p1, p2, c_1, c_2, t_1, t_2)' = EqualChallenge(p1, p2, c_1, c_2, t_1, t_2)
    BY DEF EqualChallenge, Hash
  <2> DEFINE proof(j) == EncEqual_proof(pk, RegPk(i), c[j], g[j], m[j], t.r[j], t.r_reg[j],
                                        t.sm_eq[j], t.sr1[j], t.sr2[j])
  <2>3. eq = [j \in DOMAIN c |-> proof(j)] /\ eq' = [j \in DOMAIN c' |-> proof(j)']
    OBVIOUS
  <2> HIDE DEF pk, m, c, g, eq
  <2>4. ASSUME NEW j PROVE proof(j)' = proof(j)
    BY <1>3, <1>4, <1>5, <2>1, <2>2 DEF EncEqual_proof
  <2> HIDE DEF proof
  <2> QED BY <1>4, <2>3, <2>4
<1> HIDE DEF c, g, pr, eq
<1> QED BY <1>1, <1>2, <1>4, <1>5, <1>6, <1>7

\* Nothing of this depends on what is sent.
LEMMA StillGiven ==
  ASSUME UNCHANGED <<oracle, me, disk, money>>
  PROVE  /\ Given => Given'
         /\ Width' = Width
         /\ \A i \in Ids : /\ FirstMsg(i)' = FirstMsg(i) /\ RegOf(i)' = RegOf(i)
                           /\ Pk(i)' = Pk(i) /\ Sk(i)' = Sk(i)
                           /\ MsgOne(i)' = MsgOne(i)
         /\ MsgTwo' = MsgTwo
         /\ \A i \in Ids : \A total : ShareMsg(i, total)' = ShareMsg(i, total)
<1>1. (Given => Given') /\ Width' = Width
  BY DEF Given, Width
<1>2. ASSUME NEW i \in Ids PROVE Pk(i)' = Pk(i) /\ Sk(i)' = Sk(i) /\ RegPk(i)' = RegPk(i)
  BY DEF Pk, Sk, RegPk
<1>3. ASSUME NEW i \in Ids PROVE FirstMsg(i)' = FirstMsg(i)
  BY StillFirstMsg
<1>4. ASSUME NEW i \in Ids PROVE RegOf(i)' = RegOf(i)
  BY <1>1, <1>2 DEF RegOf, Draws
<1>5. ASSUME NEW i \in Ids PROVE MsgOne(i)' = MsgOne(i)
  BY <1>1, <1>3, <1>4 DEF MsgOne
<1>6. MsgTwo' = MsgTwo
  BY <1>1 DEF MsgTwo
<1>7. ASSUME NEW i \in Ids, NEW total PROVE ShareMsg(i, total)' = ShareMsg(i, total)
  BY <1>2 DEF ShareMsg, BatchDec_proof, BatchDecChallenge, Hash
<1> QED BY <1>1, <1>2, <1>3, <1>4, <1>5, <1>6, <1>7

\* The verdict of a node on the first phase depends on the messages of that phase.
LEMMA StillAccepted ==
  ASSUME UNCHANGED <<oracle, me, disk, phase_one_msgs>>, NEW i \in Ids
  PROVE  Accepted(i)' = Accepted(i) /\ CipherVecs' = CipherVecs
BY DEF Accepted, CipherVecs, EncProofs, Pk, Sk, BatchEnc_batch_verify, EncLeft, EncChallenges,
     EncChallenge, Hash

\* The verdict on shares depends on the sum and on the shares.
LEMMA StillShares ==
  ASSUME UNCHANGED <<oracle, me, disk, batch_total_money, phase_two_msgs>>
  PROVE  SharesAccepted' = SharesAccepted
BY DEF SharesAccepted, DecProofs, PkShares, PkShare, c1_vec, DecC1Vecs, BatchDec_batch_verify,
     DecLeft,
       BatchDecChallenge, Hash

\* So does what the shares open.
LEMMA StillOpened ==
  ASSUME UNCHANGED <<batch_total_money, phase_two_msgs>>
  PROVE  Opened(SubSeq(phase_two_msgs, 1, threshold + 1))'
           = Opened(SubSeq(phase_two_msgs, 1, threshold + 1))
BY DEF Opened, c1_vec

----------------------------------------------------------------------------
\* dec_phase_one preserves AmountsInv.
LEMMA StepOne ==
  ASSUME AmountsInv, NEW i \in Ids, DecPhaseOne(i)
  PROVE  AmountsInv'
<1> USE DEF AmountsInv
<1>1. UNCHANGED <<oracle, me, disk, money>>
        /\ UNCHANGED <<batch_total_money, phase_two_msgs, gm_vec, panicked, changed>>
      /\ phase_one_msgs[i] = << >> /\ phase_one_msgs' = [phase_one_msgs EXCEPT ![i] = FirstMsg(i)]
  BY DEF DecPhaseOne
<1>2. ~PhaseOneDone
  BY <1>1 DEF PhaseOneDone
<1>3. phase_two_msgs = << >>
  BY <1>2 DEF Typed
<1>4. Given'
  BY <1>1, StillGiven
<1>5. Typed'
  <2>1. FirstMsg(i) \in MsgOne(i)
    BY FirstMsgType
  <2>2. \A j \in Ids : MsgOne(j)' = MsgOne(j) /\ MsgTwo' = MsgTwo
    BY <1>1, StillGiven
  <2>3. /\ DOMAIN phase_one_msgs' = Ids /\ phase_one_msgs' = [j \in Ids |-> phase_one_msgs'[j]]
        /\ \A j \in Ids : phase_one_msgs'[j] \in MsgOne(j) \cup {<< >>}
    BY <1>1, <2>1 DEF Typed
  <2>4. phase_two_msgs' \in Seq(MsgTwo) /\ phase_two_msgs' = << >> /\ changed' \in BOOLEAN
    BY <1>1, <1>3 DEF Typed
  <2> QED BY <2>2, <2>3, <2>4 DEF Typed
<1>6. OneShareEach'
  BY <1>1, <1>3 DEF OneShareEach
<1>7. ASSUME ~changed' PROVE Computed'
  <2>1. ~changed
    BY <1>1, <1>7
  <2>2. \A j \in Ids : phase_one_msgs'[j] \in {FirstMsg(j), << >>}
    BY <1>1, <2>1 DEF Computed, Typed
  <2>3. \A j \in Ids : FirstMsg(j)' = FirstMsg(j)
    BY <1>1, StillGiven
  <2>4. Len(phase_two_msgs) = 0 /\ share_counts # 0 /\ DOMAIN phase_two_msgs = {}
    BY <1>3, Numbered
  <2>5. gm_vec = << >> /\ <<me, 3>> \notin panicked /\ \A j \in Ids : <<j, 2>> \notin panicked
    BY <1>2, <2>1, <2>4 DEF Computed
  <2> QED BY <1>1, <1>3, <2>2, <2>3, <2>4, <2>5 DEF Computed
<1> QED BY <1>4, <1>5, <1>6, <1>7

\* When the first phase is done, everybody's message is there.
LEMMA AllSent ==
  ASSUME Given, Typed, Computed, PhaseOneDone
  PROVE  /\ \A i \in Ids : phase_one_msgs[i] = FirstMsg(i)
         /\ CipherVecs = [i \in Ids |-> CipherOf(i)]
         /\ EncProofs = [i \in Ids |-> ProofOf(i)]
         /\ CipherVecsReg = [i \in Ids |-> RegOf(i)]
<1>1. \A i \in Ids : phase_one_msgs[i] = FirstMsg(i)
  BY DEF Computed, PhaseOneDone
<1> QED BY <1>1, FirstMsgIs DEF CipherVecs, EncProofs, CipherVecsReg

\* The sum of the vectors of ciphertexts.
LEMMA AggregateType ==
  ASSUME NEW n \in Nat, NEW vecs \in [Ids -> [1 .. n -> Cipher]]
  PROVE  /\ Aggregate(vecs) \in [1 .. n -> Cipher]
         /\ \A j \in 1 .. n : Aggregate(vecs)[j] = add([i \in Ids |-> vecs[i][j]])
<1>1. DOMAIN vecs[1] = 1 .. n
  BY Numbered
<1>2. ASSUME NEW j \in 1 .. n PROVE add([i \in Ids |-> vecs[i][j]]) \in Cipher
  <2> DEFINE c == [i \in Ids |-> vecs[i][j]]
  <2>1. c \in [1 .. share_counts -> Cipher]
    BY Numbered
  <2> HIDE DEF c
  <2>2. C1(c) \in [1 .. share_counts -> Scalar] /\ C2(c) \in [1 .. share_counts -> Scalar]
    BY <2>1, Numbered, ComponentTypes
  <2>3. Sum(C1(c)) \in Scalar /\ Sum(C2(c)) \in Scalar
    BY <2>2, Numbered, ScalarVector, SumType
  <2>4. add(c) \in Cipher
    BY <2>3 DEF add, Cipher
  <2> QED BY <2>4 DEF c
<1> QED BY <1>1, <1>2 DEF Aggregate

\* The parts of a message of the second phase.
LEMMA ShareMsgType ==
  ASSUME Given, NEW i \in Ids, NEW total \in [1 .. Width -> Cipher]
  PROVE  /\ ShareMsg(i, total) \in MsgTwo
         /\ ShareMsg(i, total).sender = i
         /\ ShareMsg(i, total).batch_dec_c1 = Times(Sk(i), C1(total))
         /\ ShareMsg(i, total).dec_proof = ShareProof(Sk(i), tape[i].s, C1(total))
<1>1. Width \in Nat /\ tape[i].s \in Scalar /\ Sk(i) \in Scalar /\ oracle \in Nat
  BY MoneyTypes, KeyTypes, OnDisk
<1>2. C1(total) \in [1 .. Width -> Scalar]
  BY <1>1, ComponentTypes
<1> DEFINE c1 == C1(total)
           p == ShareProof(Sk(i), tape[i].s, c1)
           d == Times(Sk(i), c1)
<1>3. ShareMsg(i, total) = [sender |-> i, batch_dec_c1 |-> d, dec_proof |-> p]
  BY DEF ShareMsg, ShareProof
<1>4. c1 \in [1 .. Width -> Scalar]
  BY <1>2
<1> HIDE DEF c1
<1>5. p \in DecProof(Width) /\ d \in [1 .. Width -> Scalar]
  BY <1>1, <1>4, ShareProofType
<1> HIDE DEF p, d
<1>6. [sender |-> i, batch_dec_c1 |-> d, dec_proof |-> p] \in MsgTwo
  BY <1>5 DEF MsgTwo
<1> QED BY <1>3, <1>6 DEF p, d, c1

\* A node whose share has not come makes one share less than nodes.
LEMMA NotAllYet ==
  ASSUME OneShareEach, phase_two_msgs \in Seq(MsgTwo), NEW i \in Ids, i \notin Shared
  PROVE  Len(phase_two_msgs) # share_counts
<1> DEFINE n == Len(phase_two_msgs)
           g == [k \in 1 .. n |-> phase_two_msgs[k].sender]
           T == Ids \ {i}
<1>1. n \in Nat /\ DOMAIN phase_two_msgs = 1 .. n
  OBVIOUS
<1>2. ASSUME NEW k \in 1 .. n PROVE phase_two_msgs[k].sender \in T
  <2>1. phase_two_msgs[k] \in MsgTwo
    BY <1>1
  <2>2. phase_two_msgs[k].sender \in Ids
    BY <2>1 DEF MsgTwo
  <2>3. phase_two_msgs[k].sender \in Shared
    BY <1>1 DEF Shared
  <2> QED BY <2>2, <2>3
<1>3. g \in Injection(1 .. n, T)
  BY <1>1, <1>2 DEF OneShareEach, Injection, IsInjective
<1>4. IsFiniteSet(Ids) /\ Cardinality(Ids) = share_counts /\ share_counts \in Nat
  BY Numbered, FS_Interval
<1>5. IsFiniteSet(T) /\ Cardinality(T) = share_counts - 1
  BY <1>4, FS_RemoveElement
<1>6. Cardinality(1 .. n) = n
  BY <1>1, FS_Interval
<1> HIDE DEF g, T, n
<1>7. Cardinality(1 .. n) <= Cardinality(T)
  BY <1>3, <1>5, FS_Injection
<1>8. n <= share_counts - 1
  BY <1>5, <1>6, <1>7
<1>9. n # share_counts
  BY <1>1, <1>4, <1>8
<1> QED BY <1>9 DEF n

\* dec_phase_two preserves AmountsInv.
LEMMA StepTwo ==
  ASSUME AmountsInv, NEW i \in Ids, DecPhaseTwo(i)
  PROVE  AmountsInv'
<1> USE DEF AmountsInv
<1> DEFINE total == Aggregate(CipherVecs)
<1>1. /\ UNCHANGED <<oracle, me, disk, money>> /\ UNCHANGED <<phase_one_msgs, gm_vec, changed>>
      /\ PhaseOneDone /\ ~changed /\ i \notin Shared /\ <<i, 2>> \notin panicked
  BY DEF DecPhaseTwo
<1>2. \/ /\ Accepted(i)
         /\ batch_total_money' = total
         /\ phase_two_msgs' = Append(phase_two_msgs, ShareMsg(i, total))
         /\ UNCHANGED panicked
      \/ /\ ~Accepted(i)
         /\ panicked' = panicked \cup {<<i, 2>>}
         /\ UNCHANGED <<batch_total_money, phase_two_msgs>>
  BY DEF DecPhaseTwo, Accepted
<1>3. Computed
  BY <1>1
<1>4. Given'
  BY <1>1, StillGiven
<1>5. /\ \A j \in Ids : MsgOne(j)' = MsgOne(j) /\ FirstMsg(j)' = FirstMsg(j)
      /\ MsgTwo' = MsgTwo /\ Width' = Width
  BY <1>1, StillGiven
<1>6. /\ \A j \in Ids : Accepted(j)' = Accepted(j)
      /\ CipherVecs' = CipherVecs /\ PhaseOneDone'
  BY <1>1, StillAccepted DEF PhaseOneDone
<1>7. total' = total
  BY <1>6 DEF Aggregate
<1>8. total \in [1 .. Width -> Cipher]
  <2>1. CipherVecs \in [Ids -> [1 .. Width -> Cipher]] /\ Width \in Nat
    BY <1>1, <1>3, AllSent, FirstTypes, MoneyTypes
  <2> QED BY <2>1, AggregateType
<1>9. ShareMsg(i, total) \in MsgTwo /\ ShareMsg(i, total).sender = i
  BY <1>8, ShareMsgType
<1>10. Len(phase_two_msgs) \in Nat /\ phase_two_msgs \in Seq(MsgTwo)
  BY DEF Typed
<1> HIDE DEF total
<1>11. CASE /\ Accepted(i)
            /\ batch_total_money' = total
            /\ phase_two_msgs' = Append(phase_two_msgs, ShareMsg(i, total))
            /\ UNCHANGED panicked
  <2> DEFINE n == Len(phase_two_msgs)
             msgs == phase_two_msgs'
  <2>1. /\ msgs \in Seq(MsgTwo) /\ Len(msgs) = n + 1
        /\ \A k \in 1 .. n : msgs[k] = phase_two_msgs[k]
        /\ msgs[n + 1] = ShareMsg(i, total)
        /\ DOMAIN msgs = 1 .. (n + 1) /\ DOMAIN phase_two_msgs = 1 .. n /\ n \in Nat
    BY <1>9, <1>10, <1>11
  <2>2. Typed'
    <3>1. phase_two_msgs' \in Seq(MsgTwo') /\ batch_total_money' \in [1 .. Width' -> Cipher]
      BY <1>5, <1>8, <1>11, <2>1
    <3>2. /\ DOMAIN phase_one_msgs' = Ids
          /\ phase_one_msgs' = [j \in Ids |-> phase_one_msgs'[j]]
          /\ \A j \in Ids : phase_one_msgs'[j] \in MsgOne(j)' \cup {<< >>}
          /\ changed' \in BOOLEAN
      BY <1>1, <1>5 DEF Typed
    <3> QED BY <1>6, <3>1, <3>2 DEF Typed
  <2>3. OneShareEach'
    <3>1. \A k \in 1 .. n : phase_two_msgs[k].sender # i
      BY <1>1, <2>1 DEF Shared
    <3>2. \A k, l \in 1 .. n : phase_two_msgs[k].sender = phase_two_msgs[l].sender => k = l
      BY <2>1 DEF OneShareEach
    <3>3. ASSUME NEW k \in 1 .. (n + 1), NEW l \in 1 .. (n + 1), msgs[k].sender = msgs[l].sender
          PROVE  k = l
      <4>1. \A x \in 1 .. (n + 1) : x \in 1 .. n \/ x = n + 1
        BY <2>1
      <4> HIDE DEF msgs, n
      <4> QED BY <1>9, <2>1, <3>1, <3>2, <3>3, <4>1
    <3> QED BY <2>1, <3>3 DEF OneShareEach
  <2>4. Computed'
    <3>1. n # 0 => batch_total_money = total
      BY <1>3, <2>1 DEF Computed, total
    <3>2. ASSUME NEW j \in Ids, NEW k \in 1 .. (n + 1), msgs[k].sender = j
          PROVE  msgs[k] = ShareMsg(j, total) /\ Accepted(j)
      <4>1. CASE k \in 1 .. n
        <5>1. msgs[k] = phase_two_msgs[k] /\ k \in DOMAIN phase_two_msgs
                /\ batch_total_money = total
          BY <2>1, <3>1, <4>1
        <5> HIDE DEF msgs, n
        <5> QED BY <1>3, <1>8, <3>2, <5>1 DEF Computed
      <4>2. CASE k = n + 1
        <5> HIDE DEF msgs, n
        <5> QED BY <1>9, <1>11, <2>1, <3>2, <4>2
      <4> QED BY <2>1, <4>1, <4>2
    <3>3. ASSUME NEW j \in Ids, NEW x \in [1 .. Width -> Cipher], NEW k \in DOMAIN msgs,
                 msgs[k].sender = j, batch_total_money' = x
          PROVE  msgs[k] = ShareMsg(j, x)' /\ Accepted(j)'
      <4>1. x = total /\ k \in 1 .. (n + 1)
        BY <1>11, <2>1, <3>3
      <4>2. ShareMsg(j, x)' = ShareMsg(j, x) /\ Accepted(j)' = Accepted(j)
        BY <1>1, <1>6, StillGiven
      <4> HIDE DEF msgs, n
      <4> QED BY <3>2, <3>3, <4>1, <4>2
    <3>4. \A j \in Ids : phase_one_msgs'[j] \in {FirstMsg(j)', << >>}
      BY <1>1, <1>3, <1>5 DEF Computed
    <3>5. n # share_counts
      BY <1>1, NotAllYet DEF Typed
    <3>6. gm_vec = << >> /\ <<me, 3>> \notin panicked
      BY <1>3, <3>5 DEF Computed
    <3>7. \A j \in Ids : <<j, 2>> \in panicked' => PhaseOneDone' /\ ~Accepted(j)'
      BY <1>3, <1>6, <1>11 DEF Computed
    <3>8. batch_total_money' = Aggregate(CipherVecs)'
      BY <1>7, <1>11 DEF total
    <3>9. gm_vec' = << >> /\ <<me, 3>>' \notin panicked'
      BY <1>1, <1>11, <3>6
    <3>10. \A j \in Ids : \A x \in [1 .. Width' -> Cipher] : \A k \in DOMAIN msgs :
             msgs[k].sender = j /\ batch_total_money' = x => msgs[k] = ShareMsg(j, x)'
               /\ Accepted(j)'
      BY <1>5, <3>3
    <3> QED BY <3>4, <3>7, <3>8, <3>9, <3>10 DEF Computed
  <2> QED BY <1>1, <1>4, <2>2, <2>3, <2>4
<1>12. CASE /\ ~Accepted(i)
            /\ panicked' = panicked \cup {<<i, 2>>}
            /\ UNCHANGED <<batch_total_money, phase_two_msgs>>
  <2>1. Typed'
    BY <1>1, <1>5, <1>6, <1>12 DEF Typed
  <2>2. OneShareEach'
    BY <1>12 DEF OneShareEach
  <2>3. Computed'
    <3>1. \A j \in Ids : phase_one_msgs'[j] \in {FirstMsg(j)', << >>}
      BY <1>1, <1>3, <1>5 DEF Computed
    <3>2. phase_two_msgs' # << >> => batch_total_money' = Aggregate(CipherVecs)'
      BY <1>3, <1>7, <1>12 DEF Computed, total
    <3>3. ASSUME NEW j \in Ids, NEW x \in [1 .. Width' -> Cipher], NEW k \in DOMAIN phase_two_msgs',
                 phase_two_msgs'[k].sender = j, batch_total_money' = x
          PROVE  phase_two_msgs'[k] = ShareMsg(j, x)' /\ Accepted(j)'
      <4>1. ShareMsg(j, x)' = ShareMsg(j, x) /\ Accepted(j)' = Accepted(j)
        BY <1>1, <1>6, StillGiven
      <4> QED BY <1>3, <1>5, <1>12, <3>3, <4>1 DEF Computed
    <3>4. \A j \in Ids : <<j, 2>> \in panicked' => PhaseOneDone' /\ ~Accepted(j)'
      BY <1>3, <1>6, <1>12 DEF Computed
    <3>5. SharesAccepted' = SharesAccepted
      BY <1>1, <1>12, StillShares
    <3>6. <<me, 3>>' \in panicked' => Len(phase_two_msgs') = share_counts /\ ~SharesAccepted'
      <4>1. <<me, 3>>' \in panicked' => <<me, 3>> \in panicked
        BY <1>1, <1>12
      <4> QED BY <1>3, <1>12, <3>5, <4>1 DEF Computed
    <3>7. gm_vec' # << >> => /\ Len(phase_two_msgs') = share_counts /\ SharesAccepted'
                             /\ gm_vec' = Opened(SubSeq(phase_two_msgs, 1, threshold + 1))'
      <4>1. Opened(SubSeq(phase_two_msgs, 1, threshold + 1))'
              = Opened(SubSeq(phase_two_msgs, 1, threshold + 1))
        BY <1>12, StillOpened
      <4> QED BY <1>1, <1>3, <1>12, <3>5, <4>1 DEF Computed
    <3> QED BY <3>1, <3>2, <3>3, <3>4, <3>6, <3>7 DEF Computed
  <2> QED BY <1>1, <1>4, <2>1, <2>2, <2>3
<1> QED BY <1>2, <1>11, <1>12

\* dec_phase_three preserves AmountsInv.
LEMMA StepThree ==
  ASSUME AmountsInv, DecPhaseThree
  PROVE  AmountsInv'
<1> USE DEF AmountsInv
<1>1. /\ UNCHANGED <<oracle, me, disk, money>>
      /\ UNCHANGED <<phase_one_msgs, batch_total_money, phase_two_msgs, changed>>
      /\ Len(phase_two_msgs) = share_counts /\ ~changed /\ gm_vec = << >>
           /\ <<me, 3>> \notin panicked
  BY DEF DecPhaseThree
<1>2. \/ SharesAccepted /\ gm_vec' = Opened(SubSeq(phase_two_msgs, 1, threshold + 1))
           /\ UNCHANGED panicked
      \/ ~SharesAccepted /\ panicked' = panicked \cup {<<me, 3>>} /\ UNCHANGED gm_vec
  BY DEF DecPhaseThree, SharesAccepted
<1>3. Computed
  BY <1>1
<1>4. Given'
  BY <1>1, StillGiven
<1>5. /\ \A j \in Ids : MsgOne(j)' = MsgOne(j) /\ FirstMsg(j)' = FirstMsg(j)
      /\ MsgTwo' = MsgTwo /\ Width' = Width
  BY <1>1, StillGiven
<1>6. /\ \A j \in Ids : Accepted(j)' = Accepted(j)
      /\ CipherVecs' = CipherVecs /\ PhaseOneDone' = PhaseOneDone
  <2>1. \A j \in Ids : Accepted(j)' = Accepted(j) /\ CipherVecs' = CipherVecs
    BY <1>1, StillAccepted
  <2>2. PhaseOneDone' = PhaseOneDone
    BY <1>1 DEF PhaseOneDone
  <2>3. CipherVecs' = CipherVecs
    BY <1>1 DEF CipherVecs
  <2> QED BY <2>1, <2>2, <2>3
<1>7. SharesAccepted' = SharesAccepted
  BY <1>1, StillShares
<1>8. Opened(SubSeq(phase_two_msgs, 1, threshold + 1))'
        = Opened(SubSeq(phase_two_msgs, 1, threshold + 1))
  BY <1>1, StillOpened
<1>9. Typed'
  BY <1>1, <1>5, <1>6 DEF Typed
<1>10. OneShareEach'
  BY <1>1 DEF OneShareEach
<1>11. Computed'
  <2>1. \A j \in Ids : phase_one_msgs'[j] \in {FirstMsg(j)', << >>}
    BY <1>1, <1>3, <1>5 DEF Computed
  <2>2. phase_two_msgs' # << >> => batch_total_money' = Aggregate(CipherVecs)'
    <3>1. Aggregate(CipherVecs)' = Aggregate(CipherVecs)
      BY <1>6 DEF Aggregate
    <3> QED BY <1>1, <1>3, <3>1 DEF Computed
  <2>3. ASSUME NEW j \in Ids, NEW x \in [1 .. Width' -> Cipher], NEW k \in DOMAIN phase_two_msgs',
               phase_two_msgs'[k].sender = j, batch_total_money' = x
        PROVE  phase_two_msgs'[k] = ShareMsg(j, x)' /\ Accepted(j)'
    <3>1. ShareMsg(j, x)' = ShareMsg(j, x) /\ Accepted(j)' = Accepted(j)
      BY <1>1, <1>6, StillGiven
    <3> QED BY <1>1, <1>3, <1>5, <2>3, <3>1 DEF Computed
  <2>4. ASSUME NEW j \in Ids, <<j, 2>> \in panicked' PROVE PhaseOneDone' /\ ~Accepted(j)'
    <3>1. <<j, 2>> \in panicked
      BY <1>2, <2>4
    <3> QED BY <1>3, <1>6, <3>1 DEF Computed
  <2>5. <<me, 3>>' \in panicked' => Len(phase_two_msgs') = share_counts /\ ~SharesAccepted'
    BY <1>1, <1>2, <1>7
  <2>6. gm_vec' # << >> => /\ Len(phase_two_msgs') = share_counts /\ SharesAccepted'
                           /\ gm_vec' = Opened(SubSeq(phase_two_msgs, 1, threshold + 1))'
    BY <1>1, <1>2, <1>7, <1>8
  <2> QED BY <2>1, <2>2, <2>3, <2>4, <2>5, <2>6 DEF Computed
<1> QED BY <1>1, <1>4, <1>9, <1>10, <1>11

\* A scalar, changed.
LEMMA PlusOneType ==
  ASSUME NEW x \in Scalar
  PROVE  x (+) 1 \in Scalar
BY ScalarIsNat, Operations

\* A changed ciphertext is one.
LEMMA CipherChanged ==
  ASSUME NEW i \in Ids, NEW msg \in MsgOne(i), NEW j \in 1 .. Width, NEW x \in {"c1", "c2"}
  PROVE  [msg EXCEPT !.mul_cipher_vec[j][x] = @ (+) 1] \in MsgOne(i)
<1> DEFINE c == msg.mul_cipher_vec
           d == [c EXCEPT ![j][x] = @ (+) 1]
<1>1. c \in [1 .. Width -> Cipher]
  BY DEF MsgOne
<1>2. [c[j] EXCEPT ![x] = @ (+) 1] \in Cipher
  <2>1. c[j] \in Cipher /\ c[j][x] \in Scalar
    BY <1>1 DEF Cipher
  <2>2. c[j][x] (+) 1 \in Scalar
    BY <2>1, PlusOneType
  <2> QED BY <2>1, <2>2 DEF Cipher
<1>3. d \in [1 .. Width -> Cipher]
  BY <1>1, <1>2
<1>4. [msg EXCEPT !.mul_cipher_vec[j][x] = @ (+) 1] = [msg EXCEPT !.mul_cipher_vec = d]
  BY DEF MsgOne
<1> HIDE DEF d
<1> QED BY <1>3, <1>4 DEF MsgOne

\* A changed proof is one.
LEMMA ProofChanged ==
  ASSUME NEW i \in Ids, NEW msg \in MsgOne(i)
  PROVE  /\ \A x \in {"total_zm", "total_zr"} :
              [msg EXCEPT !.batch_enc_proof[x] = @ (+) 1] \in MsgOne(i)
         /\ \A x \in {"c1_vec", "c2_vec"} : \A j \in 1 .. Width :
              [msg EXCEPT !.batch_enc_proof[x][j] = @ (+) 1] \in MsgOne(i)
<1> DEFINE p == msg.batch_enc_proof
<1>1. p \in EncProof(Width)
  BY DEF MsgOne
<1>2. ASSUME NEW x \in {"total_zm", "total_zr"}
      PROVE  [msg EXCEPT !.batch_enc_proof[x] = @ (+) 1] \in MsgOne(i)
  <2> DEFINE d == [p EXCEPT ![x] = @ (+) 1]
  <2>1. p[x] \in Scalar
    BY <1>1 DEF EncProof
  <2>2. p[x] (+) 1 \in Scalar
    BY <2>1, PlusOneType
  <2>3. d \in EncProof(Width)
    BY <1>1, <2>2 DEF EncProof
  <2>4. [msg EXCEPT !.batch_enc_proof[x] = @ (+) 1] = [msg EXCEPT !.batch_enc_proof = d]
    BY DEF MsgOne
  <2> HIDE DEF d
  <2> QED BY <2>3, <2>4 DEF MsgOne
<1>3. ASSUME NEW x \in {"c1_vec", "c2_vec"}, NEW j \in 1 .. Width
      PROVE  [msg EXCEPT !.batch_enc_proof[x][j] = @ (+) 1] \in MsgOne(i)
  <2> DEFINE d == [p EXCEPT ![x][j] = @ (+) 1]
             v == [p[x] EXCEPT ![j] = @ (+) 1]
  <2>1. p[x] \in [1 .. Width -> Scalar]
    BY <1>1 DEF EncProof
  <2>2. v \in [1 .. Width -> Scalar]
    BY <2>1, PlusOneType
  <2>3. d = [p EXCEPT ![x] = v]
    BY <1>1 DEF EncProof
  <2>4. d \in EncProof(Width)
    <3> HIDE DEF v, d
    <3> QED BY <1>1, <2>2, <2>3 DEF EncProof
  <2>5. [msg EXCEPT !.batch_enc_proof[x][j] = @ (+) 1] = [msg EXCEPT !.batch_enc_proof = d]
    BY DEF MsgOne
  <2> HIDE DEF d
  <2> QED BY <2>4, <2>5 DEF MsgOne
<1> QED BY <1>2, <1>3

\* A changed share is one, of the same sender.
LEMMA ShareChanged ==
  ASSUME NEW msg \in MsgTwo
  PROVE  /\ \A x \in {"t1", "zm"} :
              /\ [msg EXCEPT !.dec_proof[x] = @ (+) 1] \in MsgTwo
              /\ [msg EXCEPT !.dec_proof[x] = @ (+) 1].sender = msg.sender
         /\ \A j \in 1 .. Width :
              /\ [msg EXCEPT !.dec_proof.t2_vec[j] = @ (+) 1] \in MsgTwo
              /\ [msg EXCEPT !.dec_proof.t2_vec[j] = @ (+) 1].sender = msg.sender
              /\ [msg EXCEPT !.batch_dec_c1[j] = @ (+) 1] \in MsgTwo
              /\ [msg EXCEPT !.batch_dec_c1[j] = @ (+) 1].sender = msg.sender
<1> DEFINE p == msg.dec_proof
           c == msg.batch_dec_c1
<1>1. p \in DecProof(Width) /\ c \in [1 .. Width -> Scalar]
  BY DEF MsgTwo
<1>2. ASSUME NEW x \in {"t1", "zm"}
      PROVE  /\ [msg EXCEPT !.dec_proof[x] = @ (+) 1] \in MsgTwo
             /\ [msg EXCEPT !.dec_proof[x] = @ (+) 1].sender = msg.sender
  <2> DEFINE d == [p EXCEPT ![x] = @ (+) 1]
  <2>1. p[x] \in Scalar
    BY <1>1 DEF DecProof
  <2>2. p[x] (+) 1 \in Scalar
    BY <2>1, PlusOneType
  <2>3. d \in DecProof(Width)
    BY <1>1, <2>2 DEF DecProof
  <2>4. [msg EXCEPT !.dec_proof[x] = @ (+) 1] = [msg EXCEPT !.dec_proof = d]
    BY DEF MsgTwo
  <2> HIDE DEF d
  <2> QED BY <2>3, <2>4 DEF MsgTwo
<1>3. ASSUME NEW j \in 1 .. Width
      PROVE  /\ [msg EXCEPT !.dec_proof.t2_vec[j] = @ (+) 1] \in MsgTwo
             /\ [msg EXCEPT !.dec_proof.t2_vec[j] = @ (+) 1].sender = msg.sender
  <2> DEFINE d == [p EXCEPT !.t2_vec[j] = @ (+) 1]
             v == [p.t2_vec EXCEPT ![j] = @ (+) 1]
  <2>1. p.t2_vec \in [1 .. Width -> Scalar]
    BY <1>1 DEF DecProof
  <2>2. v \in [1 .. Width -> Scalar]
    BY <2>1, PlusOneType
  <2>3. d = [p EXCEPT !.t2_vec = v]
    BY <1>1 DEF DecProof
  <2>4. d \in DecProof(Width)
    <3> HIDE DEF v, d
    <3> QED BY <1>1, <2>2, <2>3 DEF DecProof
  <2>5. [msg EXCEPT !.dec_proof.t2_vec[j] = @ (+) 1] = [msg EXCEPT !.dec_proof = d]
    BY DEF MsgTwo
  <2> HIDE DEF d
  <2> QED BY <2>4, <2>5 DEF MsgTwo
<1>4. ASSUME NEW j \in 1 .. Width
      PROVE  /\ [msg EXCEPT !.batch_dec_c1[j] = @ (+) 1] \in MsgTwo
             /\ [msg EXCEPT !.batch_dec_c1[j] = @ (+) 1].sender = msg.sender
  <2> DEFINE v == [c EXCEPT ![j] = @ (+) 1]
  <2>1. v \in [1 .. Width -> Scalar]
    BY <1>1, PlusOneType
  <2>2. [msg EXCEPT !.batch_dec_c1[j] = @ (+) 1] = [msg EXCEPT !.batch_dec_c1 = v]
    BY DEF MsgTwo
  <2> HIDE DEF v
  <2> QED BY <2>1, <2>2 DEF MsgTwo
<1> QED BY <1>2, <1>3, <1>4

\* A change of a message of the first phase preserves AmountsInv.
LEMMA StepTamperOne ==
  ASSUME AmountsInv, TamperMsg, TamperOne
  PROVE  AmountsInv'
<1> USE DEF AmountsInv
<1>1. /\ UNCHANGED <<oracle, me, disk, money>> /\ UNCHANGED <<batch_total_money, gm_vec, panicked>>
      /\ changed' = TRUE
  BY DEF TamperMsg
<1>2. PhaseOneDone /\ phase_two_msgs = << >> /\ phase_two_msgs' = << >>
  BY DEF TamperOne
<1>3. Given'
  BY <1>1, StillGiven
<1>4. (\A j \in Ids : MsgOne(j)' = MsgOne(j)) /\ MsgTwo' = MsgTwo
  BY <1>1, StillGiven
<1>5. DOMAIN phase_one_msgs = Ids /\ phase_one_msgs = [j \in Ids |-> phase_one_msgs[j]]
      /\ \A j \in Ids : phase_one_msgs[j] \in MsgOne(j)
  BY <1>2 DEF Typed, PhaseOneDone
<1>6. \A j \in Ids : DOMAIN money[j] = 1 .. Width
  BY MoneyTypes
<1>7. \E i \in Ids : \E msg \in MsgOne(i) : phase_one_msgs' = [phase_one_msgs EXCEPT ![i] = msg]
  <2>1. PICK i \in Ids :
          \/ \E x \in {"total_zm", "total_zr"} :
               phase_one_msgs' = [phase_one_msgs EXCEPT ![i].batch_enc_proof[x] = @ (+) 1]
          \/ \E x \in {"c1_vec", "c2_vec"}, j \in DOMAIN money[i] :
               phase_one_msgs' = [phase_one_msgs EXCEPT ![i].batch_enc_proof[x][j] = @ (+) 1]
          \/ \E x \in {"c1", "c2"}, j \in DOMAIN money[i] :
               phase_one_msgs' = [phase_one_msgs EXCEPT ![i].mul_cipher_vec[j][x] = @ (+) 1]
    BY DEF TamperOne
  <2> DEFINE m == phase_one_msgs[i]
  <2>2. m \in MsgOne(i)
    BY <1>5
  <2>3. ASSUME NEW x \in {"total_zm", "total_zr"},
               phase_one_msgs' = [phase_one_msgs EXCEPT ![i].batch_enc_proof[x] = @ (+) 1]
        PROVE  \E msg \in MsgOne(i) : phase_one_msgs' = [phase_one_msgs EXCEPT ![i] = msg]
    <3>1. phase_one_msgs' = [phase_one_msgs EXCEPT ![i] = [m EXCEPT !.batch_enc_proof[x] = @ (+) 1]]
      BY <1>5, <2>3
    <3>2. [m EXCEPT !.batch_enc_proof[x] = @ (+) 1] \in MsgOne(i)
      BY <2>2, ProofChanged
    <3> QED BY <3>1, <3>2
  <2>4. ASSUME NEW x \in {"c1_vec", "c2_vec"}, NEW j \in DOMAIN money[i],
               phase_one_msgs' = [phase_one_msgs EXCEPT ![i].batch_enc_proof[x][j] = @ (+) 1]
        PROVE  \E msg \in MsgOne(i) : phase_one_msgs' = [phase_one_msgs EXCEPT ![i] = msg]
    <3>1. phase_one_msgs' = [phase_one_msgs EXCEPT ![i] = [m EXCEPT !.batch_enc_proof[x][j]
            = @ (+) 1]]
      BY <1>5, <2>4
    <3>2. [m EXCEPT !.batch_enc_proof[x][j] = @ (+) 1] \in MsgOne(i)
      BY <1>6, <2>2, ProofChanged
    <3> QED BY <3>1, <3>2
  <2>5. ASSUME NEW x \in {"c1", "c2"}, NEW j \in DOMAIN money[i],
               phase_one_msgs' = [phase_one_msgs EXCEPT ![i].mul_cipher_vec[j][x] = @ (+) 1]
        PROVE  \E msg \in MsgOne(i) : phase_one_msgs' = [phase_one_msgs EXCEPT ![i] = msg]
    <3>1. phase_one_msgs' = [phase_one_msgs EXCEPT ![i] = [m EXCEPT !.mul_cipher_vec[j][x]
            = @ (+) 1]]
      BY <1>5, <2>5
    <3>2. [m EXCEPT !.mul_cipher_vec[j][x] = @ (+) 1] \in MsgOne(i)
      BY <1>6, <2>2, CipherChanged
    <3> QED BY <3>1, <3>2
  <2> QED BY <2>1, <2>3, <2>4, <2>5
<1>8. /\ DOMAIN phase_one_msgs' = Ids /\ phase_one_msgs' = [j \in Ids |-> phase_one_msgs'[j]]
      /\ \A j \in Ids : phase_one_msgs'[j] \in MsgOne(j)
  BY <1>5, <1>7
<1>9. Typed'
  <2>1. \A j \in Ids : phase_one_msgs'[j] \in MsgOne(j)'
    BY <1>4, <1>8
  <2>2. phase_two_msgs' \in Seq(MsgTwo')
    BY <1>2
  <2> QED BY <1>1, <1>2, <1>8, <2>1, <2>2 DEF Typed
<1>10. OneShareEach'
  BY <1>2 DEF OneShareEach
<1> QED BY <1>1, <1>3, <1>9, <1>10

\* So does a change of a message of the second.
LEMMA StepTamperTwo ==
  ASSUME AmountsInv, TamperMsg, TamperTwo
  PROVE  AmountsInv'
<1> USE DEF AmountsInv
<1>1. /\ UNCHANGED <<oracle, me, disk, money>> /\ UNCHANGED <<batch_total_money, gm_vec, panicked>>
      /\ changed' = TRUE
  BY DEF TamperMsg
<1> DEFINE n == share_counts
           m == phase_two_msgs[n]
<1>2. phase_one_msgs' = phase_one_msgs /\ Len(phase_two_msgs) = n
  BY DEF TamperTwo
<1>3. Given'
  BY <1>1, StillGiven
<1>4. (\A j \in Ids : MsgOne(j)' = MsgOne(j)) /\ MsgTwo' = MsgTwo /\ Width' = Width
  BY <1>1, StillGiven
<1>5. n \in Nat \ {0} /\ n \in Ids
  BY Numbered
<1>6. phase_two_msgs \in Seq(MsgTwo) /\ DOMAIN phase_two_msgs = 1 .. n /\ n \in 1 .. n
        /\ m \in MsgTwo
  BY <1>2, <1>5 DEF Typed
<1>7. DOMAIN money[1] = 1 .. Width
  BY MoneyTypes, Numbered
<1>8. \E msg \in MsgTwo : msg.sender = m.sender
        /\ phase_two_msgs' = [phase_two_msgs EXCEPT ![n] = msg]
  <2>1. \/ \E x \in {"t1", "zm"} :
             phase_two_msgs' = [phase_two_msgs EXCEPT ![n].dec_proof[x] = @ (+) 1]
        \/ \E j \in 1 .. Width :
             \/ phase_two_msgs' = [phase_two_msgs EXCEPT ![n].dec_proof.t2_vec[j] = @ (+) 1]
             \/ phase_two_msgs' = [phase_two_msgs EXCEPT ![n].batch_dec_c1[j] = @ (+) 1]
    BY <1>7 DEF TamperTwo
  <2>2. ASSUME NEW x \in {"t1", "zm"},
               phase_two_msgs' = [phase_two_msgs EXCEPT ![n].dec_proof[x] = @ (+) 1]
        PROVE  \E msg \in MsgTwo : msg.sender = m.sender
                 /\ phase_two_msgs' = [phase_two_msgs EXCEPT ![n] = msg]
    <3>1. phase_two_msgs' = [phase_two_msgs EXCEPT ![n] = [m EXCEPT !.dec_proof[x] = @ (+) 1]]
      BY <1>6, <2>2
    <3>2. /\ [m EXCEPT !.dec_proof[x] = @ (+) 1] \in MsgTwo
          /\ [m EXCEPT !.dec_proof[x] = @ (+) 1].sender = m.sender
      BY <1>6, ShareChanged
    <3> QED BY <3>1, <3>2
  <2>3. ASSUME NEW j \in 1 .. Width,
               phase_two_msgs' = [phase_two_msgs EXCEPT ![n].dec_proof.t2_vec[j] = @ (+) 1]
        PROVE  \E msg \in MsgTwo : msg.sender = m.sender
                 /\ phase_two_msgs' = [phase_two_msgs EXCEPT ![n] = msg]
    <3>1. phase_two_msgs' = [phase_two_msgs EXCEPT ![n] = [m EXCEPT !.dec_proof.t2_vec[j]
            = @ (+) 1]]
      BY <1>6, <2>3
    <3>2. /\ [m EXCEPT !.dec_proof.t2_vec[j] = @ (+) 1] \in MsgTwo
          /\ [m EXCEPT !.dec_proof.t2_vec[j] = @ (+) 1].sender = m.sender
      BY <1>6, ShareChanged
    <3> QED BY <3>1, <3>2
  <2>4. ASSUME NEW j \in 1 .. Width,
               phase_two_msgs' = [phase_two_msgs EXCEPT ![n].batch_dec_c1[j] = @ (+) 1]
        PROVE  \E msg \in MsgTwo : msg.sender = m.sender
                 /\ phase_two_msgs' = [phase_two_msgs EXCEPT ![n] = msg]
    <3>1. phase_two_msgs' = [phase_two_msgs EXCEPT ![n] = [m EXCEPT !.batch_dec_c1[j] = @ (+) 1]]
      BY <1>6, <2>4
    <3>2. /\ [m EXCEPT !.batch_dec_c1[j] = @ (+) 1] \in MsgTwo
          /\ [m EXCEPT !.batch_dec_c1[j] = @ (+) 1].sender = m.sender
      BY <1>6, ShareChanged
    <3> QED BY <3>1, <3>2
  <2> QED BY <2>1, <2>2, <2>3, <2>4
<1>9. PICK msg \in MsgTwo : msg.sender = m.sender
        /\ phase_two_msgs' = [phase_two_msgs EXCEPT ![n] = msg]
  BY <1>8
<1>10. /\ phase_two_msgs' \in Seq(MsgTwo) /\ DOMAIN phase_two_msgs' = 1 .. n
       /\ \A k \in 1 .. n : phase_two_msgs'[k].sender = phase_two_msgs[k].sender
  BY <1>2, <1>6, <1>9
<1>11. Typed'
  <2>1. PhaseOneDone /\ batch_total_money \in [1 .. Width -> Cipher]
    BY <1>5, <1>6 DEF Typed
  <2>2. PhaseOneDone'
    BY <1>2, <2>1 DEF PhaseOneDone
  <2>3. batch_total_money' \in [1 .. Width' -> Cipher] /\ phase_two_msgs' \in Seq(MsgTwo')
    BY <1>1, <1>4, <1>10, <2>1
  <2>4. /\ DOMAIN phase_one_msgs' = Ids
        /\ phase_one_msgs' = [j \in Ids |-> phase_one_msgs'[j]]
        /\ \A j \in Ids : phase_one_msgs'[j] \in MsgOne(j)' \cup {<< >>}
    BY <1>2, <1>4 DEF Typed
  <2> QED BY <1>1, <2>2, <2>3, <2>4 DEF Typed
<1>12. OneShareEach'
  BY <1>6, <1>10 DEF OneShareEach
<1> QED BY <1>1, <1>3, <1>11, <1>12

\* So does a step that changes nothing.
LEMMA Stutter ==
  ASSUME AmountsInv, UNCHANGED amountVars
  PROVE  AmountsInv'
<1> USE DEF AmountsInv
<1>1. /\ UNCHANGED <<oracle, me, disk, money>>
      /\ UNCHANGED <<phase_one_msgs, batch_total_money, phase_two_msgs, gm_vec, panicked, changed>>
  BY DEF amountVars
<1>2. Given'
  BY <1>1, StillGiven
<1>3. /\ \A j \in Ids : MsgOne(j)' = MsgOne(j) /\ FirstMsg(j)' = FirstMsg(j)
      /\ MsgTwo' = MsgTwo /\ Width' = Width
  BY <1>1, StillGiven
<1>4. \A j \in Ids : Accepted(j)' = Accepted(j)
  BY <1>1, StillAccepted
<1>5. CipherVecs' = CipherVecs /\ PhaseOneDone' = PhaseOneDone
  BY <1>1 DEF CipherVecs, PhaseOneDone
<1>6. SharesAccepted' = SharesAccepted
  BY <1>1, StillShares
<1>7. Opened(SubSeq(phase_two_msgs, 1, threshold + 1))'
        = Opened(SubSeq(phase_two_msgs, 1, threshold + 1))
  BY <1>1, StillOpened
<1>8. Typed'
  BY <1>1, <1>3, <1>5 DEF Typed
<1>9. OneShareEach'
  BY <1>1 DEF OneShareEach
<1>10. ASSUME Computed PROVE Computed'
  <2>1. \A j \in Ids : phase_one_msgs'[j] \in {FirstMsg(j)', << >>}
    BY <1>1, <1>10, <1>3 DEF Computed
  <2>2. phase_two_msgs' # << >> => batch_total_money' = Aggregate(CipherVecs)'
    <3>1. Aggregate(CipherVecs)' = Aggregate(CipherVecs)
      BY <1>5 DEF Aggregate
    <3> QED BY <1>1, <1>10, <3>1 DEF Computed
  <2>3. ASSUME NEW j \in Ids, NEW x \in [1 .. Width' -> Cipher], NEW k \in DOMAIN phase_two_msgs',
               phase_two_msgs'[k].sender = j, batch_total_money' = x
        PROVE  phase_two_msgs'[k] = ShareMsg(j, x)' /\ Accepted(j)'
    <3>1. ShareMsg(j, x)' = ShareMsg(j, x) /\ Accepted(j)' = Accepted(j)
      BY <1>1, <1>4, StillGiven
    <3> QED BY <1>1, <1>3, <1>10, <2>3, <3>1 DEF Computed
  <2>4. ASSUME NEW j \in Ids, <<j, 2>> \in panicked' PROVE PhaseOneDone' /\ ~Accepted(j)'
    <3>1. <<j, 2>> \in panicked
      BY <1>1, <2>4
    <3> QED BY <1>4, <1>5, <1>10, <3>1 DEF Computed
  <2>5. <<me, 3>>' \in panicked' => Len(phase_two_msgs') = share_counts /\ ~SharesAccepted'
    <3>1. <<me, 3>>' \in panicked' => <<me, 3>> \in panicked
      BY <1>1
    <3> QED BY <1>1, <1>6, <1>10, <3>1 DEF Computed
  <2>6. gm_vec' # << >> => /\ Len(phase_two_msgs') = share_counts /\ SharesAccepted'
                           /\ gm_vec' = Opened(SubSeq(phase_two_msgs, 1, threshold + 1))'
    BY <1>1, <1>6, <1>7, <1>10 DEF Computed
  <2> QED BY <2>1, <2>2, <2>3, <2>4, <2>5, <2>6 DEF Computed
<1> QED BY <1>1, <1>2, <1>8, <1>9, <1>10

\* Messages have their types whatever is changed; unless a message was changed, they
\* are what the phases computed, nobody sends two shares, and who went on or gave up
\* did so by the verdict that still stands.
THEOREM AmountsInvariance == AmountSpec => []AmountsInv
<1>1. AmountInit => AmountsInv
  BY Initially
<1>2. AmountsInv /\ [AmountNext]_amountVars => AmountsInv'
  <2> SUFFICES ASSUME AmountsInv, [AmountNext]_amountVars PROVE AmountsInv'
    OBVIOUS
  <2>1. ASSUME NEW i \in Ids, DecPhaseOne(i) PROVE AmountsInv'
    BY <2>1, StepOne
  <2>2. ASSUME NEW i \in Ids, DecPhaseTwo(i) PROVE AmountsInv'
    BY <2>2, StepTwo
  <2>3. CASE DecPhaseThree
    BY <2>3, StepThree
  <2>4. CASE TamperMsg
    <3>1. TamperOne \/ TamperTwo
      BY <2>4 DEF TamperMsg
    <3> QED BY <2>4, <3>1, StepTamperOne, StepTamperTwo
  <2>5. CASE UNCHANGED amountVars
    BY <2>5, Stutter
  <2> QED BY <2>1, <2>2, <2>3, <2>4, <2>5 DEF AmountNext
<1> QED BY <1>1, <1>2, PTL DEF AmountSpec

----------------------------------------------------------------------------
(***************************************************************************)
(* Batches are judged as their parts are.                                  *)
(***************************************************************************)
\* What the verifiers of a second phase have before them.
LEMMA BeforeVerifiers ==
  ASSUME AmountsInv, PhaseOneDone
  PROVE  /\ CipherVecs \in [1 .. share_counts -> [1 .. Width -> Cipher]]
         /\ EncProofs \in [1 .. share_counts -> EncProof(Width)]
<1>1. \A i \in Ids : phase_one_msgs[i] \in MsgOne(i)
  BY DEF AmountsInv, Typed, PhaseOneDone
<1>2. \A i \in Ids : /\ phase_one_msgs[i].mul_cipher_vec \in [1 .. Width -> Cipher]
                     /\ phase_one_msgs[i].batch_enc_proof \in EncProof(Width)
  BY <1>1 DEF MsgOne
<1> QED BY <1>2, Numbered DEF CipherVecs, EncProofs

\* What the node that combines the shares has before it.
LEMMA BeforeCombining ==
  ASSUME AmountsInv, Len(phase_two_msgs) = share_counts
  PROVE  /\ PhaseOneDone /\ DOMAIN phase_two_msgs = 1 .. share_counts
         /\ batch_total_money \in [1 .. Width -> Cipher]
         /\ c1_vec \in [1 .. Width -> Scalar]
         /\ DecProofs \in [1 .. share_counts -> DecProof(Width)]
         /\ DecC1Vecs \in [1 .. share_counts -> [1 .. Width -> Scalar]]
         /\ PkShares \in [1 .. share_counts -> Scalar]
         /\ \A k \in 1 .. share_counts : phase_two_msgs[k].sender \in Ids
<1>1. phase_two_msgs \in Seq(MsgTwo) /\ phase_two_msgs # << >>
        /\ DOMAIN phase_two_msgs = 1 .. share_counts
  BY Numbered DEF AmountsInv, Typed
<1>2. PhaseOneDone /\ batch_total_money \in [1 .. Width -> Cipher]
  BY <1>1 DEF AmountsInv, Typed
<1>3. c1_vec \in [1 .. Width -> Scalar]
  BY <1>2, ComponentTypes, MoneyTypes DEF c1_vec, AmountsInv
<1>4. \A k \in 1 .. share_counts : phase_two_msgs[k] \in MsgTwo
  BY <1>1
<1>5. \A k \in 1 .. share_counts : /\ phase_two_msgs[k].sender \in Ids
                                   /\ phase_two_msgs[k].batch_dec_c1 \in [1 .. Width -> Scalar]
                                   /\ phase_two_msgs[k].dec_proof \in DecProof(Width)
  BY <1>4 DEF MsgTwo
<1>6. me \in Ids /\ \A j \in Ids : PkShare(me, j) \in Scalar
  BY OnDisk, KeyTypes DEF AmountsInv
<1> QED BY <1>1, <1>2, <1>3, <1>5, <1>6 DEF DecProofs, DecC1Vecs, PkShares

\* The invariant implies BatchAgrees.
LEMMA BatchesAgree ==
  ASSUME AmountsInv
  PROVE  BatchAgrees
<1>1. oracle \in Nat /\ me \in Ids /\ Pk(me) \in Scalar /\ Width \in Nat /\ share_counts \in Nat
      /\ Ids = 1 .. share_counts
  BY OnDisk, KeyTypes, MoneyTypes, Numbered DEF AmountsInv
<1>2. ASSUME PhaseOneDone
      PROVE  FollowsFrom(BatchEnc_batch_verify(EncProofs, Pk(me), CipherVecs),
                         [i \in Ids |-> BatchEnc_verify(EncProofs[i], Pk(me), CipherVecs[i])])
  <2>1. EncJudged(share_counts, Pk(me), EncProofs, CipherVecs)
    BY <1>1, <1>2, BeforeVerifiers, EncBatch
  <2> QED BY <1>1, <2>1 DEF EncJudged
<1>3. ASSUME Len(phase_two_msgs) = share_counts
      PROVE  FollowsFrom(BatchDec_batch_verify(DecProofs, PkShares, c1_vec, DecC1Vecs),
                         [k \in DOMAIN phase_two_msgs |->
                            BatchDec_verify(DecProofs[k], PkShares[k], c1_vec, DecC1Vecs[k])])
  BY <1>1, <1>3, BeforeCombining, DecBatch
<1>4. ASSUME ~changed, PhaseOneDone, NEW i \in Ids PROVE OwnProofsPass(i)
  BY <1>4, AllSent, OwnProofs DEF AmountsInv
<1> QED BY <1>2, <1>3, <1>4 DEF BatchAgrees

\* Both batch verifications judge as the verifications one by one do, for any number
\* of nodes and amounts, whatever part of a message was changed and whoever's key it
\* is verified with; what a node proves of its own is accepted.
THEOREM BatchesAlwaysAgree == AmountSpec => []BatchAgrees
<1>1. AmountsInv => BatchAgrees
  BY BatchesAgree
<1> QED BY <1>1, AmountsInvariance, PTL

----------------------------------------------------------------------------
(***************************************************************************)
(* Any quorum opens the total.                                             *)
(***************************************************************************)
\* A column of a table of amounts or of random scalars.
AmountsAt(j) == [i \in Ids |-> money[i][j]]
Randoms(r, j) == [i \in Ids |-> r[i][j]]

\* The total, by the amounts of one column.
LEMMA TotalIs ==
  ASSUME Given
  PROVE  /\ Total = [j \in 1 .. Width |-> base_point2 (.) Sum(AmountsAt(j))]
         /\ \A j \in 1 .. Width : Vector(AmountsAt(j), share_counts) /\ Sum(AmountsAt(j)) \in Nat
<1>1. DOMAIN money[1] = 1 .. Width
  BY MoneyTypes, Numbered
<1>2. ASSUME NEW j \in 1 .. Width
      PROVE  Vector(AmountsAt(j), share_counts)
  <2>1. \A i \in Ids : money[i][j] \in Nat
    BY MoneyTypes DEF Vector
  <2> QED BY <2>1, Numbered DEF Vector, AmountsAt
<1>3. \A j \in 1 .. Width : Sum(AmountsAt(j)) \in Nat
  BY <1>2, SumType, Numbered
<1> QED BY <1>1, <1>2, <1>3 DEF Total, AmountsAt

\* The sum of ciphertexts under one key encrypts the sum of the amounts.
LEMMA AggregateIs ==
  ASSUME Given, NEW pk \in Scalar, NEW r \in [Ids -> [1 .. Width -> Scalar]], NEW vecs,
         vecs = [i \in Ids |-> Under(Width, pk, money[i], r[i])], NEW j \in 1 .. Width
  PROVE  /\ Aggregate(vecs)[j] = encrypt_with_randomness(pk, Sum(AmountsAt(j)), Sum(Randoms(r, j)))
         /\ Sum(Randoms(r, j)) \in Nat
<1> DEFINE c == [i \in Ids |-> vecs[i][j]]
<1>1. Width \in Nat /\ Ids = 1 .. share_counts /\ share_counts \in Nat
      /\ \A i \in Ids : Vector(money[i], Width)
  BY MoneyTypes, Numbered
<1>2. ASSUME NEW i \in Ids
      PROVE  Under(Width, pk, money[i], r[i]) \in [1 .. Width -> Cipher]
  BY <1>1, Ciphertexts
<1>3. vecs \in [Ids -> [1 .. Width -> Cipher]]
  BY <1>2
<1>4. Aggregate(vecs)[j] = add(c)
  BY <1>1, <1>3, AggregateType, SMTT(30)
<1>5. c \in [1 .. share_counts -> Cipher]
  BY <1>1, <1>3
<1>6. ASSUME NEW i \in Ids
      PROVE  c[i].c1 = generator (.) r[i][j]
               /\ c[i].c2 = (pk (.) r[i][j]) (+) (base_point2 (.) money[i][j])
  BY DEF Under, encrypt_with_randomness
<1> HIDE DEF c
<1>7. /\ C1(c) \in [1 .. share_counts -> Scalar] /\ C2(c) \in [1 .. share_counts -> Scalar]
      /\ \A i \in 1 .. share_counts : C1(c)[i] = c[i].c1 /\ C2(c)[i] = c[i].c2
  BY <1>1, <1>5, ComponentTypes
<1>8. Vector(Randoms(r, j), share_counts)
  <2>1. \A i \in Ids : r[i][j] \in Nat
    BY ScalarIsNat
  <2> QED BY <1>1, <2>1 DEF Vector, Randoms
<1>9. Vector(AmountsAt(j), share_counts)
  BY TotalIs
<1>10. Encrypted(share_counts, pk, AmountsAt(j), Randoms(r, j), C1(c), C2(c))
  <2>1. Vector(C1(c), share_counts) /\ Vector(C2(c), share_counts)
    BY <1>1, <1>7, ScalarVector
  <2>2. \A i \in 1 .. share_counts :
          /\ C1(c)[i] = generator (.) Randoms(r, j)[i]
          /\ C2(c)[i] = (pk (.) Randoms(r, j)[i]) (+) (base_point2 (.) AmountsAt(j)[i])
    BY <1>1, <1>6, <1>7 DEF Randoms, AmountsAt
  <2> QED BY <1>8, <1>9, <2>1, <2>2 DEF Encrypted
<1>11. /\ Sum(C1(c)) = generator (.) Sum(Randoms(r, j))
       /\ Sum(C2(c)) = (pk (.) Sum(Randoms(r, j))) (+) (base_point2 (.) Sum(AmountsAt(j)))
  BY <1>1, <1>10, SumEncrypted
<1>12. add(c) = encrypt_with_randomness(pk, Sum(AmountsAt(j)), Sum(Randoms(r, j)))
  BY <1>11 DEF add, encrypt_with_randomness
<1>13. Sum(Randoms(r, j)) \in Nat
  BY <1>1, <1>8, SumType
<1> QED BY <1>4, <1>12, <1>13

\* The regulator's secret of the run that all keys are of opens the total from the
\* regulator's aggregate.
LEMMA RegulatorOpens ==
  ASSUME AmountsInv, PhaseOneDone, ~changed, NEW run \in {"this", "earlier"},
         \A i \in Ids : Run(disk.keypair[i]) = run
  PROVE  [j \in DOMAIN Total |-> decrypt(Aggregate(CipherVecsReg)[j], reg_sk[run])] = Total
<1> USE DEF AmountsInv
<1> DEFINE pk == reg_sk[run]
<1>1. /\ CipherVecsReg = [i \in Ids |-> RegOf(i)] /\ \A i \in Ids : RegPk(i) = pk
      /\ pk \in Scalar
  <2>1. reg_sk \in [{"this", "earlier"} -> Scalar]
    BY AmountsAssumption, Zenon
  <2> QED BY <2>1, AllSent, KeyTypes
<1> DEFINE r == [i \in Ids |-> Draws(i, "r_reg")]
<1>2. r \in [Ids -> [1 .. Width -> Scalar]]
  BY MoneyTypes
<1>3. CipherVecsReg = [i \in Ids |-> Under(Width, pk, money[i], r[i])]
  BY <1>1 DEF RegOf
<1>4. /\ Total = [j \in 1 .. Width |-> base_point2 (.) Sum(AmountsAt(j))]
      /\ \A j \in 1 .. Width : Sum(AmountsAt(j)) \in Nat
  BY TotalIs
<1> HIDE DEF r, pk
<1>5. ASSUME NEW j \in 1 .. Width
      PROVE  decrypt(Aggregate(CipherVecsReg)[j], pk) = base_point2 (.) Sum(AmountsAt(j))
  <2> DEFINE x == Sum(Randoms(r, j))
             m == Sum(AmountsAt(j))
  <2>1. Aggregate(CipherVecsReg)[j] = encrypt_with_randomness(pk, m, x) /\ x \in Nat /\ m \in Nat
    BY <1>1, <1>2, <1>3, <1>4, AggregateIs
  <2> HIDE DEF x, m
  <2>2. decrypt(encrypt_with_randomness(pk, m, x), pk)
          = ((pk (.) x) (+) (base_point2 (.) m)) (-) ((generator (.) x) (.) pk)
    BY DEF decrypt, encrypt_with_randomness
  <2>3. decrypt(encrypt_with_randomness(pk, m, x), pk) = base_point2 (.) m
    BY <1>1, <2>1, <2>2, Opens
  <2> QED BY <1>1, <2>1, <2>3 DEF m
<1> QED BY <1>4, <1>5 DEF pk

\* A share times its coefficient.
LEMMA ShareTerm ==
  ASSUME NEW a \in Nat, NEW b \in Nat, NEW c \in Nat
  PROVE  /\ (a (.) b) (.) c \in Nat /\ a (.) c \in Nat
         /\ Cong((a (.) b) (.) c, b * (a (.) c))
<1> DEFINE ab == a (.) b
           ac == a (.) c
           x  == ab (.) c
           p1 == ab * c
           p2 == (a * b) * c
           p3 == b * (a * c)
           p4 == b * ac
<1>1. a \in Int /\ b \in Int /\ c \in Int
  OBVIOUS
<1>2. ab \in Nat /\ ab \in Int /\ Cong(ab, a * b) /\ a * b \in Int /\ ac \in Nat /\ ac \in Int
      /\ Cong(ac, a * c) /\ a * c \in Int
  BY TimesInt, Zenon
<1> HIDE DEF ab, ac
<1>3. x \in Nat /\ x \in Int /\ p1 \in Int /\ Cong(x, p1)
  BY <1>2, TimesInt, Zenon
<1>4. Cong(p1, p2) /\ p2 \in Int
  BY <1>1, <1>2, ScaledRight, Zenon
<1>5. Cong(a * c, ac)
  BY <1>2, CongSym, Zenon
<1>6. Cong(p3, p4) /\ p3 \in Int /\ p4 \in Int
  BY <1>1, <1>2, <1>5, Scaled, Zenon
<1>7. p2 = p3
  OBVIOUS
<1> HIDE DEF x, p1, p2, p3, p4
<1>8. Cong(p1, p3)
  BY <1>4, <1>7, Zenon
<1>9. Cong(x, p4)
  BY <1>3, <1>4, <1>6, <1>7, <1>8, CongChain, Zenon
<1> QED BY <1>2, <1>3, <1>9, Zenon DEF x, p4, ab, ac

\* What n shares of a total with first component c open.
LEMMA SharesOpen ==
  ASSUME NEW run \in {"this", "earlier"}, NEW s, Numbers(s, threshold + 1),
         \A p \in 1 .. threshold + 1 : s[p] \in Ids /\ Sk(s[p]) = Sum(SharesAt(run, s[p])),
         NEW c \in Scalar
  PROVE  Sum([p \in 1 .. threshold + 1 |->
                (Sk(s[p]) (.) c) (.) map_share_to_new_params(s[p], s)]) = c (.) GroupKey(run)
<1> DEFINE n == threshold + 1
           u == [p \in 1 .. n |-> Sum(SharesAt(run, s[p])) (.) Coefficient(s, 1 .. n, p)]
           w == [p \in 1 .. n |-> (Sk(s[p]) (.) c) (.) map_share_to_new_params(s[p], s)]
<1>1. n \in Nat /\ n > 0 /\ c \in Nat /\ c \in Int
  BY Numbered, ScalarIsNat
<1>2. Sum(u) = GroupKey(run)
  BY KeysCombine
<1> HIDE DEF n
<1>3. ASSUME NEW p \in 1 .. n
      PROVE  /\ w[p] \in Nat /\ u[p] \in Nat /\ Cong(w[p], c * u[p])
  <2> DEFINE a == Sum(SharesAt(run, s[p]))
             y == Coefficient(s, 1 .. n, p)
  <2>1. Numbers(s, n) /\ s[p] \in Ids /\ Sk(s[p]) = a
    BY DEF n
  <2>2. s[p] \in Nat
    BY <2>1, Numbered
  <2>3. a \in Nat
    BY <2>2, SharesAtType
  <2>4. y \in Nat /\ map_share_to_new_params(s[p], s) = y
    BY <1>1, <2>1, FactorTypes, NewParams
  <2>5. w[p] = (a (.) c) (.) y /\ u[p] = a (.) y
    BY <2>1, <2>4
  <2> HIDE DEF a, y, w, u
  <2>6. /\ (a (.) c) (.) y \in Nat /\ a (.) y \in Nat
        /\ Cong((a (.) c) (.) y, c * (a (.) y))
    BY <1>1, <2>3, <2>4, ShareTerm, Zenon
  <2> QED BY <2>5, <2>6, Zenon
<1>4. Vector(w, n) /\ Vector(u, n)
  <2>1. w = [p \in 1 .. n |-> w[p]] /\ u = [p \in 1 .. n |-> u[p]]
    OBVIOUS
  <2> HIDE DEF w, u
  <2> QED BY <1>3, <2>1 DEF Vector
<1> HIDE DEF w, u
<1>5. Cong(Sum(w), c * Sum(u)) /\ Sum(w) \in Scalar /\ Sum(u) \in Nat
  BY <1>1, <1>3, <1>4, SumScaled, SumType
<1>6. Sum(w) = c (.) Sum(u)
  BY <1>1, <1>5, CongProduct, Zenon
<1> QED BY <1>2, <1>6 DEF w, n

\* Shares of a quorum, from whichever nodes, open the total.
LEMMA QuorumOpens ==
  ASSUME AmountsInv, ~changed, OneKey, Len(phase_two_msgs) = share_counts, NEW ms,
         NEW pos \in Injection(1 .. threshold + 1, DOMAIN phase_two_msgs),
         ms = [k \in 1 .. threshold + 1 |-> phase_two_msgs[pos[k]]]
  PROVE  Opened(ms) = Total
<1> USE DEF AmountsInv
<1> DEFINE n == threshold + 1
           s == [k \in 1 .. n |-> ms[k].sender]
           total == batch_total_money
<1>1. PICK run \in {"this", "earlier"} : \A i \in Ids : disk.keypair[i] = run
  BY DEF OneKey
<1>2. PhaseOneDone /\ DOMAIN phase_two_msgs = 1 .. share_counts /\ total \in [1 .. Width -> Cipher]
  BY BeforeCombining
<1>3. /\ pos \in [1 .. n -> DOMAIN phase_two_msgs]
      /\ \A k, l \in 1 .. n : pos[k] = pos[l] => k = l
  BY DEF Injection, IsInjective
<1>4. ASSUME NEW k \in 1 .. n
      PROVE  ms[k].sender \in Ids /\ ms[k] = ShareMsg(ms[k].sender, total)
  <2>1. pos[k] \in DOMAIN phase_two_msgs /\ ms[k] = phase_two_msgs[pos[k]]
    BY <1>3
  <2>2. phase_two_msgs[pos[k]].sender \in Ids
    BY <1>2, <2>1, BeforeCombining
  <2>3. Computed
    OBVIOUS
  <2> QED BY <1>2, <2>1, <2>2, <2>3 DEF Computed
<1>5. Numbers(s, n)
  <2>1. \A k \in 1 .. n : s[k] \in Ids
    BY <1>4
  <2>2. ASSUME NEW k \in 1 .. n, NEW l \in 1 .. n, k # l PROVE s[k] # s[l]
    <3>1. pos[k] # pos[l] /\ pos[k] \in DOMAIN phase_two_msgs /\ pos[l] \in DOMAIN phase_two_msgs
      BY <1>3, <2>2
    <3>2. s[k] = phase_two_msgs[pos[k]].sender /\ s[l] = phase_two_msgs[pos[l]].sender
      OBVIOUS
    <3> QED BY <3>1, <3>2 DEF OneShareEach
  <2>3. s = [k \in 1 .. n |-> s[k]]
    OBVIOUS
  <2> HIDE DEF s, n
  <2> QED BY <2>1, <2>2, <2>3, Numbered DEF Numbers
<1>6. /\ C1(total) \in [1 .. Width -> Scalar] /\ c1_vec = C1(total)
      /\ \A j \in 1 .. Width : C1(total)[j] = total[j].c1 /\ C1(total)[j] \in Scalar
      /\ DOMAIN c1_vec = 1 .. Width
  <2>1. Width \in Nat
    BY MoneyTypes
  <2>2. /\ C1(total) \in [1 .. Width -> Scalar]
        /\ \A j \in 1 .. Width : C1(total)[j] = total[j].c1
    BY <1>2, <2>1, ComponentTypes, Zenon
  <2>3. c1_vec = C1(total)
    BY DEF c1_vec
  <2> QED BY <2>2, <2>3
<1>7. /\ Total = [j \in 1 .. Width |-> base_point2 (.) Sum(AmountsAt(j))]
      /\ \A j \in 1 .. Width : Sum(AmountsAt(j)) \in Nat
  BY TotalIs
<1>8. GroupKey(run) \in Scalar /\ \A i \in Ids : Pk(i) = GroupKey(run)
        /\ Sk(i) = Sum(SharesAt(run, i))
  <2>1. \A i \in Ids : Pk(i) = GroupKey(run) /\ Sk(i) = Sum(SharesAt(run, i))
    BY <1>1, WholeKey
  <2>2. Pk(1) \in Scalar
    BY KeyTypes, Numbered
  <2> QED BY <2>1, <2>2, Numbered
<1>9. total = Aggregate(CipherVecs)
  <2>1. phase_two_msgs # << >>
    BY Numbered
  <2> QED BY <2>1 DEF Computed
<1> DEFINE r == [i \in Ids |-> Draws(i, "r")]
<1>10. r \in [Ids -> [1 .. Width -> Scalar]]
         /\ CipherVecs = [i \in Ids |-> Under(Width, GroupKey(run), money[i], r[i])]
  <2>1. CipherVecs = [i \in Ids |-> CipherOf(i)]
    BY <1>2, AllSent
  <2> QED BY <1>8, <2>1, MoneyTypes DEF CipherOf
<1>11. ASSUME NEW j \in 1 .. Width
       PROVE  total[j].c2 (-) Sum([k \in 1 .. n |->
                  ms[k].batch_dec_c1[j] (.) map_share_to_new_params(s[k], s)])
                    = base_point2 (.) Sum(AmountsAt(j))
  <2> DEFINE x == Sum(Randoms(r, j))
             m == Sum(AmountsAt(j))
             c == total[j].c1
             pk == GroupKey(run)
             w == [k \in 1 .. n |-> (Sk(s[k]) (.) c) (.) map_share_to_new_params(s[k], s)]
             z == [k \in 1 .. n |-> ms[k].batch_dec_c1[j] (.) map_share_to_new_params(s[k], s)]
  <2>1. /\ x \in Nat /\ m \in Nat
        /\ total[j] = encrypt_with_randomness(pk, m, x)
    <3> HIDE DEF r
    <3> QED BY <1>7, <1>8, <1>9, <1>10, AggregateIs
  <2>2. c = generator (.) x /\ total[j].c2 = (pk (.) x) (+) (base_point2 (.) m)
    BY <2>1 DEF encrypt_with_randomness
  <2>3. ASSUME NEW k \in 1 .. n PROVE ms[k].batch_dec_c1[j] = Sk(s[k]) (.) c
    <3>1. ms[k].batch_dec_c1 = Times(Sk(s[k]), C1(total))
      BY <1>2, <1>4, ShareMsgType
    <3> QED BY <1>6, <3>1 DEF Times
  <2>4. z = w
    <3> HIDE DEF s, c, n
    <3> QED BY <2>3
  <2>5. Sum(w) = c (.) pk
    <3>1. c \in Scalar /\ \A k \in 1 .. n : s[k] \in Ids /\ Sk(s[k]) = Sum(SharesAt(run, s[k]))
      BY <1>4, <1>6, <1>8
    <3> HIDE DEF s, c
    <3> QED BY <1>5, <3>1, SharesOpen
  <2> HIDE DEF x, m, c, pk, w, z
  <2>6. total[j].c2 (-) Sum(z) = base_point2 (.) m
    BY <1>8, <2>1, <2>2, <2>4, <2>5, Opens DEF pk
  <2> QED BY <2>6 DEF z, m
<1>12. DOMAIN ms = 1 .. n
  OBVIOUS
<1>13. Opened(ms) = [j \in 1 .. Width |-> total[j].c2 (-) Sum([k \in 1 .. n |->
                  ms[k].batch_dec_c1[j] (.) map_share_to_new_params(s[k], s)])]
  BY <1>6, <1>12 DEF Opened
<1> HIDE DEF n, s, r
<1> QED BY <1>7, <1>11, <1>13

\* The invariant implies QuorumOpensTotal.
LEMMA AmountsOpen ==
  ASSUME AmountsInv
  PROVE  QuorumOpensTotal
<1> SUFFICES ASSUME PhaseOneDone, ~changed
             PROVE  /\ \A run \in {"this", "earlier"} :
                         (\A i \in Ids : Run(disk.keypair[i]) = run) =>
                           [j \in DOMAIN Total |-> decrypt(Aggregate(CipherVecsReg)[j], reg_sk[run])]
                             = Total
                    /\ OneKey => /\ gm_vec # << >> => gm_vec = Total
                                 /\ Len(phase_two_msgs) = share_counts =>
                                      \A pos \in Injection(1 .. threshold + 1,
                                        DOMAIN phase_two_msgs) :
                                        Opened([k \in 1 .. threshold + 1 |-> phase_two_msgs[pos[k]]]) = Total
  BY DEF QuorumOpensTotal
<1>1. ASSUME NEW run \in {"this", "earlier"}, \A i \in Ids : Run(disk.keypair[i]) = run
      PROVE  [j \in DOMAIN Total |-> decrypt(Aggregate(CipherVecsReg)[j], reg_sk[run])] = Total
  BY <1>1, RegulatorOpens
<1>2. ASSUME OneKey, Len(phase_two_msgs) = share_counts,
             NEW pos \in Injection(1 .. threshold + 1, DOMAIN phase_two_msgs)
      PROVE  Opened([k \in 1 .. threshold + 1 |-> phase_two_msgs[pos[k]]]) = Total
  BY <1>2, QuorumOpens
<1>3. ASSUME OneKey, gm_vec # << >> PROVE gm_vec = Total
  <2> DEFINE n == threshold + 1
             pos == [k \in 1 .. n |-> k]
  <2>1. Computed
    BY DEF AmountsInv
  <2>2. Len(phase_two_msgs) = share_counts /\ gm_vec = Opened(SubSeq(phase_two_msgs, 1, n))
    BY <1>3, <2>1 DEF Computed
  <2>3. phase_two_msgs \in Seq(MsgTwo) /\ n \in 1 .. share_counts /\ share_counts \in Nat
    BY Numbered DEF AmountsInv, Typed
  <2>4. SubSeq(phase_two_msgs, 1, n) = [k \in 1 .. n |-> phase_two_msgs[k]]
    BY <2>2, <2>3
  <2>5. SubSeq(phase_two_msgs, 1, n) = [k \in 1 .. n |-> phase_two_msgs[pos[k]]]
    BY <2>4
  <2>6. pos \in Injection(1 .. n, DOMAIN phase_two_msgs)
    BY <2>2, <2>3 DEF Injection, IsInjective
  <2> HIDE DEF pos
  <2> QED BY <1>2, <1>3, <2>2, <2>5, <2>6
<1> QED BY <1>1, <1>2, <1>3

\* With one key, dec_phase_three opens the sum of the amounts, whatever the order in
\* which shares came and whichever quorum they are of; and if all keys are of one
\* run, the secret that the regulator had in that run opens the same sum from the
\* ciphertexts under the regulator's key.  For any polynomials, threshold and number of nodes.
THEOREM QuorumsOpenTotal == AmountSpec => []QuorumOpensTotal
<1>1. AmountsInv => QuorumOpensTotal
  BY AmountsOpen
<1> QED BY <1>1, AmountsInvariance, PTL

----------------------------------------------------------------------------
(***************************************************************************)
(* Keys of different runs show.                                            *)
(***************************************************************************)
\* Keys of the same name are the same.
LEMMA SamePk ==
  ASSUME Given, NEW i \in Ids, NEW m \in Ids, disk.keypair[m] = disk.keypair[i]
  PROVE  Pk(m) = Pk(i)
<1>1. disk.keypair[i] \in {"this", "earlier", "partial"}
      /\ (disk.keypair[i] = "partial" => m = i)
  BY OnDisk
<1>2. CASE disk.keypair[i] = "partial"
  BY <1>1, <1>2
<1>3. CASE disk.keypair[i] \in {"this", "earlier"}
  BY <1>3, WholeKey
<1> QED BY <1>1, <1>2, <1>3

\* What is under one key passes.
LEMMA OneKeyPasses ==
  ASSUME AmountsInv, ~changed, PhaseOneDone, NEW i \in Ids, OtherKeys(i) = {}
  PROVE  Accepted(i)
<1> USE DEF AmountsInv
<1> DEFINE single == [m \in 1 .. share_counts |-> BatchEnc_verify(EncProofs[m], Pk(i),
  CipherVecs[m])]
<1>1. CipherVecs = [m \in Ids |-> CipherOf(m)] /\ EncProofs = [m \in Ids |-> ProofOf(m)]
  BY AllSent
<1>2. ASSUME NEW m \in Ids PROVE BatchEnc_verify(EncProofs[m], Pk(i), CipherVecs[m])
  <2>1. Pk(m) = Pk(i)
    BY SamePk DEF OtherKeys
  <2> QED BY <1>1, <2>1, FirstTypes
<1>3. FollowsFrom(Accepted(i), single)
  <2>1. oracle \in Nat /\ Pk(i) \in Scalar /\ Width \in Nat /\ share_counts \in Nat
    BY OnDisk, KeyTypes, MoneyTypes, Numbered
  <2>2. /\ CipherVecs \in [1 .. share_counts -> [1 .. Width -> Cipher]]
        /\ EncProofs \in [1 .. share_counts -> EncProof(Width)]
    BY BeforeVerifiers
  <2> DEFINE n == share_counts
             pk == Pk(i)
             prfs == EncProofs
             vecs == CipherVecs
             w == Width
  <2>4. /\ oracle \in Nat /\ pk \in Scalar /\ w \in Nat /\ n \in Nat
        /\ vecs \in [1 .. n -> [1 .. w -> Cipher]] /\ prfs \in [1 .. n -> EncProof(w)]
    BY <2>1, <2>2
  <2> HIDE DEF n, pk, prfs, vecs, w
  <2>3. EncJudged(n, pk, prfs, vecs)
    BY <2>4, EncBatch
  <2> QED BY <2>3 DEF EncJudged, Accepted, n, pk, prfs, vecs
<1>4. {x \in DOMAIN single : ~single[x]} = {}
  BY <1>2, Numbered
<1> HIDE DEF single
<1> QED BY <1>3, <1>4 DEF FollowsFrom

----------------------------------------------------------------------------
\* The response of a batch to other challenges e than those, d, that it was made
\* for: the difference is that of the challenges, times the random scalars.
DiffersBy(n, r, e, d, o) ==
  /\ Cong(Dot(e, r), 1 * Dot(d, r) + 1 * Dot(r, o))
  /\ Dot(e, r) \in Scalar /\ Dot(d, r) \in Scalar /\ Dot(r, o) \in Scalar
  /\ o \in [1 .. n -> Scalar]

\* Other challenges than those that a proof was made for make this difference.
LEMMA ChallengesDiffer ==
  ASSUME NEW n \in Nat, NEW r \in [1 .. n -> Scalar], NEW e \in [1 .. n -> Scalar],
         NEW d \in [1 .. n -> Scalar], NEW o, o = [j \in 1 .. n |-> e[j] (-) d[j]]
  PROVE  DiffersBy(n, r, e, d, o)
<1>1. \A j \in 1 .. n : o[j] \in Scalar /\ Cong(o[j], e[j] - d[j])
  BY Difference, ScalarIsNat
<1>2. o \in [1 .. n -> Scalar]
  BY <1>1
<1>3. Vector(r, n) /\ Vector(e, n) /\ Vector(d, n) /\ Vector(o, n)
  BY <1>2, ScalarVector
<1>4. /\ Vector(Products(e, r), n) /\ Vector(Products(d, r), n) /\ Vector(Products(r, o), n)
      /\ \A j \in 1 .. n : /\ Products(e, r)[j] = e[j] (.) r[j]
                           /\ Products(d, r)[j] = d[j] (.) r[j]
                           /\ Products(r, o)[j] = r[j] (.) o[j]
      /\ Dot(e, r) = Sum(Products(e, r)) /\ Dot(d, r) = Sum(Products(d, r))
      /\ Dot(r, o) = Sum(Products(r, o))
      /\ Dot(e, r) \in Scalar /\ Dot(d, r) \in Scalar /\ Dot(r, o) \in Scalar
  BY <1>3, DotType
<1>5. ASSUME NEW j \in 1 .. n
      PROVE  Cong(Products(e, r)[j], 1 * Products(d, r)[j] + 1 * Products(r, o)[j])
  <2> DEFINE x == e[j]
             y == d[j]
             z == o[j]
             t == r[j]
             xt == x (.) t
             yt == y (.) t
             tz == t (.) z
  <2>1. x \in Nat /\ y \in Nat /\ z \in Nat /\ t \in Nat /\ Cong(z, x - y)
    BY <1>1, ScalarIsNat
  <2> HIDE DEF x, y, z, t
  <2>2. x \in Int /\ y \in Int /\ z \in Int /\ t \in Int /\ x - y \in Int
    BY <2>1
  <2>3. /\ xt \in Int /\ Cong(xt, x * t) /\ x * t \in Int
        /\ yt \in Int /\ Cong(yt, y * t) /\ y * t \in Int
        /\ tz \in Int /\ Cong(tz, t * z) /\ t * z \in Int
    BY <2>1, TimesInt, Zenon
  <2> HIDE DEF xt, yt, tz
  <2>4. Cong(t * z, t * (x - y)) /\ t * (x - y) \in Int
    BY <2>1, <2>2, Scaled, Zenon
  <2>5. Cong(tz, t * (x - y))
    BY <2>3, <2>4, CongTrans, Zenon
  <2>6. Cong(yt + tz, y * t + t * (x - y)) /\ yt + tz \in Int /\ y * t + t * (x - y) \in Int
    BY <2>3, <2>4, <2>5, CongSum, Zenon
  <2>7. y * t + t * (x - y) = x * t
    BY <2>2, Z3
  <2>8. Cong(x * t, yt + tz)
    BY <2>6, <2>7, CongSym, Zenon
  <2>9. Cong(xt, yt + tz)
    BY <2>3, <2>6, <2>8, CongTrans, Zenon
  <2>10. 1 * yt + 1 * tz = yt + tz
    BY <2>3
  <2>11. Products(e, r)[j] = xt /\ Products(d, r)[j] = yt /\ Products(r, o)[j] = tz
    BY <1>4 DEF xt, yt, tz, x, y, z, t
  <2> QED BY <2>9, <2>10, <2>11, Zenon
<1>6. 1 \in Int
  OBVIOUS
<1>7. Cong(Sum(Products(e, r)), 1 * Sum(Products(d, r)) + 1 * Sum(Products(r, o)))
  BY <1>4, <1>5, <1>6, SumLinear
<1> QED BY <1>2, <1>4, <1>7 DEF DiffersBy

\* The challenges of i to what m has sent.
ChallengesAt(m, pk) == EncChallenges(pk, CipherOf(m), ProofOf(m).c1_vec, ProofOf(m).c2_vec)
Off(m, i) == [j \in 1 .. Width |-> ChallengesAt(m, Pk(i))[j] (-) ChallengesAt(m, Pk(m))[j]]

\* The first of the two totals of a batch.
FirstTotal(n, pk, m, r, sm, sr, e) ==
  /\ Sum(C1(Under(n, pk, sm, sr))) (+) Dot(e, C1(Under(n, pk, m, r)))
       = generator (.) (Dot(e, r) (+) Sum(sr))
  /\ Dot(e, r) (+) Sum(sr) \in Scalar

\* As LeftTotals has it.
LEMMA LeftTotal ==
  ASSUME NEW n \in Nat, NEW pk \in Scalar, NEW m, Vector(m, n), NEW r \in [1 .. n -> Scalar],
         NEW sm, Vector(sm, n), NEW sr \in [1 .. n -> Scalar], NEW e, Vector(e, n)
  PROVE  FirstTotal(n, pk, m, r, sm, sr, e)
<1>1. /\ Sum(C1(Under(n, pk, sm, sr))) (+) Dot(e, C1(Under(n, pk, m, r)))
           = generator (.) (Dot(e, r) (+) Sum(sr))
      /\ Dot(e, r) (+) Sum(sr) \in Scalar
  BY LeftTotals
<1> QED BY <1>1 DEF FirstTotal

\* One side of the first equation, for what m has sent, as i has it.
LEMMA FirstSide ==
  ASSUME Given, NEW i \in Ids, NEW m \in Ids
  PROVE  /\ Cong(EncLeft(ProofOf(m), Pk(i), CipherOf(m)).c1,
                 1 * ProofOf(m).total_zr + 1 * Dot(Draws(m, "r"), Off(m, i)))
         /\ EncLeft(ProofOf(m), Pk(i), CipherOf(m)).c1 \in Scalar
         /\ ProofOf(m).total_zr \in Scalar
         /\ Dot(Draws(m, "r"), Off(m, i)) \in Scalar
         /\ Off(m, i) \in [1 .. Width -> Scalar]
<1> DEFINE n == Width
           pk == Pk(m)
           p == ProofOf(m)
           c == CipherOf(m)
           r == Draws(m, "r")
           sm == Draws(m, "sm")
           sr == Draws(m, "sr")
           e == ChallengesAt(m, Pk(i))
           d == ChallengesAt(m, pk)
           o == Off(m, i)
<1>1. /\ n \in Nat /\ oracle \in Nat /\ pk \in Scalar /\ Pk(i) \in Scalar
      /\ Vector(money[m], n) /\ r \in [1 .. n -> Scalar] /\ sm \in [1 .. n -> Scalar]
      /\ sr \in [1 .. n -> Scalar]
      /\ c \in [1 .. n -> Cipher] /\ p \in EncProof(n)
  BY MoneyTypes, KeyTypes, OnDisk, FirstTypes
<1>2. e \in [1 .. n -> Scalar] /\ d \in [1 .. n -> Scalar]
  <2>1. p.c1_vec \in [1 .. n -> Scalar] /\ p.c2_vec \in [1 .. n -> Scalar]
    BY <1>1 DEF EncProof
  <2> HIDE DEF p, c, n
  <2>2. EncChallenges(Pk(i), c, p.c1_vec, p.c2_vec) \in [1 .. n -> Scalar]
    BY <1>1, <2>1, EncChallengesType
  <2>3. EncChallenges(pk, c, p.c1_vec, p.c2_vec) \in [1 .. n -> Scalar]
    BY <1>1, <2>1, EncChallengesType
  <2> QED BY <2>2, <2>3 DEF ChallengesAt, p, c
<1>3. o = [j \in 1 .. n |-> e[j] (-) d[j]]
  BY DEF Off
<1>4. p.c1_vec = C1(Under(n, pk, sm, sr)) /\ p.c2_vec = C2(Under(n, pk, sm, sr))
      /\ p.total_zr = Dot(d, r) (+) Sum(sr)
  <2> DEFINE t == [j \in DOMAIN c |-> encrypt_with_randomness(pk, sm[j], sr[j])]
             g == EncChallenges(pk, c, C1(t), C2(t))
  <2>1. t = Under(n, pk, sm, sr)
    BY <1>1 DEF Under
  <2>2. p = [c1_vec |-> C1(t), c2_vec |-> C2(t), total_zm |-> Dot(g, money[m]) (+) Sum(sm),
             total_zr |-> Dot(g, r) (+) Sum(sr)]
    BY DEF ProofOf, BatchEnc_proof
  <2> HIDE DEF t, p
  <2>3. p.c1_vec = C1(t) /\ p.c2_vec = C2(t) /\ p.total_zr = Dot(g, r) (+) Sum(sr)
    BY <2>2
  <2>4. g = d
    BY <2>3 DEF ChallengesAt, p
  <2> QED BY <2>1, <2>3, <2>4
<1>5. c = Under(n, pk, money[m], r)
  BY DEF CipherOf
<1>6. EncLeft(p, Pk(i), c).c1 = Sum(p.c1_vec) (+) Dot(e, C1(c))
  BY DEF EncLeft, ChallengesAt
<1>7. EncLeft(p, Pk(i), c).c1 \in Scalar
  <2>1. EncLeft(p, Pk(i), c) \in Cipher
    BY <1>1, EncLeftType
  <2> QED BY <2>1 DEF Cipher
<1>8. p.total_zr \in Scalar
  BY <1>1 DEF EncProof
<1> HIDE DEF n, pk, p, c, r, sm, sr, e, d, o
<1>9. /\ Cong(Dot(e, r), 1 * Dot(d, r) + 1 * Dot(r, o))
      /\ Dot(e, r) \in Scalar /\ Dot(d, r) \in Scalar /\ Dot(r, o) \in Scalar
      /\ o \in [1 .. n -> Scalar]
  <2>1. DiffersBy(n, r, e, d, o)
    BY <1>1, <1>2, <1>3, ChallengesDiffer
  <2> QED BY <2>1 DEF DiffersBy
<1>10. Vector(sm, n) /\ Vector(sr, n) /\ Vector(e, n)
  BY <1>1, <1>2, ScalarVector
<1>11. Sum(p.c1_vec) (+) Dot(e, C1(c)) = generator (.) (Dot(e, r) (+) Sum(sr))
       /\ Dot(e, r) (+) Sum(sr) \in Scalar
  <2> DEFINE mm == money[m]
  <2>1. Vector(mm, n)
    BY <1>1
  <2> HIDE DEF mm
  <2>2. /\ Sum(C1(Under(n, pk, sm, sr))) (+) Dot(e, C1(Under(n, pk, mm, r)))
             = generator (.) (Dot(e, r) (+) Sum(sr))
        /\ Dot(e, r) (+) Sum(sr) \in Scalar
    <3>1. FirstTotal(n, pk, mm, r, sm, sr, e)
      BY <1>1, <1>10, <2>1, LeftTotal
    <3> QED BY <3>1 DEF FirstTotal
  <2> QED BY <1>4, <1>5, <2>2 DEF mm
<1>12. EncLeft(p, Pk(i), c).c1 = Dot(e, r) (+) Sum(sr)
  BY <1>6, <1>11, GeneratorTimes
<1>13. Cong(Dot(e, r) (+) Sum(sr), 1 * (Dot(d, r) (+) Sum(sr)) + 1 * Dot(r, o))
  <2> DEFINE x == Dot(e, r)
             y == Dot(d, r)
             z == Dot(r, o)
             t == Sum(sr)
  <2>1. x \in Nat /\ y \in Nat /\ z \in Nat /\ t \in Nat
    BY <1>1, <1>9, <1>10, SumType, ScalarIsNat
  <2>2. Cong(x, 1 * y + 1 * z)
    BY <1>9
  <2> HIDE DEF x, y, z, t
  <2>3. /\ Cong(x (+) t, x + t) /\ x (+) t \in Int /\ x + t \in Int
        /\ Cong(y (+) t, y + t) /\ y (+) t \in Int /\ y + t \in Int
    BY <2>1, OpInt, Zenon
  <2>4. 1 * y + 1 * z = y + z /\ y + z \in Int /\ (y + z) + t = (y + t) + z /\ z \in Int
          /\ x \in Int /\ t \in Int
    BY <2>1
  <2>5. Cong(x + t, (y + z) + t)
    BY <2>2, <2>4, CongAdd, Zenon
  <2>6. Cong((y (+) t) + z, (y + t) + z)
    BY <2>3, <2>4, CongAdd, Zenon
  <2>7. (y (+) t) + z \in Int /\ (y + t) + z \in Int /\ 1 * (y (+) t) + 1 * z = (y (+) t) + z
    BY <2>3, <2>4
  <2>8. Cong((y + t) + z, (y (+) t) + z)
    BY <2>6, <2>7, CongSym, Zenon
  <2>9. Cong(x + t, (y + t) + z)
    BY <2>4, <2>5, Zenon
  <2>10. Cong(x (+) t, (y (+) t) + z)
    BY <2>3, <2>7, <2>8, <2>9, CongChain, Zenon
  <2>11. Cong(x (+) t, 1 * (y (+) t) + 1 * z)
    BY <2>7, <2>10, Zenon
  <2> QED BY <2>11 DEF x, y, z, t
<1>14. Cong(EncLeft(p, Pk(i), c).c1, 1 * p.total_zr + 1 * Dot(r, o))
  BY <1>4, <1>12, <1>13, Zenon
<1> QED BY <1>7, <1>8, <1>9, <1>14 DEF n, p, c, r, o

\* What every message of the first phase leaves over, as i verifies them.
Leftovers(i) == [m \in Ids |-> Dot(Draws(m, "r"), Off(m, i))]

\* What is left over is a vector of scalars.
LEMMA LeftoversType ==
  ASSUME Given, NEW i \in Ids
  PROVE  Vector(Leftovers(i), share_counts) /\ Sum(Leftovers(i)) \in Scalar
<1>1. ASSUME NEW m \in Ids PROVE Dot(Draws(m, "r"), Off(m, i)) \in Nat
  <2>1. Dot(Draws(m, "r"), Off(m, i)) \in Scalar
    BY FirstSide
  <2> QED BY <2>1, ScalarIsNat
<1>2. Vector(Leftovers(i), share_counts) /\ share_counts \in Nat
  BY <1>1, Numbered DEF Vector, Leftovers
<1> QED BY <1>2, SumType

\* A batch that passes leaves nothing over.
LEMMA NothingLeft ==
  ASSUME AmountsInv, ~changed, PhaseOneDone, NEW i \in Ids, Accepted(i)
  PROVE  Sum(Leftovers(i)) = 0
<1> USE DEF AmountsInv
<1> DEFINE n == share_counts
           left == [m \in Ids |-> EncLeft(ProofOf(m), Pk(i), CipherOf(m))]
           x == C1(left)
           y == [m \in Ids |-> ProofOf(m).total_zr]
           z == Leftovers(i)
<1>1. CipherVecs = [m \in Ids |-> CipherOf(m)] /\ EncProofs = [m \in Ids |-> ProofOf(m)]
  BY AllSent
<1>2. n \in Nat /\ Ids = 1 .. n
  BY Numbered
<1>3. \A m \in Ids : x[m] = EncLeft(ProofOf(m), Pk(i), CipherOf(m)).c1
  BY DEF C1
<1>4. DOMAIN x = Ids /\ x = [m \in Ids |-> x[m]]
  BY DEF C1
<1>5. y = [m \in Ids |-> y[m]] /\ \A m \in Ids : y[m] = ProofOf(m).total_zr
  OBVIOUS
<1>6. Sum(x) = generator (.) Sum(y)
  <2>1. BatchEnc_batch_verify(EncProofs, Pk(i), CipherVecs)
    BY DEF Accepted
  <2>2. DOMAIN EncProofs = Ids
          /\ left = [m \in DOMAIN EncProofs |-> EncLeft(EncProofs[m], Pk(i), CipherVecs[m])]
        /\ y = [m \in DOMAIN EncProofs |-> EncProofs[m].total_zr]
    BY <1>1
  <2> HIDE DEF left, y
  <2>3. [c1 |-> Sum(C1(left)), c2 |-> Sum(C2(left))]
          = encrypt_with_randomness(Pk(i),
            Sum([m \in DOMAIN EncProofs |-> EncProofs[m].total_zm]), Sum(y))
    BY <2>1, <2>2 DEF BatchEnc_batch_verify
  <2> QED BY <2>3 DEF encrypt_with_randomness
<1> HIDE DEF left, x, y
<1>7. \A m \in Ids : z[m] = Dot(Draws(m, "r"), Off(m, i))
  BY DEF Leftovers
<1>8. ASSUME NEW m \in Ids
      PROVE  x[m] \in Scalar /\ y[m] \in Scalar /\ Cong(x[m], 1 * y[m] + 1 * z[m])
  <2>1. /\ Cong(EncLeft(ProofOf(m), Pk(i), CipherOf(m)).c1,
                1 * ProofOf(m).total_zr + 1 * Dot(Draws(m, "r"), Off(m, i)))
        /\ EncLeft(ProofOf(m), Pk(i), CipherOf(m)).c1 \in Scalar
        /\ ProofOf(m).total_zr \in Scalar
    BY FirstSide
  <2> HIDE DEF z
  <2> QED BY <1>3, <1>5, <1>7, <2>1, Zenon
<1>9. Vector(z, n) /\ Sum(z) \in Scalar
  BY LeftoversType
<1>10. Vector(x, n) /\ Vector(y, n)
  <2>1. \A m \in Ids : x[m] \in Nat /\ y[m] \in Nat
    BY <1>8, ScalarIsNat
  <2> QED BY <1>2, <1>4, <1>5, <2>1 DEF Vector
<1> HIDE DEF z, n
<1>11. 1 \in Int /\ \A m \in 1 .. n : Cong(x[m], 1 * y[m] + 1 * z[m])
  BY <1>2, <1>8
<1>12. Cong(Sum(x), 1 * Sum(y) + 1 * Sum(z))
  BY <1>2, <1>9, <1>10, <1>11, SumLinear
<1>13. Sum(x) \in Scalar /\ Sum(y) \in Scalar
  BY <1>2, <1>10, SumType
<1>14. Sum(x) = Sum(y)
  BY <1>6, <1>13, GeneratorTimes
<1>15. Sum(z) (.) 1 = 0
  <2>1. 1 \in Nat
    OBVIOUS
  <2> QED BY <1>9, <1>12, <1>13, <1>14, <2>1, SumsDiffer
<1>16. Sum(z) = 0
  BY <1>9, <1>15, GeneratorTimes DEF generator
<1> QED BY <1>16 DEF z

\* The differences as the property has them.
LEMMA DifferencesAre ==
  ASSUME AmountsInv, ~changed, PhaseOneDone, NEW i \in Ids, NEW off,
         off = [m \in Ids |-> IF m \in OtherKeys(i) THEN ChallengesOff(m, i)
                              ELSE [j \in DOMAIN money[m] |-> 0]]
  PROVE  /\ off = [m \in Ids |-> Off(m, i)]
         /\ [m \in Ids |-> Dot(tape[m].r, off[m])] = Leftovers(i)
         /\ \A m \in Ids \ OtherKeys(i) : Off(m, i) = [j \in 1 .. Width |-> 0]
<1> USE DEF AmountsInv
<1>1. CipherVecs = [m \in Ids |-> CipherOf(m)] /\ EncProofs = [m \in Ids |-> ProofOf(m)]
      /\ \A m \in Ids : DOMAIN money[m] = 1 .. Width
  BY AllSent, MoneyTypes
<1>2. ASSUME NEW m \in Ids PROVE ChallengesOff(m, i) = Off(m, i)
  BY <1>1 DEF ChallengesOff, Off, ChallengesAt
<1>3. ASSUME NEW m \in Ids, m \notin OtherKeys(i) PROVE Off(m, i) = [j \in 1 .. Width |-> 0]
  <2>1. Pk(m) = Pk(i)
    BY <1>3, SamePk DEF OtherKeys
  <2> DEFINE e == ChallengesAt(m, Pk(i))
  <2>2. Off(m, i) = [j \in 1 .. Width |-> e[j] (-) e[j]]
    BY <2>1 DEF Off
  <2>3. ChallengesAt(m, Pk(i)) \in [1 .. Width -> Scalar]
    <3>1. /\ ProofOf(m) \in EncProof(Width) /\ CipherOf(m) \in [1 .. Width -> Cipher]
          /\ Width \in Nat /\ oracle \in Nat /\ Pk(i) \in Scalar
      BY FirstTypes, MoneyTypes, OnDisk, KeyTypes
    <3>2. ProofOf(m).c1_vec \in [1 .. Width -> Scalar]
            /\ ProofOf(m).c2_vec \in [1 .. Width -> Scalar]
      BY <3>1 DEF EncProof
    <3> QED BY <3>1, <3>2, EncChallengesType DEF ChallengesAt
  <2>4. ASSUME NEW v \in Scalar PROVE v (-) v = 0
    <3>1. v + q - v = q /\ q % q = 0
      BY Order DEF Scalar
    <3> QED BY <3>1 DEF (-)
  <2> HIDE DEF e
  <2>5. \A j \in 1 .. Width : e[j] (-) e[j] = 0
    BY <2>3, <2>4 DEF e
  <2> QED BY <2>2, <2>5
<1>4. off = [m \in Ids |-> Off(m, i)]
  <2>1. ASSUME NEW m \in Ids PROVE off[m] = Off(m, i)
    <3>1. CASE m \in OtherKeys(i)
      BY <1>2, <3>1
    <3>2. CASE m \notin OtherKeys(i)
      BY <1>1, <1>3, <3>2
    <3> QED BY <3>1, <3>2
  <2> QED BY <2>1
<1>5. ASSUME NEW m \in Ids PROVE Dot(tape[m].r, off[m]) = Dot(Draws(m, "r"), Off(m, i))
  <2>1. off[m] = Off(m, i) /\ DOMAIN Off(m, i) = 1 .. Width
    BY <1>4 DEF Off
  <2>2. \A j \in 1 .. Width : tape[m].r[j] = Draws(m, "r")[j]
    BY DEF Draws
  <2> DEFINE o == Off(m, i)
  <2>3. [j \in DOMAIN o |-> tape[m].r[j] (.) o[j]] = [j \in DOMAIN o |-> Draws(m, "r")[j] (.) o[j]]
    <3> HIDE DEF o
    <3> QED BY <2>1, <2>2 DEF o
  <2> QED BY <2>1, <2>3 DEF Dot
<1> QED BY <1>3, <1>4, <1>5 DEF Leftovers

\* Of a single amount under another key, not even the challenge differs.
LEMMA OneAmountLeft ==
  ASSUME AmountsInv, NEW i \in Ids, Sum(Leftovers(i)) = 0, Width = 1,
         Cardinality(OtherKeys(i)) = 1,
         \A m \in Ids \ OtherKeys(i) : Off(m, i) = [j \in 1 .. Width |-> 0]
  PROVE  \A m \in Ids : Off(m, i) = <<0>>
<1> USE DEF AmountsInv
<1>1. [j \in 1 .. 1 |-> 0] = <<0>>
  OBVIOUS
<1>2. PICK m0 \in Ids : OtherKeys(i) = {m0}
  <2>1. IsFiniteSet(OtherKeys(i))
    <3>1. OtherKeys(i) \subseteq Ids /\ IsFiniteSet(Ids)
      BY Numbered, FS_Interval DEF OtherKeys
    <3> QED BY <3>1, FS_Subset
  <2>2. \E m0 : OtherKeys(i) = {m0}
    BY <2>1, FS_Singleton
  <2> QED BY <2>2 DEF OtherKeys
<1>3. ASSUME NEW m \in Ids
      PROVE  /\ Off(m, i) = <<Off(m, i)[1]>> /\ Off(m, i)[1] \in Scalar
             /\ Draws(m, "r")[1] \in Scalar /\ Draws(m, "r")[1] # 0
             /\ Leftovers(i)[m] = Dot(Draws(m, "r"), Off(m, i))
             /\ Leftovers(i)[m] = Draws(m, "r")[1] (.) Off(m, i)[1]
  <2> DEFINE o == Off(m, i)
             r == Draws(m, "r")
  <2>1. o \in [1 .. 1 -> Scalar]
    BY FirstSide
  <2>2. r \in [1 .. 1 -> Scalar] /\ r[1] = tape[m].r[1] /\ tape[m].r[1] \in Scalar \ {0}
    BY MoneyTypes DEF Draws
  <2>3. Leftovers(i)[m] = Dot(r, o)
    BY DEF Leftovers
  <2> HIDE DEF o, r
  <2>4. o = <<o[1]>> /\ o[1] \in Scalar
    BY <2>1
  <2>5. Vector(o, 1) /\ Vector(r, 1) /\ 1 \in Nat
    BY <2>1, <2>2, ScalarVector
  <2>6. /\ Vector(Products(r, o), 1) /\ Products(r, o)[1] = r[1] (.) o[1]
        /\ Dot(r, o) = Sum(Products(r, o))
    BY <2>5, DotType
  <2>7. r[1] \in Nat /\ o[1] \in Nat
    BY <2>2, <2>4, ScalarIsNat
  <2>8. r[1] (.) o[1] \in Scalar /\ r[1] (.) o[1] \in Int
    BY <2>7, TimesInt
  <2>9. Sum(Products(r, o)) = r[1] (.) o[1]
    <3> DEFINE w == Products(r, o)
               a == r[1] (.) o[1]
    <3>1. Vector(w, 1) /\ w[1] = a /\ a \in Scalar /\ a \in Int /\ 1 \in 1 .. 1 /\ 1 \in Nat
      BY <2>6, <2>8
    <3> HIDE DEF w, a
    <3>2. Cong(w[1], a) /\ \A j \in 1 .. 1 : j # 1 => Cong(w[j], 0)
      BY <3>1, CongRefl
    <3> QED BY <3>1, <3>2, SumOfOne DEF w, a
  <2> QED BY <2>2, <2>3, <2>4, <2>6, <2>9 DEF o, r
<1>4. ASSUME NEW m \in Ids, m # m0 PROVE Off(m, i) = <<0>> /\ Leftovers(i)[m] = 0
  <2>1. Off(m, i) = <<0>>
    BY <1>1, <1>2, <1>4
  <2>2. Leftovers(i)[m] = Draws(m, "r")[1] (.) 0 /\ Draws(m, "r")[1] \in Nat
    BY <1>3, <2>1, ScalarIsNat
  <2>3. ASSUME NEW x \in Nat PROVE x (.) 0 = 0
    BY <2>3, Order DEF (.)
  <2> QED BY <2>1, <2>2, <2>3
<1> DEFINE r == Draws(m0, "r")[1]
           o == Off(m0, i)[1]
           z == Leftovers(i)
<1>5. r \in Scalar /\ r # 0 /\ o \in Scalar /\ z[m0] = r (.) o
  BY <1>3
<1>6. Off(m0, i) = <<o>>
  BY <1>3
<1>7. Vector(z, share_counts) /\ share_counts \in Nat /\ m0 \in 1 .. share_counts
  BY LeftoversType, Numbered
<1>8. r (.) o \in Scalar /\ r (.) o \in Int /\ Cong(r (.) o, r * o) /\ r * o \in Int
        /\ r \in Int /\ o \in Int
  BY <1>5, TimesInt, ScalarIsNat
<1> HIDE DEF r, o, z
<1>9. Sum(z) = r (.) o
  <2>1. \A m \in 1 .. share_counts : m # m0 => Cong(z[m], 0)
    BY <1>4, Numbered, CongRefl DEF z
  <2>2. Cong(z[m0], r (.) o)
    BY <1>5, <1>8, CongRefl
  <2> QED BY <1>7, <1>8, <2>1, <2>2, SumOfOne
<1>10. r (.) o = 0
  BY <1>9 DEF z
<1>11. o = 0
  <2>1. Cong(r * o, r (.) o)
    BY <1>8, CongSym, Zenon
  <2>2. Cong(r * o, r * 0)
    BY <1>8, <1>10, <2>1
  <2>3. 0 \in Int
    OBVIOUS
  <2>4. Cong(o, 0)
    BY <1>5, <1>8, <2>2, <2>3, Cancel
  <2> QED BY <1>5, <2>4, NotZero
<1> QED BY <1>4, <1>6, <1>11

SkAt(k)  == Sk(phase_two_msgs[k].sender)
NonceAt(k) == tape[phase_two_msgs[k].sender].s
Left1 == [k \in 1 .. share_counts |-> LeftOver(PkShares[k], SkAt(k), NonceAt(k), c1_vec)]
Left2 == [k \in 1 .. share_counts |-> LeftOfBoth(PkShares[k], SkAt(k), NonceAt(k), c1_vec)]

\* The shares as they are made of the keys.
LEMMA SharesAre ==
  ASSUME AmountsInv, ~changed, Len(phase_two_msgs) = share_counts
  PROVE  /\ DecProofs = [k \in 1 .. share_counts |-> ShareProof(SkAt(k), NonceAt(k), c1_vec)]
         /\ DecC1Vecs = [k \in 1 .. share_counts |-> Times(SkAt(k), c1_vec)]
         /\ \A k \in 1 .. share_counts : SkAt(k) \in Scalar /\ NonceAt(k) \in Scalar
<1> USE DEF AmountsInv
<1>1. /\ DOMAIN phase_two_msgs = 1 .. share_counts
      /\ batch_total_money \in [1 .. Width -> Cipher]
      /\ \A k \in 1 .. share_counts : phase_two_msgs[k].sender \in Ids
  BY BeforeCombining
<1>2. ASSUME NEW k \in 1 .. share_counts
      PROVE  /\ phase_two_msgs[k].dec_proof = ShareProof(SkAt(k), NonceAt(k), c1_vec)
             /\ phase_two_msgs[k].batch_dec_c1 = Times(SkAt(k), c1_vec)
             /\ SkAt(k) \in Scalar /\ NonceAt(k) \in Scalar
  <2> DEFINE i == phase_two_msgs[k].sender
  <2>1. i \in Ids /\ k \in DOMAIN phase_two_msgs
    BY <1>1
  <2>2. phase_two_msgs[k] = ShareMsg(i, batch_total_money)
    BY <1>1, <2>1 DEF Computed
  <2>3. Sk(i) \in Scalar /\ tape[i].s \in Scalar
    BY <2>1, KeyTypes, MoneyTypes
  <2> HIDE DEF i
  <2>4. /\ ShareMsg(i, batch_total_money).batch_dec_c1 = Times(Sk(i), C1(batch_total_money))
        /\ ShareMsg(i, batch_total_money).dec_proof
             = ShareProof(Sk(i), tape[i].s, C1(batch_total_money))
    BY <1>1, <2>1, ShareMsgType
  <2> QED BY <2>2, <2>3, <2>4 DEF SkAt, NonceAt, i, c1_vec
<1> QED BY <1>1, <1>2 DEF DecProofs, DecC1Vecs

\* What the shares are judged by.
LEMMA VerdictOnShares ==
  ASSUME AmountsInv, ~changed, Len(phase_two_msgs) = share_counts
  PROVE  SharesAccepted <=> Sum(Left1) = 0 /\ Sum(Left2) (.) Sum(c1_vec) = 0
<1> DEFINE n == share_counts
           w == Width
           c1 == c1_vec
           ps == PkShares
           sks == [k \in 1 .. n |-> SkAt(k)]
           ss == [k \in 1 .. n |-> NonceAt(k)]
           prfs == DecProofs
           decs == DecC1Vecs
<1>1. oracle \in Nat /\ n \in Nat /\ w \in Nat
  BY OnDisk, Numbered, MoneyTypes DEF AmountsInv
<1>2. c1 \in [1 .. w -> Scalar] /\ ps \in [1 .. n -> Scalar]
  BY BeforeCombining
<1>3. sks \in [1 .. n -> Scalar] /\ ss \in [1 .. n -> Scalar]
  BY SharesAre
<1>4. prfs = [k \in 1 .. n |-> ShareProof(sks[k], ss[k], c1)]
        /\ decs = [k \in 1 .. n |-> Times(sks[k], c1)]
  BY SharesAre
<1>5. /\ Left1 = [k \in 1 .. n |-> LeftOver(ps[k], sks[k], ss[k], c1)]
      /\ Left2 = [k \in 1 .. n |-> LeftOfBoth(ps[k], sks[k], ss[k], c1)]
  BY DEF Left1, Left2
<1>6. SharesAccepted <=> BatchDec_batch_verify(prfs, ps, c1, decs)
  BY DEF SharesAccepted
<1> HIDE DEF n, w, c1, ps, sks, ss, prfs, decs
<1>7. BatchDec_batch_verify(prfs, ps, c1, decs) <=>
           /\ Sum([k \in 1 .. n |-> LeftOver(ps[k], sks[k], ss[k], c1)]) = 0
           /\ Sum([k \in 1 .. n |-> LeftOfBoth(ps[k], sks[k], ss[k], c1)]) (.) Sum(c1) = 0
  <2>1. JudgedBy(n, c1, sks, ss, ps, prfs, decs)
    BY <1>1, <1>2, <1>3, <1>4, SharesJudged
  <2> QED BY <2>1 DEF JudgedBy
<1> QED BY <1>5, <1>6, <1>7 DEF c1

\* A scalar minus itself.
LEMMA MinusItself ==
  ASSUME NEW v \in Scalar
  PROVE  v (-) v = 0
<1>1. v + q - v = q /\ q % q = 0
  BY Order DEF Scalar
<1> QED BY <1>1 DEF (-)

\* Zero times a number.
LEMMA ZeroTimes ==
  ASSUME NEW x \in Nat
  PROVE  0 (.) x = 0
BY Order DEF (.)

\* Shares of the keys of pk_share.txt pass.
LEMMA OwnSharesPass ==
  ASSUME AmountsInv, ~changed, Len(phase_two_msgs) = share_counts, OneKey,
         disk.pk_share[me] = disk.keypair[me]
  PROVE  SharesAccepted
<1> USE DEF AmountsInv
<1>1. PICK run \in {"this", "earlier"} : \A i \in Ids : disk.keypair[i] = run
  BY DEF OneKey
<1>2. me \in Ids /\ disk.pk_share[me] = run /\ Run(run) = run
  BY <1>1, OnDisk DEF Run
<1>3. DOMAIN phase_two_msgs = 1 .. share_counts
        /\ \A k \in 1 .. share_counts : phase_two_msgs[k].sender \in Ids
  BY BeforeCombining
<1>4. ASSUME NEW i \in Ids PROVE PkShare(me, i) = Sk(i)
  <2>1. Sk(i) = Sum(SharesAt(run, i))
    BY <1>1, WholeKey
  <2> QED BY <1>2, <2>1 DEF PkShare, SharesAt, Run
<1>5. ASSUME NEW k \in 1 .. share_counts
      PROVE  LeftOver(PkShares[k], SkAt(k), NonceAt(k), c1_vec) = 0
             /\ LeftOfBoth(PkShares[k], SkAt(k), NonceAt(k), c1_vec) = 0
  <2> DEFINE sk == SkAt(k)
             s == NonceAt(k)
             c1 == c1_vec
             w == Width
  <2>1. PkShares[k] = sk
    BY <1>3, <1>4 DEF PkShares, SkAt
  <2>2. sk \in Scalar /\ s \in Scalar /\ oracle \in Nat /\ c1 \in [1 .. w -> Scalar] /\ w \in Nat
    BY SharesAre, OnDisk, BeforeCombining, MoneyTypes
  <2> HIDE DEF sk, s, c1, w
  <2>3. generator (.) sk = sk /\ sk \in Nat
    BY <2>2, GeneratorTimes, ScalarIsNat
  <2>4. ChallengeUnder(sk, sk, s, c1) \in Scalar
    BY <2>2, ShareProofType
  <2> DEFINE e == ChallengeUnder(sk, sk, s, c1)
  <2>5. LeftOver(sk, sk, s, c1) = (e (.) sk) (-) (e (.) sk)
    BY <2>3 DEF LeftOver
  <2>6. LeftOfBoth(sk, sk, s, c1) = (e (-) e) (.) sk
    BY <2>3 DEF LeftOfBoth
  <2> HIDE DEF e
  <2>7. e \in Scalar /\ e (.) sk \in Scalar
    <3>1. e \in Scalar
      BY <2>4 DEF e
    <3> QED BY <2>3, <3>1, ScalarIsNat, TimesInt
  <2>8. LeftOver(sk, sk, s, c1) = 0
    BY <2>5, <2>7, MinusItself
  <2>9. LeftOfBoth(sk, sk, s, c1) = 0
    BY <2>3, <2>6, <2>7, MinusItself, ZeroTimes
  <2> QED BY <2>1, <2>8, <2>9 DEF sk, s, c1
<1>6. Sum(Left1) = 0 /\ Sum(Left2) = 0
  <2>1. /\ Left1 = [k \in 1 .. share_counts |-> Left1[k]]
             /\ Left2 = [k \in 1 .. share_counts |-> Left2[k]]
        /\ \A k \in 1 .. share_counts : Left1[k] = 0 /\ Left2[k] = 0
    BY <1>5 DEF Left1, Left2
  <2>2. Vector(Left1, share_counts) /\ Vector(Left2, share_counts) /\ share_counts \in Nat
    BY <2>1, Numbered DEF Vector
  <2>3. \A k \in 1 .. share_counts : Cong(Left1[k], 0) /\ Cong(Left2[k], 0)
    BY <2>1, CongRefl
  <2> QED BY <2>2, <2>3, SumZero
<1>7. Sum(c1_vec) \in Nat
  <2>1. c1_vec \in [1 .. Width -> Scalar] /\ Width \in Nat
    BY BeforeCombining, MoneyTypes
  <2> QED BY <2>1, ScalarVector, SumType
<1>8. Sum(Left2) (.) Sum(c1_vec) = 0
  BY <1>6, <1>7, ZeroTimes
<1> QED BY <1>6, <1>8, VerdictOnShares

----------------------------------------------------------------------------
\* The invariant implies WrongKeysShow.
LEMMA KeysShow ==
  ASSUME AmountsInv
  PROVE  WrongKeysShow
<1> USE DEF AmountsInv
<1> SUFFICES ASSUME ~changed, PhaseOneDone PROVE WrongKeysShow
  BY DEF WrongKeysShow
<1>0. Computed
  OBVIOUS
<1>1. ASSUME NEW i \in Ids, <<i, 2>> \in panicked PROVE OtherKeys(i) # {}
  BY <1>0, <1>1, OneKeyPasses DEF Computed
<1>2. ASSUME phase_two_msgs # << >>
      PROVE  LET i   == phase_two_msgs[Len(phase_two_msgs)].sender
                 off == [m \in Ids |-> IF m \in OtherKeys(i) THEN ChallengesOff(m, i)
                                      ELSE [j \in DOMAIN money[m] |-> 0]]
             IN  /\ Sum([m \in Ids |-> Dot(tape[m].r, off[m])]) = 0
                 /\ Len(money[i]) = 1
                      /\ Cardinality(OtherKeys(i)) = 1 => \A m \in Ids : off[m] = <<0>>
  <2> DEFINE k == Len(phase_two_msgs)
             i == phase_two_msgs[k].sender
             off == [m \in Ids |-> IF m \in OtherKeys(i) THEN ChallengesOff(m, i)
                                  ELSE [j \in DOMAIN money[m] |-> 0]]
  <2>1. phase_two_msgs \in Seq(MsgTwo) /\ k \in DOMAIN phase_two_msgs
          /\ phase_two_msgs[k] \in MsgTwo
    BY <1>2 DEF Typed
  <2>2. i \in Ids
    BY <2>1 DEF MsgTwo
  <2>3. batch_total_money \in [1 .. Width -> Cipher]
    BY <1>2 DEF Typed
  <2>4. Accepted(i)
    BY <1>0, <2>1, <2>2, <2>3 DEF Computed
  <2> HIDE DEF i
  <2>5. Sum(Leftovers(i)) = 0
    BY <2>2, <2>4, NothingLeft
  <2>6. off = [m \in Ids |-> IF m \in OtherKeys(i) THEN ChallengesOff(m, i)
                             ELSE [j \in DOMAIN money[m] |-> 0]]
    OBVIOUS
  <2> HIDE DEF off
  <2>7. /\ off = [m \in Ids |-> Off(m, i)]
        /\ [m \in Ids |-> Dot(tape[m].r, off[m])] = Leftovers(i)
        /\ \A m \in Ids \ OtherKeys(i) : Off(m, i) = [j \in 1 .. Width |-> 0]
    BY <2>2, <2>6, DifferencesAre
  <2>8. ASSUME Len(money[i]) = 1, Cardinality(OtherKeys(i)) = 1 PROVE \A m \in Ids : off[m] = <<0>>
    <3>1. Width = 1
      BY <2>2, <2>8, MoneyTypes
    <3>2. \A m \in Ids : Off(m, i) = <<0>>
      BY <2>2, <2>5, <2>7, <2>8, <3>1, OneAmountLeft
    <3> QED BY <2>7, <3>2
  <2>9. Sum([m \in Ids |-> Dot(tape[m].r, off[m])]) = 0
    BY <2>5, <2>7
  <2> QED BY <2>8, <2>9 DEF off, i
<1>3. ASSUME OneKey, disk.pk_share[me] = disk.keypair[me], <<me, 3>> \in panicked PROVE FALSE
  <2>1. Len(phase_two_msgs) = share_counts /\ ~SharesAccepted
    BY <1>0, <1>3 DEF Computed
  <2> QED BY <1>3, <2>1, OwnSharesPass
<1>4. ASSUME gm_vec # << >> \/ <<me, 3>> \in panicked
      PROVE  LET sk(k)   == Sk(phase_two_msgs[k].sender)
                 here(k) == ChallengeAt(k, PkShares[k])
                 made(k) == ChallengeAt(k, generator (.) sk(k))
                 left1   == [k \in Ids |-> (here(k) (.) PkShares[k]) (-) (made(k) (.) sk(k))]
                 left2   == [k \in Ids |-> (here(k) (-) made(k)) (.) sk(k)]
             IN  gm_vec # << >> <=> Sum(left1) = 0 /\ Sum(left2) (.) Sum(c1_vec) = 0
  <2> DEFINE sk(k)   == Sk(phase_two_msgs[k].sender)
             here(k) == ChallengeAt(k, PkShares[k])
             made(k) == ChallengeAt(k, generator (.) sk(k))
             left1   == [k \in Ids |-> (here(k) (.) PkShares[k]) (-) (made(k) (.) sk(k))]
             left2   == [k \in Ids |-> (here(k) (-) made(k)) (.) sk(k)]
  <2>1. Len(phase_two_msgs) = share_counts /\ (gm_vec # << >> <=> SharesAccepted)
    BY <1>0, <1>4 DEF Computed
  <2>2. SharesAccepted <=> Sum(Left1) = 0 /\ Sum(Left2) (.) Sum(c1_vec) = 0
    BY <2>1, VerdictOnShares
  <2>3. ASSUME NEW k \in Ids, NEW p
        PROVE ChallengeAt(k, p) = ChallengeUnder(p, SkAt(k), NonceAt(k), c1_vec)
    BY <2>1, SharesAre, Numbered DEF ChallengeAt, ChallengeUnder
  <2>4. \A k \in Ids : sk(k) = SkAt(k)
    BY DEF SkAt
  <2>5. left1 = Left1
    BY <2>3, <2>4, Numbered DEF Left1, LeftOver
  <2>6. left2 = Left2
    BY <2>3, <2>4, Numbered DEF Left2, LeftOfBoth
  <2> HIDE DEF left1, left2
  <2>7. gm_vec # << >> <=> Sum(left1) = 0 /\ Sum(left2) (.) Sum(c1_vec) = 0
    BY <2>1, <2>2, <2>5, <2>6
  <2> QED BY <2>7 DEF left1, left2
<1> QED BY <1>1, <1>2, <1>3, <1>4 DEF WrongKeysShow

\* Nobody fails to verify what is under its own key; ciphertexts under several keys pass
\* only if the challenges cancel out, which a single amount under another key cannot but
\* by a collision; shares of other keys pass exactly if the challenges are a root of
\* the two equations that are left.
THEOREM WrongKeysAlwaysShow == AmountSpec => []WrongKeysShow
<1>1. AmountsInv => WrongKeysShow
  BY KeysShow
<1> QED BY <1>1, AmountsInvariance, PTL
============================================================================
