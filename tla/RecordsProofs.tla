---------------------------- MODULE RecordsProofs ----------------------------
(***************************************************************************)
(* What the Merkle tree promises, for any number of leaves; that batches   *)
(* are verified and fixed by their checkpoints; that the buffer and the    *)
(* batches are one log; that every node's share is proved by its entry.    *)
(*                                                                         *)
(* The tree's operators are recursive functions: what they compute is      *)
(* shown by induction on a set of natural numbers that has no least        *)
(* element outside it.                                                     *)
(***************************************************************************)
EXTENDS Records, SequenceTheorems, WellFoundedInduction, TLAPS

----------------------------------------------------------------------------
(***************************************************************************)
(* Induction over the natural numbers, for a set of them: a nonempty set   *)
(* has a least element, so a set that has 0 and with each number the next  *)
(* has them all.                                                           *)
(***************************************************************************)
\* A nonempty set of natural numbers has a least element.
LEMMA LeastOf ==
  ASSUME NEW S \in SUBSET Nat, S # {}
  PROVE  \E x \in S : \A y \in S : x <= y
<1> DEFINE R == OpToRel(<, Nat)
<1>1. IsWellFoundedOn(R, Nat)
  BY NatLessThanWellFounded, Zenon
<1>2. \A x, y \in Nat : <<x, y>> \in R <=> x < y
  BY Zenon DEF OpToRel
<1> HIDE DEF R
<1>3. PICK x \in S : \A y \in S : ~ (<<y, x>> \in R)
  BY <1>1, WFMin
<1>4. \A y \in S : x \in Nat /\ y \in Nat /\ ~ (y < x)
  BY <1>2, <1>3
<1>5. \A y \in S : x <= y
  BY <1>4
<1> QED BY <1>5

\* Induction: what holds of 0, and of n + 1 when it holds of n, holds of all.
LEMMA FromZero ==
  ASSUME NEW S, 0 \in S, \A n \in Nat : n \in S => n + 1 \in S
  PROVE  \A n \in Nat : n \in S
<1> SUFFICES ASSUME Nat \ S # {} PROVE FALSE
  OBVIOUS
<1>1. PICK x \in Nat \ S : \A y \in Nat \ S : x <= y
  BY LeastOf
<1>2. x # 0 /\ x - 1 \in Nat
  BY <1>1
<1>3. x - 1 \in S
  BY <1>1, <1>2
<1>4. (x - 1) + 1 = x
  BY <1>1
<1> QED BY <1>1, <1>2, <1>3, <1>4

\* A function on 1 .. n is a sequence of length n.
LEMMA LengthOf ==
  ASSUME NEW n \in Nat, NEW f, f = [i \in 1 .. n |-> f[i]]
  PROVE  f \in Seq({f[i] : i \in 1 .. n}) /\ Len(f) = n
<1> DEFINE E == {f[i] : i \in 1 .. n}
<1>1. f \in [1 .. n -> E]
  OBVIOUS
<1> HIDE DEF E
<1>2. f \in Seq(E)
  BY <1>1
<1>3. DOMAIN f = 1 .. n
  BY <1>1
<1>4. Len(f) \in Nat /\ DOMAIN f = 1 .. Len(f)
  BY <1>2
<1>5. Len(f) = n
  BY <1>3, <1>4
<1> QED BY <1>2, <1>5 DEF E

----------------------------------------------------------------------------
(***************************************************************************)
(* The recursive functions of the tree satisfy their equations: on 0 .. 0  *)
(* there is a function that does, and one on 0 .. m extends to 0 .. m + 1. *)
(***************************************************************************)
LEMMA LevelsEquation ==
  ASSUME NEW leaves, Len(leaves) \in Nat
  PROVE  levels(leaves) =
           [k \in 0 .. Len(leaves) |->
              IF k = 0 THEN [i \in DOMAIN leaves |-> leaf_hash(leaves[i])]
                       ELSE Parents(levels(leaves)[k - 1])]
<1> DEFINE base == [i \in DOMAIN leaves |-> leaf_hash(leaves[i])]
           P(g, m) == g = [k \in 0 .. m |-> IF k = 0 THEN base ELSE Parents(g[k - 1])]
           S == {m \in Nat : \E g : P(g, m)}
<1> HIDE DEF base
<1>1. 0 \in S
  <2>1. P([k \in 0 .. 0 |-> base], 0)
    OBVIOUS
  <2> QED BY <2>1
<1>2. ASSUME NEW m \in Nat, m \in S PROVE m + 1 \in S
  <2>1. PICK g : P(g, m)
    BY <1>2
  <2>2. \A k \in 0 .. m : g[k] = IF k = 0 THEN base ELSE Parents(g[k - 1])
    BY <2>1
  <2> DEFINE h == [k \in 0 .. m + 1 |-> IF k = m + 1 THEN Parents(g[m]) ELSE g[k]]
  <2>3. ASSUME NEW k \in 0 .. m + 1 PROVE h[k] = IF k = 0 THEN base ELSE Parents(h[k - 1])
    <3>1. CASE k = m + 1
      <4>1. h[k] = Parents(g[m]) /\ h[k - 1] = g[m] /\ k # 0
        BY <3>1
      <4> QED BY <4>1
    <3>2. CASE k # m + 1
      <4>1. h[k] = g[k] /\ k \in 0 .. m
        BY <3>2
      <4>2. k # 0 => h[k - 1] = g[k - 1]
        BY <3>2
      <4> QED BY <2>2, <4>1, <4>2
    <3> QED BY <3>1, <3>2
  <2>4. h = [k \in 0 .. m + 1 |-> h[k]]
    OBVIOUS
  <2> HIDE DEF h
  <2>5. P(h, m + 1)
    BY <2>3, <2>4
  <2> QED BY <2>5
<1>3. Len(leaves) \in S
  <2> HIDE DEF S
  <2> QED BY <1>1, <1>2, FromZero
<1>4. \E g : P(g, Len(leaves))
  BY <1>3
<1> QED BY <1>4, Zenon DEF levels, base

\* The places of the nodes above a leaf: halved from one level to the next.
LEMMA IndicesEquation ==
  ASSUME NEW tree, Len(tree) \in Nat \ {0}, NEW leaf_index
  PROVE  indices(tree, leaf_index) =
           [k \in 1 .. Len(tree) |->
              IF k = 1 THEN leaf_index ELSE indices(tree, leaf_index)[k - 1] \div 2]
<1> DEFINE P(g, m) == g = [k \in 1 .. m |-> IF k = 1 THEN leaf_index ELSE g[k - 1] \div 2]
           S == {m \in Nat : \E g : P(g, m + 1)}
<1>1. 0 \in S
  <2>1. P([k \in 1 .. 1 |-> leaf_index], 1)
    OBVIOUS
  <2>2. 0 + 1 = 1
    OBVIOUS
  <2>3. P([k \in 1 .. 1 |-> leaf_index], 0 + 1)
    BY <2>1, <2>2
  <2> QED BY <2>3
<1>2. ASSUME NEW m \in Nat, m \in S PROVE m + 1 \in S
  <2>1. PICK g : P(g, m + 1)
    BY <1>2
  <2>2. \A k \in 1 .. m + 1 : g[k] = IF k = 1 THEN leaf_index ELSE g[k - 1] \div 2
    BY <2>1
  <2> DEFINE h == [k \in 1 .. (m + 1) + 1 |-> IF k = (m + 1) + 1 THEN g[m + 1] \div 2 ELSE g[k]]
  <2>3. ASSUME NEW k \in 1 .. (m + 1) + 1
        PROVE  h[k] = IF k = 1 THEN leaf_index ELSE h[k - 1] \div 2
    <3>1. CASE k = (m + 1) + 1
      <4>1. h[k] = g[m + 1] \div 2 /\ h[k - 1] = g[m + 1] /\ k # 1
        BY <3>1
      <4> QED BY <4>1
    <3>2. CASE k # (m + 1) + 1
      <4>1. h[k] = g[k] /\ k \in 1 .. m + 1
        BY <3>2
      <4>2. k # 1 => h[k - 1] = g[k - 1]
        BY <3>2
      <4> QED BY <2>2, <4>1, <4>2
    <3> QED BY <3>1, <3>2
  <2>4. h = [k \in 1 .. (m + 1) + 1 |-> h[k]]
    OBVIOUS
  <2> HIDE DEF h
  <2>5. P(h, (m + 1) + 1)
    BY <2>3, <2>4
  <2> QED BY <2>5
<1>3. Len(tree) - 1 \in S
  <2> HIDE DEF S
  <2> QED BY <1>1, <1>2, FromZero
<1>4. \E g : P(g, Len(tree))
  <2>1. PICK g : P(g, (Len(tree) - 1) + 1)
    BY <1>3
  <2>2. (Len(tree) - 1) + 1 = Len(tree)
    OBVIOUS
  <2> QED BY <2>1, <2>2
<1> QED BY <1>4, Zenon DEF indices

\* The walk of a verifier: one more sibling at every step.
LEMMA WalkEquation ==
  ASSUME NEW path, Len(path) \in Nat, NEW leaf_data
  PROVE  walk(path, leaf_data) =
           [k \in 0 .. Len(path) |->
              IF k = 0 THEN leaf_hash(leaf_data)
              ELSE IF path[k].is_left
                   THEN inner_hash(path[k].sibling, walk(path, leaf_data)[k - 1])
                   ELSE inner_hash(walk(path, leaf_data)[k - 1], path[k].sibling)]
<1> DEFINE up(g, k) == IF path[k].is_left THEN inner_hash(path[k].sibling, g[k - 1])
                                          ELSE inner_hash(g[k - 1], path[k].sibling)
           P(g, m) == g = [k \in 0 .. m |-> IF k = 0 THEN leaf_hash(leaf_data) ELSE up(g, k)]
           S == {m \in Nat : \E g : P(g, m)}
<1>1. 0 \in S
  <2>1. P([k \in 0 .. 0 |-> leaf_hash(leaf_data)], 0)
    OBVIOUS
  <2> QED BY <2>1
<1>2. ASSUME NEW m \in Nat, m \in S PROVE m + 1 \in S
  <2>1. PICK g : P(g, m)
    BY <1>2
  <2>2. \A k \in 0 .. m : g[k] = IF k = 0 THEN leaf_hash(leaf_data) ELSE up(g, k)
    BY <2>1
  <2> DEFINE top == IF path[m + 1].is_left THEN inner_hash(path[m + 1].sibling, g[m])
                                           ELSE inner_hash(g[m], path[m + 1].sibling)
             h == [k \in 0 .. m + 1 |-> IF k = m + 1 THEN top ELSE g[k]]
  <2>3. ASSUME NEW k \in 0 .. m + 1
        PROVE  h[k] = IF k = 0 THEN leaf_hash(leaf_data) ELSE up(h, k)
    <3>1. CASE k = m + 1
      <4>1. h[k] = top /\ h[k - 1] = g[m] /\ k # 0
        BY <3>1
      <4> QED BY <3>1, <4>1
    <3>2. CASE k # m + 1
      <4>1. h[k] = g[k] /\ k \in 0 .. m
        BY <3>2
      <4>2. k # 0 => h[k - 1] = g[k - 1]
        BY <3>2
      <4> QED BY <2>2, <4>1, <4>2
    <3> QED BY <3>1, <3>2
  <2>4. h = [k \in 0 .. m + 1 |-> h[k]]
    OBVIOUS
  <2> HIDE DEF h
  <2>5. P(h, m + 1)
    BY <2>3, <2>4
  <2> QED BY <2>5
<1>3. Len(path) \in S
  <2> HIDE DEF S
  <2> QED BY <1>1, <1>2, FromZero
<1>4. \E g : P(g, Len(path))
  BY <1>3
<1> QED BY <1>4, Zenon DEF walk

----------------------------------------------------------------------------
(***************************************************************************)
(* The shape of the tree: every level is a sequence of nodes, half as long *)
(* as the one below rounded up, and one of them is the root.               *)
(***************************************************************************)
\* A level of n nodes, and the one above it.
Level(s, n) == Len(s) = n /\ DOMAIN s = 1 .. n

LEMMA ParentsShape ==
  ASSUME NEW s, NEW n \in Nat \ {0}, Level(s, n)
  PROVE  /\ Level(Parents(s), (n + 1) \div 2)
         /\ (n + 1) \div 2 \in Nat \ {0}
         /\ n = 1 => (n + 1) \div 2 = 1
         /\ n > 1 => (n + 1) \div 2 < n
<1> DEFINE m == (n + 1) \div 2
           node(i) == inner_hash(s[2 * i - 1], s[IF 2 * i <= Len(s) THEN 2 * i ELSE 2 * i - 1])
<1>1. /\ m \in Nat \ {0}
      /\ n = 1 => m = 1
      /\ n > 1 => m < n
  OBVIOUS
<1>2. Parents(s) = [i \in 1 .. m |-> node(i)]
  BY DEF Parents, Level
<1> HIDE DEF m, node
<1>3. DOMAIN Parents(s) = 1 .. m /\ Parents(s) = [i \in 1 .. m |-> Parents(s)[i]]
  BY <1>2
<1>4. Len(Parents(s)) = m
  BY <1>1, <1>3, LengthOf
<1> QED BY <1>1, <1>3, <1>4 DEF Level, m

\* The lengths of the levels, which depend on the number of leaves only, and
\* the levels they lead to.
LEMMA LevelsShape ==
  ASSUME NEW leaves, Len(leaves) \in Nat \ {0}, DOMAIN leaves = 1 .. Len(leaves)
  PROVE  /\ Level(levels(leaves)[0], Len(leaves))
         /\ \A k \in 0 .. Len(leaves) :
              LET n == Len(levels(leaves)[k])
              IN  n \in Nat \ {0} /\ Level(levels(leaves)[k], n) /\ (n = 1 \/ n + k <= Len(leaves))
         /\ \A k \in 1 .. Len(leaves) :
              /\ levels(leaves)[k] = Parents(levels(leaves)[k - 1])
              /\ Len(levels(leaves)[k]) = (Len(levels(leaves)[k - 1]) + 1) \div 2
<1> DEFINE L == Len(leaves)
           f == levels(leaves)
           base == [i \in DOMAIN leaves |-> leaf_hash(leaves[i])]
           Good(k) == /\ Len(f[k]) \in Nat \ {0}
                      /\ Level(f[k], Len(f[k]))
                      /\ Len(f[k]) = 1 \/ Len(f[k]) + k <= L
           S == {k \in Nat : k <= L => Good(k)}
<1>1. f = [k \in 0 .. L |-> IF k = 0 THEN base ELSE Parents(f[k - 1])]
  BY LevelsEquation, Zenon
<1>2. L \in Nat \ {0} /\ DOMAIN leaves = 1 .. L
  OBVIOUS
<1> HIDE DEF f, L
<1>3. f[0] = base /\ \A k \in 1 .. L : f[k] = Parents(f[k - 1])
  BY <1>1, <1>2
<1>4. Level(f[0], L)
  <2>1. DOMAIN base = 1 .. L /\ base = [i \in 1 .. L |-> base[i]]
    BY <1>2
  <2> HIDE DEF base
  <2>2. Len(base) = L
    BY <1>2, <2>1, LengthOf
  <2> QED BY <1>3, <2>1, <2>2 DEF Level
<1>5. 0 \in S
  <2>1. Len(f[0]) = L
    BY <1>4 DEF Level
  <2> QED BY <1>2, <1>4, <2>1
<1>6. ASSUME NEW k \in Nat, k + 1 <= L, Good(k) PROVE Good(k + 1) /\ Len(f[k + 1]) = (Len(f[k]) + 1) \div 2
  <2>1. k + 1 \in 1 .. L /\ (k + 1) - 1 = k
    BY <1>2, <1>6
  <2>2. f[k + 1] = Parents(f[k])
    BY <1>3, <2>1
  <2> DEFINE n == Len(f[k])
             m == (n + 1) \div 2
  <2>3. n \in Nat \ {0} /\ Level(f[k], n) /\ (n = 1 \/ n + k <= L)
    BY <1>6
  <2> HIDE DEF n
  <2>4. Level(f[k + 1], m) /\ m \in Nat \ {0} /\ (n = 1 => m = 1) /\ (n > 1 => m < n)
    BY <2>2, <2>3, ParentsShape
  <2> HIDE DEF m
  <2>5. Len(f[k + 1]) = m
    BY <2>4 DEF Level
  <2>6. m = 1 \/ m + (k + 1) <= L
    BY <1>2, <2>3, <2>4
  <2> QED BY <2>4, <2>5, <2>6 DEF m, n
<1> HIDE DEF Good
<1>7. ASSUME NEW k \in Nat, k \in S PROVE k + 1 \in S
  <2>1. k + 1 \in Nat /\ (k + 1 <= L => k <= L)
    BY <1>2
  <2>2. k + 1 <= L => Good(k)
    BY <1>7, <2>1
  <2>3. k + 1 <= L => Good(k + 1)
    BY <1>6, <2>2
  <2> QED BY <2>1, <2>3
<1>8. \A k \in 0 .. L : Good(k)
  <2> HIDE DEF S
  <2>1. \A k \in Nat : k \in S
    BY <1>5, <1>7, FromZero
  <2> QED BY <1>2, <2>1 DEF S
<1>9. \A k \in 1 .. L : Len(f[k]) = (Len(f[k - 1]) + 1) \div 2
  <2> TAKE k \in 1 .. L
  <2>1. k - 1 \in Nat /\ (k - 1) + 1 = k /\ k - 1 \in 0 .. L
    BY <1>2
  <2>2. Good(k - 1) /\ (k - 1) + 1 <= L
    BY <1>8, <2>1
  <2>3. Len(f[(k - 1) + 1]) = (Len(f[k - 1]) + 1) \div 2
    BY <1>6, <2>1, <2>2
  <2> QED BY <2>1, <2>3
<1> QED BY <1>3, <1>4, <1>8, <1>9 DEF Good, f, L

\* The tree of a nonempty sequence of leaves: the levels up to the first with a
\* single node, which is the root.
LEMMA BuildShape ==
  ASSUME NEW leaves, Len(leaves) \in Nat \ {0}, DOMAIN leaves = 1 .. Len(leaves)
  PROVE  \E d \in 0 .. Len(leaves) :
           /\ build(leaves) = [k \in 1 .. d + 1 |-> levels(leaves)[k - 1]]
           /\ Len(build(leaves)) = d + 1
           /\ Len(levels(leaves)[d]) = 1
           /\ \A j \in 0 .. d - 1 : Len(levels(leaves)[j]) # 1
           /\ root(build(leaves)) = levels(leaves)[d][1]
<1> DEFINE L == Len(leaves)
           f == levels(leaves)
           First(k) == Len(f[k]) = 1 /\ \A j \in 0 .. k - 1 : Len(f[j]) # 1
           S == {k \in 0 .. L : Len(f[k]) = 1}
           d == CHOOSE k \in 0 .. L : First(k)
<1>1. L \in Nat \ {0}
  OBVIOUS
<1>2. \A k \in 0 .. L : Len(f[k]) \in Nat \ {0} /\ (Len(f[k]) = 1 \/ Len(f[k]) + k <= L)
  BY LevelsShape
<1>3. build(leaves) = [k \in 1 .. d + 1 |-> f[k - 1]]
  BY Zenon DEF build
<1> HIDE DEF f, L
<1>4. S # {} /\ S \in SUBSET Nat
  <2>1. L \in 0 .. L
    BY <1>1
  <2>2. Len(f[L]) = 1
    BY <1>1, <1>2, <2>1
  <2> QED BY <1>1, <2>1, <2>2
<1>5. \E k \in 0 .. L : First(k)
  <2>1. PICK k \in S : \A j \in S : k <= j
    BY <1>4, LeastOf
  <2>2. ASSUME NEW j \in 0 .. k - 1 PROVE Len(f[j]) # 1
    BY <1>1, <2>1
  <2> QED BY <2>1, <2>2
<1>6. d \in 0 .. L /\ First(d)
  BY <1>5
<1> HIDE DEF d
<1> DEFINE b == build(leaves)
<1>7. d + 1 \in Nat /\ b = [k \in 1 .. d + 1 |-> b[k]]
  BY <1>1, <1>3, <1>6
<1>8. Len(b) = d + 1
  BY <1>7, LengthOf
<1>9. root(b) = f[d][1]
  <2>1. d + 1 \in 1 .. d + 1 /\ (d + 1) - 1 = d
    BY <1>1, <1>6
  <2>2. b[d + 1] = f[d]
    BY <1>3, <2>1
  <2> QED BY <1>8, <2>2 DEF root, Last
<1> QED BY <1>3, <1>6, <1>8, <1>9 DEF f, L

----------------------------------------------------------------------------
(***************************************************************************)
(* What the tree promises.                                                 *)
(***************************************************************************)
\* Equal hashes of the same shape have equal parts (a hash is a free term).
LEMMA HashesFree ==
  /\ \A x, y : leaf_hash(x) = leaf_hash(y) <=> x = y
  /\ \A l, r, l2, r2 : inner_hash(l, r) = inner_hash(l2, r2) <=> l = l2 /\ r = r2
BY DEF leaf_hash, inner_hash

\* The parent of the node at the 0-based index idx is the hash of the node and
\* its sibling, in the order that is_left tells.
LEMMA ParentOf ==
  ASSUME NEW s, NEW n \in Nat \ {0}, Level(s, n), NEW idx \in 0 .. n - 1
  PROVE  /\ idx \div 2 \in 0 .. ((n + 1) \div 2) - 1
         /\ Parents(s)[idx \div 2 + 1] =
              IF idx % 2 = 1 THEN inner_hash(s[Sibling(s, idx) + 1], s[idx + 1])
                             ELSE inner_hash(s[idx + 1], s[Sibling(s, idx) + 1])
<1> DEFINE m == (n + 1) \div 2
           i == idx \div 2 + 1
           last == IF 2 * i <= n THEN 2 * i ELSE 2 * i - 1
<1>1. i \in 1 .. m /\ idx \div 2 \in 0 .. m - 1
  OBVIOUS
<1>2. Parents(s)[i] = inner_hash(s[2 * i - 1], s[last])
  BY <1>1 DEF Parents, Level
<1>3. CASE idx % 2 = 1
  <2>1. 2 * i - 1 = (idx - 1) + 1 /\ 2 * i = idx + 1
    BY <1>3
  <2>2. last = idx + 1
    BY <2>1
  <2>3. Sibling(s, idx) = idx - 1
    BY <1>3 DEF Sibling
  <2> QED BY <1>1, <1>2, <1>3, <2>1, <2>2, <2>3
<1>4. CASE idx % 2 # 1
  <2>1. 2 * i - 1 = idx + 1 /\ 2 * i = (idx + 1) + 1
    BY <1>4
  <2>2. Sibling(s, idx) + 1 = last
    BY <1>4, <2>1 DEF Sibling, Level
  <2> QED BY <1>1, <1>2, <1>4, <2>1, <2>2
<1> QED BY <1>3, <1>4

\* A level and another one of the same length with the same parents are equal.
LEMMA ParentsInjective ==
  ASSUME NEW s, NEW t, NEW n \in Nat \ {0}, Level(s, n), Level(t, n),
         s = [i \in 1 .. n |-> s[i]], t = [i \in 1 .. n |-> t[i]],
         Parents(s) = Parents(t)
  PROVE  s = t
<1>1. ASSUME NEW p \in 1 .. n PROVE s[p] = t[p]
  <2> DEFINE idx == p - 1
             q == idx \div 2 + 1
  <2>1. idx \in 0 .. n - 1 /\ idx + 1 = p
    OBVIOUS
  <2> HIDE DEF idx
  <2>2. Parents(s)[q] = IF idx % 2 = 1 THEN inner_hash(s[Sibling(s, idx) + 1], s[p])
                                       ELSE inner_hash(s[p], s[Sibling(s, idx) + 1])
    BY <2>1, ParentOf
  <2>3. Parents(t)[q] = IF idx % 2 = 1 THEN inner_hash(t[Sibling(t, idx) + 1], t[p])
                                       ELSE inner_hash(t[p], t[Sibling(t, idx) + 1])
    BY <2>1, ParentOf
  <2> QED BY <2>2, <2>3, HashesFree
<1> QED BY <1>1

\* Two nonempty sequences of leaves of the same length with the same root are
\* equal: the levels are equal from the root down.
LEMMA RootFixesLeaves ==
  ASSUME NEW a, NEW b, NEW n \in Nat \ {0}, Level(a, n), Level(b, n),
         root(build(a)) = root(build(b))
  PROVE  \A i \in 1 .. n : a[i] = b[i]
<1> DEFINE f == levels(a)
           g == levels(b)
<1>1. Len(a) \in Nat \ {0} /\ DOMAIN a = 1 .. Len(a) /\ Len(b) \in Nat \ {0} /\ DOMAIN b = 1 .. Len(b)
  BY DEF Level
<1>2. /\ Level(f[0], n) /\ Level(g[0], n)
      /\ \A k \in 0 .. n : /\ Len(f[k]) \in Nat \ {0} /\ Level(f[k], Len(f[k]))
                           /\ Len(g[k]) \in Nat \ {0} /\ Level(g[k], Len(g[k]))
      /\ \A k \in 1 .. n : /\ f[k] = Parents(f[k - 1]) /\ Len(f[k]) = (Len(f[k - 1]) + 1) \div 2
                           /\ g[k] = Parents(g[k - 1]) /\ Len(g[k]) = (Len(g[k - 1]) + 1) \div 2
  BY <1>1, LevelsShape DEF Level
<1>3. \A k \in 0 .. n : Len(f[k]) = Len(g[k])
  <2> DEFINE S == {k \in Nat : k <= n => Len(f[k]) = Len(g[k])}
  <2> HIDE DEF f, g
  <2>1. 0 \in S
    BY <1>2 DEF Level
  <2>2. ASSUME NEW k \in Nat, k \in S PROVE k + 1 \in S
    <3>1. k + 1 <= n => k <= n /\ k + 1 \in 1 .. n /\ (k + 1) - 1 = k
      OBVIOUS
    <3>2. k + 1 <= n => Len(f[k + 1]) = Len(g[k + 1])
      BY <1>2, <2>2, <3>1
    <3> QED BY <3>2
  <2> HIDE DEF S
  <2>3. \A k \in Nat : k \in S
    BY <2>1, <2>2, FromZero
  <2> QED BY <2>3 DEF S
<1>4. PICK d \in 0 .. n : Len(f[d]) = 1 /\ (\A j \in 0 .. d - 1 : Len(f[j]) # 1) /\ root(build(a)) = f[d][1]
  BY <1>1, BuildShape DEF Level
<1>5. PICK e \in 0 .. n : Len(g[e]) = 1 /\ (\A j \in 0 .. e - 1 : Len(g[j]) # 1) /\ root(build(b)) = g[e][1]
  BY <1>1, BuildShape DEF Level
<1>6. \A k \in 0 .. n : f[k] = [i \in 1 .. Len(f[k]) |-> f[k][i]] /\ g[k] = [i \in 1 .. Len(f[k]) |-> g[k][i]]
  <2>1. f[0] = [i \in 1 .. n |-> leaf_hash(a[i])] /\ g[0] = [i \in 1 .. n |-> leaf_hash(b[i])]
    BY <1>1, LevelsEquation DEF Level
  <2> HIDE DEF f, g
  <2>2. ASSUME NEW k \in 1 .. n
        PROVE  f[k] = [i \in 1 .. Len(f[k]) |-> f[k][i]] /\ g[k] = [i \in 1 .. Len(g[k]) |-> g[k][i]]
    <3>1. f[k] = Parents(f[k - 1]) /\ g[k] = Parents(g[k - 1])
      BY <1>2
    <3>2. DOMAIN f[k] = 1 .. Len(f[k]) /\ DOMAIN g[k] = 1 .. Len(g[k])
      BY <1>2 DEF Level
    <3> QED BY <3>1, <3>2 DEF Parents
  <2>3. \A k \in 0 .. n : k = 0 \/ k \in 1 .. n
    OBVIOUS
  <2>4. Len(f[0]) = n /\ Len(g[0]) = n
    BY <1>2 DEF Level
  <2>5. f[0] = [i \in 1 .. n |-> f[0][i]] /\ g[0] = [i \in 1 .. n |-> g[0][i]]
    BY <2>1
  <2>6. f[0] = [i \in 1 .. Len(f[0]) |-> f[0][i]] /\ g[0] = [i \in 1 .. Len(f[0]) |-> g[0][i]]
    BY <2>4, <2>5
  <2>7. \A k \in 1 .. n : f[k] = [i \in 1 .. Len(f[k]) |-> f[k][i]] /\ g[k] = [i \in 1 .. Len(f[k]) |-> g[k][i]]
    <3> TAKE k \in 1 .. n
    <3>1. k \in 0 .. n
      OBVIOUS
    <3>2. Len(f[k]) = Len(g[k])
      BY <1>3, <3>1
    <3> QED BY <2>2, <3>2
  <2> DEFINE Same(k) == /\ f[k] = [i \in 1 .. Len(f[k]) |-> f[k][i]]
                        /\ g[k] = [i \in 1 .. Len(f[k]) |-> g[k][i]]
  <2>8. Same(0) /\ \A k \in 1 .. n : Same(k)
    BY <2>6, <2>7
  <2> HIDE DEF Same
  <2>9. \A k \in 0 .. n : Same(k)
    BY <2>3, <2>8, Zenon
  <2> QED BY <2>9 DEF Same
<1> HIDE DEF f, g
<1>7. d = e
  <2>1. Len(g[d]) = 1 /\ Len(f[e]) = 1
    BY <1>3, <1>4, <1>5
  <2>2. ~ (d \in 0 .. e - 1) /\ ~ (e \in 0 .. d - 1)
    BY <1>4, <1>5, <2>1
  <2> QED BY <2>2
<1>8. f[d] = g[d]
  <2>1. Len(f[d]) = 1 /\ Len(g[d]) = 1 /\ f[d][1] = g[d][1]
    BY <1>4, <1>5, <1>7
  <2>2. f[d] = [i \in 1 .. 1 |-> f[d][i]] /\ g[d] = [i \in 1 .. 1 |-> g[d][i]]
    BY <1>6, <2>1
  <2>3. \A i \in 1 .. 1 : f[d][i] = g[d][i]
    BY <2>1
  <2> QED BY <2>2, <2>3
<1>9. f[0] = g[0]
  <2> DEFINE S == {k \in Nat : k <= d => f[d - k] = g[d - k]}
  <2>1. 0 \in S
    BY <1>4, <1>8
  <2>2. ASSUME NEW k \in Nat, k \in S PROVE k + 1 \in S
    <3> SUFFICES ASSUME k + 1 <= d PROVE f[d - (k + 1)] = g[d - (k + 1)]
      BY <2>2
    <3> DEFINE j == d - (k + 1)
    <3>1. j \in 0 .. n /\ d - k = j + 1 /\ j + 1 \in 1 .. n /\ (j + 1) - 1 = j /\ k <= d
      BY <1>4
    <3> HIDE DEF j
    <3>2. f[j + 1] = g[j + 1]
      BY <2>2, <3>1
    <3>3. Parents(f[j]) = Parents(g[j])
      BY <1>2, <3>1, <3>2
    <3>4. Len(f[j]) \in Nat \ {0} /\ Level(f[j], Len(f[j])) /\ Level(g[j], Len(f[j]))
      BY <1>2, <1>3, <3>1
    <3>5. f[j] = g[j]
      BY <1>6, <3>1, <3>3, <3>4, ParentsInjective
    <3> QED BY <3>5 DEF j
  <2> HIDE DEF S
  <2>3. d \in S
    BY <1>4, <2>1, <2>2, FromZero
  <2>4. d <= d => f[d - d] = g[d - d]
    BY <2>3 DEF S
  <2> QED BY <1>4, <2>4
<1>10. \A i \in 1 .. n : f[0][i] = leaf_hash(a[i]) /\ g[0][i] = leaf_hash(b[i])
  BY <1>1, LevelsEquation DEF Level, f, g
<1> QED BY <1>9, <1>10, HashesFree

\* The inclusion proof of a leaf is accepted for that leaf's value and for no
\* other: the walk follows the nodes above the leaf exactly if it starts there.
LEMMA ProofProvesLeaf ==
  ASSUME NEW leaves, Len(leaves) \in Nat \ {0}, DOMAIN leaves = 1 .. Len(leaves),
         NEW j \in 1 .. Len(leaves), NEW r
  PROVE  verify(proof(build(leaves), j - 1), root(build(leaves)), r) <=> r = leaves[j]
<1> DEFINE n == Len(leaves)
           f == levels(leaves)
           tree == build(leaves)
           idx == indices(tree, j - 1)
           path == proof(tree, j - 1).path
           w == walk(path, r)
<1>1. /\ n \in Nat \ {0} /\ j \in 1 .. n
      /\ Level(f[0], n)
      /\ \A k \in 0 .. n : Len(f[k]) \in Nat \ {0} /\ Level(f[k], Len(f[k]))
      /\ \A k \in 1 .. n : f[k] = Parents(f[k - 1]) /\ Len(f[k]) = (Len(f[k - 1]) + 1) \div 2
      /\ f[0] = [i \in 1 .. n |-> leaf_hash(leaves[i])]
  BY LevelsShape, LevelsEquation
<1>2. PICK d \in 0 .. n : /\ tree = [k \in 1 .. d + 1 |-> f[k - 1]]
                          /\ Len(tree) = d + 1
                          /\ Len(f[d]) = 1
                          /\ root(tree) = f[d][1]
  BY BuildShape
<1>3. d \in Nat /\ d <= n /\ Len(tree) \in Nat \ {0}
  BY <1>1, <1>2
<1> HIDE DEF n, f, tree
<1>4. idx = [k \in 1 .. d + 1 |-> IF k = 1 THEN j - 1 ELSE idx[k - 1] \div 2]
  <2>1. idx = [k \in 1 .. Len(tree) |-> IF k = 1 THEN j - 1 ELSE idx[k - 1] \div 2]
    BY <1>3, IndicesEquation
  <2> QED BY <1>2, <2>1
<1> HIDE DEF idx
<1>5. path = [k \in 1 .. d |-> [sibling |-> tree[k][Sibling(tree[k], idx[k]) + 1],
                                is_left |-> idx[k] % 2 = 1]]
  <2>1. Len(tree) - 1 = d
    BY <1>2, <1>3
  <2> QED BY <2>1 DEF proof, idx
<1> HIDE DEF path
<1>6. Len(path) = d
  <2>1. path = [k \in 1 .. d |-> path[k]]
    BY <1>5
  <2> QED BY <1>3, <2>1, LengthOf
<1>7. w = [k \in 0 .. d |-> IF k = 0 THEN leaf_hash(r)
                            ELSE IF path[k].is_left THEN inner_hash(path[k].sibling, w[k - 1])
                            ELSE inner_hash(w[k - 1], path[k].sibling)]
  <2>1. w = [k \in 0 .. Len(path) |-> IF k = 0 THEN leaf_hash(r)
                                      ELSE IF path[k].is_left THEN inner_hash(path[k].sibling, w[k - 1])
                                      ELSE inner_hash(w[k - 1], path[k].sibling)]
    <3>1. Len(path) \in Nat
      BY <1>3, <1>6
    <3> QED BY <3>1, WalkEquation, Zenon
  <2> QED BY <1>6, <2>1
<1> HIDE DEF w
<1> DEFINE On(k) == /\ idx[k + 1] \in 0 .. Len(f[k]) - 1
                    /\ w[k] = f[k][idx[k + 1] + 1] <=> r = leaves[j]
           S == {k \in Nat : k <= d => On(k)}
<1>8. 0 \in S
  <2>1. idx[0 + 1] = j - 1 /\ w[0] = leaf_hash(r)
    BY <1>3, <1>4, <1>7
  <2>2. Len(f[0]) = n
    BY <1>1 DEF Level
  <2>3. f[0][(j - 1) + 1] = leaf_hash(leaves[j])
    BY <1>1
  <2> QED BY <1>1, <2>1, <2>2, <2>3, HashesFree
<1>9. ASSUME NEW k \in Nat, k \in S PROVE k + 1 \in S
  <2> SUFFICES ASSUME k + 1 <= d PROVE On(k + 1)
    OBVIOUS
  <2>1. /\ k <= d /\ k \in 0 .. n /\ k + 1 \in 1 .. n /\ (k + 1) - 1 = k /\ k + 1 \in 1 .. d
        /\ k + 1 \in 0 .. d /\ k + 1 # 0
        /\ (k + 1) + 1 \in 1 .. d + 1 /\ (k + 1) + 1 # 1 /\ ((k + 1) + 1) - 1 = k + 1
        /\ k + 1 \in 1 .. d + 1
    BY <1>1, <1>3
  <2> DEFINE i == idx[k + 1]
             s == f[k]
             m == Len(s)
  <2>2. i \in 0 .. m - 1 /\ (w[k] = s[i + 1] <=> r = leaves[j])
    BY <1>9, <2>1
  <2>3. m \in Nat \ {0} /\ Level(s, m)
    BY <1>1, <2>1
  <2>4. f[k + 1] = Parents(s) /\ Len(f[k + 1]) = (m + 1) \div 2
    BY <1>1, <2>1
  <2>5. idx[(k + 1) + 1] = i \div 2
    BY <1>4, <2>1
  <2>6. tree[k + 1] = s
    BY <1>2, <2>1
  <2>7. path[k + 1].sibling = s[Sibling(s, i) + 1] /\ (path[k + 1].is_left <=> i % 2 = 1)
    BY <1>5, <2>1, <2>6
  <2>8. w[k + 1] = IF path[k + 1].is_left THEN inner_hash(path[k + 1].sibling, w[k])
                                          ELSE inner_hash(w[k], path[k + 1].sibling)
    BY <1>7, <2>1
  <2> HIDE DEF i, s, m
  <2>9. i \div 2 \in 0 .. ((m + 1) \div 2) - 1
    BY <2>2, <2>3, ParentOf
  <2>10. Parents(s)[i \div 2 + 1] = IF i % 2 = 1 THEN inner_hash(s[Sibling(s, i) + 1], s[i + 1])
                                                 ELSE inner_hash(s[i + 1], s[Sibling(s, i) + 1])
    BY <2>2, <2>3, ParentOf
  <2>11. w[k + 1] = Parents(s)[i \div 2 + 1] <=> w[k] = s[i + 1]
    BY <2>7, <2>8, <2>10, HashesFree
  <2> QED BY <2>2, <2>4, <2>5, <2>9, <2>11
<1>10. On(d)
  <2> HIDE DEF S
  <2>1. d \in S
    BY <1>3, <1>8, <1>9, FromZero
  <2> QED BY <1>3, <2>1 DEF S
<1>11. idx[d + 1] + 1 = 1
  BY <1>2, <1>10
<1>12. w[d] = root(tree) <=> r = leaves[j]
  BY <1>2, <1>10, <1>11
<1> QED BY <1>6, <1>12 DEF verify, w, path, tree

----------------------------------------------------------------------------
(***************************************************************************)
(* FlattenSeq, by which the abstract log is read off the batches.          *)
(***************************************************************************)
\* The prefixes that FlattenSeq concatenates.
Flattens(g, seqs) ==
  g = [i \in 1 .. Len(seqs) |-> IF i = 1 THEN seqs[i] ELSE g[i - 1] \o seqs[i]]

LEMMA FlattenEquation ==
  ASSUME NEW seqs, Len(seqs) \in Nat \ {0}
  PROVE  \E g : Flattens(g, seqs) /\ FlattenSeq(seqs) = g[Len(seqs)]
<1> DEFINE n == Len(seqs)
           P(g, m) == g = [i \in 1 .. m |-> IF i = 1 THEN seqs[i] ELSE g[i - 1] \o seqs[i]]
           S == {m \in Nat : \E g : P(g, m + 1)}
<1>1. 0 \in S
  <2>1. P([i \in 1 .. 1 |-> seqs[1]], 1)
    OBVIOUS
  <2>2. 0 + 1 = 1
    OBVIOUS
  <2>3. P([i \in 1 .. 1 |-> seqs[1]], 0 + 1)
    BY <2>1, <2>2
  <2> QED BY <2>3
<1>2. ASSUME NEW m \in Nat, m \in S PROVE m + 1 \in S
  <2>1. PICK g : P(g, m + 1)
    BY <1>2
  <2>2. \A k \in 1 .. m + 1 : g[k] = IF k = 1 THEN seqs[k] ELSE g[k - 1] \o seqs[k]
    BY <2>1
  <2> DEFINE top == g[m + 1] \o seqs[(m + 1) + 1]
             h == [k \in 1 .. (m + 1) + 1 |-> IF k = (m + 1) + 1 THEN top ELSE g[k]]
  <2> HIDE DEF top
  <2>3. ASSUME NEW k \in 1 .. (m + 1) + 1
        PROVE  h[k] = IF k = 1 THEN seqs[k] ELSE h[k - 1] \o seqs[k]
    <3>1. CASE k = (m + 1) + 1
      <4>1. h[k] = top /\ h[k - 1] = g[m + 1] /\ k # 1
        BY <3>1
      <4> QED BY <3>1, <4>1 DEF top
    <3>2. CASE k # (m + 1) + 1
      <4>1. h[k] = g[k] /\ k \in 1 .. m + 1
        BY <3>2
      <4>2. k # 1 => h[k - 1] = g[k - 1]
        BY <3>2
      <4> QED BY <2>2, <4>1, <4>2
    <3> QED BY <3>1, <3>2
  <2>4. h = [k \in 1 .. (m + 1) + 1 |-> h[k]]
    OBVIOUS
  <2> HIDE DEF h
  <2>5. P(h, (m + 1) + 1)
    BY <2>3, <2>4
  <2>6. m + 1 \in Nat
    OBVIOUS
  <2> QED BY <2>5, <2>6, Zenon
<1>3. n - 1 \in S
  <2> HIDE DEF S
  <2> QED BY <1>1, <1>2, FromZero
<1>4. \E g : P(g, n)
  <2>1. PICK g : P(g, (n - 1) + 1)
    BY <1>3
  <2>2. (n - 1) + 1 = n
    OBVIOUS
  <2> QED BY <2>1, <2>2
<1> DEFINE flatten == CHOOSE g : P(g, n)
<1>5. P(flatten, n)
  BY <1>4, Zenon
<1>6. FlattenSeq(seqs) = flatten[n]
  <2>1. n # 0
    OBVIOUS
  <2> QED BY <2>1, Zenon DEF FlattenSeq
<1> QED BY <1>5, <1>6 DEF Flattens

\* The concatenation of sequences over T is one.
LEMMA FlattenType ==
  ASSUME NEW T, NEW seqs \in Seq(Seq(T))
  PROVE  /\ FlattenSeq(seqs) \in Seq(T)
         /\ seqs = << >> => FlattenSeq(seqs) = << >>
<1> DEFINE n == Len(seqs)
<1>1. n \in Nat /\ \A i \in 1 .. n : seqs[i] \in Seq(T)
  OBVIOUS
<1>2. CASE n = 0
  <2>1. seqs = << >>
    BY <1>2
  <2> QED BY <1>2, <2>1 DEF FlattenSeq
<1>3. CASE n # 0
  <2>1. PICK g : Flattens(g, seqs) /\ FlattenSeq(seqs) = g[n]
    BY <1>1, <1>3, FlattenEquation
  <2> DEFINE S == {k \in Nat : k + 1 <= n => g[k + 1] \in Seq(T)}
  <2> HIDE DEF n
  <2>2. \A i \in 1 .. n : g[i] = IF i = 1 THEN seqs[i] ELSE g[i - 1] \o seqs[i]
    BY <2>1 DEF Flattens, n
  <2>3. 0 \in S
    <3>1. 0 + 1 = 1 /\ 1 \in 1 .. n
      BY <1>1, <1>3
    <3> QED BY <1>1, <2>2, <3>1
  <2>4. ASSUME NEW k \in Nat, k \in S PROVE k + 1 \in S
    <3> SUFFICES ASSUME (k + 1) + 1 <= n PROVE g[(k + 1) + 1] \in Seq(T)
      OBVIOUS
    <3>1. k + 1 <= n /\ (k + 1) + 1 \in 1 .. n /\ (k + 1) + 1 # 1 /\ ((k + 1) + 1) - 1 = k + 1
      BY <1>1
    <3>2. g[(k + 1) + 1] = g[k + 1] \o seqs[(k + 1) + 1]
      BY <2>2, <3>1
    <3>3. g[k + 1] \in Seq(T) /\ seqs[(k + 1) + 1] \in Seq(T)
      BY <1>1, <2>4, <3>1
    <3> QED BY <3>2, <3>3
  <2> HIDE DEF S
  <2>5. n - 1 \in S
    <3>1. n - 1 \in Nat
      BY <1>1, <1>3
    <3> QED BY <2>3, <2>4, <3>1, FromZero
  <2>6. (n - 1) + 1 = n
    BY <1>1
  <2>7. g[n] \in Seq(T)
    BY <1>1, <2>5, <2>6 DEF S
  <2>8. seqs # << >>
    BY <1>3 DEF n
  <2> QED BY <2>1, <2>7, <2>8
<1> QED BY <1>2, <1>3

\* One more batch is appended to the concatenation.
LEMMA FlattenAppend ==
  ASSUME NEW T, NEW seqs \in Seq(Seq(T)), NEW s \in Seq(T)
  PROVE  FlattenSeq(Append(seqs, s)) = FlattenSeq(seqs) \o s
<1> DEFINE n == Len(seqs)
           more == Append(seqs, s)
<1>1. /\ n \in Nat /\ Len(more) = n + 1
      /\ \A i \in 1 .. n : more[i] = seqs[i]
      /\ more[n + 1] = s
  OBVIOUS
<1>2. PICK h : Flattens(h, more) /\ FlattenSeq(more) = h[Len(more)]
  <2>1. Len(more) \in Nat \ {0}
    BY <1>1
  <2> HIDE DEF more
  <2> QED BY <2>1, FlattenEquation
<1>3. \A i \in 1 .. n + 1 : h[i] = IF i = 1 THEN more[i] ELSE h[i - 1] \o more[i]
  BY <1>1, <1>2 DEF Flattens
<1>4. FlattenSeq(more) = h[n + 1]
  BY <1>1, <1>2
<1>5. CASE n = 0
  <2>1. h[n + 1] = s
    BY <1>1, <1>3, <1>5
  <2>2. FlattenSeq(seqs) = << >>
    <3>1. seqs = << >>
      BY <1>5
    <3> QED BY <3>1, FlattenType
  <2> QED BY <1>4, <2>1, <2>2
<1>6. CASE n # 0
  <2>1. PICK g : Flattens(g, seqs) /\ FlattenSeq(seqs) = g[n]
    BY <1>1, <1>6, FlattenEquation
  <2> DEFINE S == {k \in Nat : k + 1 <= n => g[k + 1] = h[k + 1]}
  <2> HIDE DEF n, more
  <2>2. \A i \in 1 .. n : g[i] = IF i = 1 THEN seqs[i] ELSE g[i - 1] \o seqs[i]
    BY <2>1 DEF Flattens, n
  <2>3. 0 \in S
    <3>1. 0 + 1 = 1 /\ 1 \in 1 .. n /\ 1 \in 1 .. n + 1
      BY <1>1, <1>6
    <3> QED BY <1>1, <1>3, <2>2, <3>1
  <2>4. ASSUME NEW k \in Nat, k \in S PROVE k + 1 \in S
    <3> SUFFICES ASSUME (k + 1) + 1 <= n PROVE g[(k + 1) + 1] = h[(k + 1) + 1]
      OBVIOUS
    <3>1. /\ k + 1 <= n /\ (k + 1) + 1 \in 1 .. n /\ (k + 1) + 1 # 1 /\ ((k + 1) + 1) - 1 = k + 1
          /\ (k + 1) + 1 \in 1 .. n + 1
      BY <1>1
    <3>2. g[(k + 1) + 1] = g[k + 1] \o seqs[(k + 1) + 1]
      BY <2>2, <3>1
    <3>3. h[(k + 1) + 1] = h[k + 1] \o more[(k + 1) + 1]
      BY <1>3, <3>1
    <3>4. g[k + 1] = h[k + 1] /\ more[(k + 1) + 1] = seqs[(k + 1) + 1]
      BY <1>1, <2>4, <3>1
    <3> QED BY <3>2, <3>3, <3>4
  <2> HIDE DEF S
  <2>5. n - 1 \in S
    <3>1. n - 1 \in Nat
      BY <1>1, <1>6
    <3> QED BY <2>3, <2>4, <3>1, FromZero
  <2>6. (n - 1) + 1 = n
    BY <1>1
  <2>7. g[n] = h[n]
    BY <1>1, <2>5, <2>6 DEF S
  <2>8. n + 1 \in 1 .. n + 1 /\ n + 1 # 1 /\ (n + 1) - 1 = n
    BY <1>1, <1>6
  <2>9. h[n + 1] = h[n] \o s
    BY <1>1, <1>3, <2>8
  <2> QED BY <1>4, <2>1, <2>7, <2>9 DEF more, n
<1> QED BY <1>5, <1>6

----------------------------------------------------------------------------
(***************************************************************************)
(* The checkpoint buffer.  Inductive: every checkpoint is that of the      *)
(* batch flushed with it.                                                  *)
(***************************************************************************)
CheckpointOfBatch(batch) == [records_merkle_root |-> root(build(batch)),
                             batch_size |-> Len(batch)]

CheckInv ==
  /\ records \in Seq(Record)
  /\ batches \in Seq(Seq(Record) \ {<< >>})
  /\ checkpoints = [i \in 1 .. Len(batches) |-> CheckpointOfBatch(batches[i])]

LEMMA CheckInvInit == Init => CheckInv
BY DEF Init, CheckInv

LEMMA CheckInvPush ==
  ASSUME CheckInv, NEW r \in Record, Push(r) PROVE CheckInv'
BY DEF CheckInv, Push, CheckpointOfBatch

LEMMA CheckInvFlush ==
  ASSUME CheckInv, Flush PROVE CheckInv'
<1> DEFINE n == Len(batches)
           c == CheckpointOfBatch(records)
<1>1. /\ records \in Seq(Record) \ {<< >>} /\ n \in Nat
      /\ batches \in Seq(Seq(Record) \ {<< >>})
      /\ checkpoints = [i \in 1 .. n |-> CheckpointOfBatch(batches[i])]
      /\ checkpoints' = Append(checkpoints, c)
      /\ batches' = Append(batches, records)
      /\ records' = << >>
  BY DEF CheckInv, Flush, CheckpointOfBatch
<1> HIDE DEF c
<1>2. records' \in Seq(Record) /\ batches' \in Seq(Seq(Record) \ {<< >>})
  BY <1>1
<1>3. Len(batches') = n + 1 /\ batches'[n + 1] = records /\ \A i \in 1 .. n : batches'[i] = batches[i]
  BY <1>1
<1>4. checkpoints' = [i \in 1 .. n + 1 |-> IF i = n + 1 THEN c ELSE checkpoints[i]]
  <2>1. checkpoints = [i \in 1 .. n |-> checkpoints[i]]
    BY <1>1
  <2> DEFINE E == {checkpoints[i] : i \in 1 .. n}
  <2>2. checkpoints \in Seq(E) /\ Len(checkpoints) = n
    BY <1>1, <2>1, LengthOf
  <2> HIDE DEF E, n
  <2>3. checkpoints \in Seq(E \cup {c}) /\ c \in E \cup {c}
    BY <2>2
  <2>4. Append(checkpoints, c) = [i \in 1 .. n + 1 |-> IF i = n + 1 THEN c ELSE checkpoints[i]]
    <3>1. /\ Append(checkpoints, c) \in Seq(E \cup {c})
          /\ Len(Append(checkpoints, c)) = n + 1
          /\ \A i \in 1 .. n : Append(checkpoints, c)[i] = checkpoints[i]
          /\ Append(checkpoints, c)[n + 1] = c
      BY <1>1, <2>2, <2>3, AppendProperties
    <3>2. Append(checkpoints, c) = [i \in 1 .. n + 1 |-> Append(checkpoints, c)[i]]
      BY <3>1, LenProperties
    <3>3. \A i \in 1 .. n + 1 :
            Append(checkpoints, c)[i] = IF i = n + 1 THEN c ELSE checkpoints[i]
      BY <1>1, <3>1
    <3> QED BY <3>2, <3>3
  <2> QED BY <1>1, <2>4
<1> HIDE DEF n
<1>5. \A i \in 1 .. n + 1 :
        (IF i = n + 1 THEN c ELSE checkpoints[i]) = CheckpointOfBatch(batches'[i])
  <2> TAKE i \in 1 .. n + 1
  <2>1. CASE i = n + 1
    BY <1>3, <2>1 DEF c
  <2>2. CASE i # n + 1
    <3>1. i \in 1 .. n
      BY <1>1, <2>2
    <3> QED BY <1>1, <1>3, <2>2, <3>1
  <2> QED BY <2>1, <2>2
<1>6. checkpoints' = [i \in 1 .. Len(batches') |-> CheckpointOfBatch(batches'[i])]
  BY <1>3, <1>4, <1>5
<1>7. [i \in 1 .. Len(batches) |-> CheckpointOfBatch(batches[i])]'
        = [i \in 1 .. Len(batches') |-> CheckpointOfBatch(batches'[i])]
  BY DEF CheckpointOfBatch
<1> QED BY <1>2, <1>6, <1>7 DEF CheckInv

THEOREM CheckInvariance == Spec => []CheckInv
<1>1. CheckInv /\ [Next]_vars => CheckInv'
  <2> SUFFICES ASSUME CheckInv, [Next]_vars PROVE CheckInv'
    OBVIOUS
  <2>1. CASE Flush
    BY <2>1, CheckInvFlush
  <2>2. ASSUME NEW r \in Record, Push(r) PROVE CheckInv'
    BY <2>2, CheckInvPush
  <2>3. CASE UNCHANGED vars
    BY <2>3 DEF CheckInv, CheckpointOfBatch, vars
  <2> QED BY <2>1, <2>2, <2>3 DEF Next
<1> QED BY <1>1, CheckInvInit, PTL DEF Spec

\* Every batch is a nonempty sequence of records with a checkpoint of its own.
THEOREM Types == Spec => []TypeOK
<1>1. CheckInv => TypeOK
  <2> SUFFICES ASSUME CheckInv PROVE TypeOK
    OBVIOUS
  <2> DEFINE n == Len(batches)
  <2>1. n \in Nat /\ DOMAIN batches = 1 .. n /\ \A i \in 1 .. n : batches[i] \in Seq(Record) \ {<< >>}
    BY DEF CheckInv
  <2>2. checkpoints = [i \in 1 .. n |-> checkpoints[i]]
    BY DEF CheckInv
  <2>3. Len(checkpoints) = n
    BY <2>1, <2>2, LengthOf
  <2> QED BY <2>1, <2>3 DEF CheckInv, TypeOK
<1> QED BY <1>1, CheckInvariance, PTL

LEMMA BatchOf ==
  ASSUME CheckInv, NEW i \in DOMAIN batches
  PROVE  /\ batches[i] \in Seq(Record)
         /\ Len(batches[i]) \in Nat \ {0} /\ DOMAIN batches[i] = 1 .. Len(batches[i])
         /\ batches[i] # << >>
         /\ checkpoints[i].records_merkle_root = root(build(batches[i]))
         /\ checkpoints[i].batch_size = Len(batches[i])
<1>1. i \in 1 .. Len(batches) /\ batches[i] \in Seq(Record) \ {<< >>}
  BY DEF CheckInv
<1>2. checkpoints[i] = CheckpointOfBatch(batches[i])
  BY <1>1 DEF CheckInv
<1>3. Len(batches[i]) \in Nat \ {0} /\ DOMAIN batches[i] = 1 .. Len(batches[i])
  BY <1>1
<1> QED BY <1>1, <1>2, <1>3 DEF CheckpointOfBatch

\* Whatever the batch, its recipient accepts it against the root on the ledger,
\* and the inclusion proof of a place in it for the record there and no other.
THEOREM BatchesAlwaysVerify == Spec => []BatchesVerify
<1>1. CheckInv => BatchesVerify
  <2> SUFFICES ASSUME CheckInv, NEW i \in DOMAIN batches
               PROVE  /\ verify_batch(batches[i], checkpoints[i].records_merkle_root)
                      /\ \A j \in DOMAIN batches[i] : \A r \in Record :
                           verify(proof(build(batches[i]), j - 1),
                                  checkpoints[i].records_merkle_root, r) <=> r = batches[i][j]
    BY DEF BatchesVerify
  <2>1. verify_batch(batches[i], checkpoints[i].records_merkle_root)
    BY BatchOf DEF verify_batch, compute_root
  <2>2. ASSUME NEW j \in DOMAIN batches[i], NEW r \in Record
        PROVE  verify(proof(build(batches[i]), j - 1),
                      checkpoints[i].records_merkle_root, r) <=> r = batches[i][j]
    <3>1. /\ Len(batches[i]) \in Nat \ {0} /\ DOMAIN batches[i] = 1 .. Len(batches[i])
          /\ checkpoints[i].records_merkle_root = root(build(batches[i]))
      BY BatchOf
    <3>2. verify(proof(build(batches[i]), j - 1), root(build(batches[i])), r) <=> r = batches[i][j]
      BY <3>1, ProofProvesLeaf
    <3> QED BY <3>1, <3>2
  <2> QED BY <2>1, <2>2
<1> QED BY <1>1, CheckInvariance, PTL

\* The root and the number of records on the ledger fix the batch.
THEOREM CheckpointsFixBatches == Spec => []CheckpointFixesBatch
<1>1. CheckInv => CheckpointFixesBatch
  <2> SUFFICES ASSUME CheckInv, NEW i \in DOMAIN batches,
                      NEW other \in [1 .. checkpoints[i].batch_size -> Record],
                      verify_batch(other, checkpoints[i].records_merkle_root)
               PROVE  other = batches[i]
    BY DEF CheckpointFixesBatch
  <2> DEFINE b == batches[i]
             n == Len(b)
  <2>1. /\ b \in Seq(Record) /\ n \in Nat \ {0} /\ DOMAIN b = 1 .. n
        /\ checkpoints[i].records_merkle_root = root(build(b))
        /\ checkpoints[i].batch_size = n
    BY BatchOf
  <2> HIDE DEF b, n
  <2>2. other \in [1 .. n -> Record] /\ verify_batch(other, root(build(b)))
    BY <2>1
  <2>3. Len(other) = n
    <3>1. other = [k \in 1 .. n |-> other[k]]
      BY <2>2
    <3> QED BY <2>1, <3>1, LengthOf
  <2>4. Level(other, n) /\ Level(b, n)
    BY <2>1, <2>2, <2>3 DEF Level, n
  <2>5. root(build(other)) = root(build(b))
    <3>1. other # << >>
      BY <2>1, <2>3
    <3> QED BY <2>2, <3>1 DEF verify_batch, compute_root
  <2>6. \A k \in 1 .. n : other[k] = b[k]
    BY <2>1, <2>4, <2>5, RootFixesLeaves
  <2>7. b = [k \in 1 .. n |-> b[k]] /\ other = [k \in 1 .. n |-> other[k]]
    BY <2>1, <2>2
  <2> QED BY <2>6, <2>7 DEF b
<1> QED BY <1>1, CheckInvariance, PTL

\* The batches and the buffer implement one log, whose committed prefix only
\* grows: no flush loses, duplicates or reorders a record.
THEOREM ImplementsLog == Spec => LogSpec
<1> DEFINE log == FlattenSeq(batches) \o records
           committed == Len(FlattenSeq(batches))
<1>1. Init => Log!Init
  <2> SUFFICES ASSUME Init PROVE Log!Init
    OBVIOUS
  <2>1. batches \in Seq(Seq(Record)) /\ batches = << >> /\ records = << >>
    BY DEF Init
  <2>2. FlattenSeq(batches) = << >>
    BY <2>1, FlattenType
  <2> QED BY <2>1, <2>2 DEF Log!Init
<1>2. CheckInv /\ [Next]_vars => [Log!Next]_<<log, committed>>
  <2> SUFFICES ASSUME CheckInv, [Next]_vars PROVE [Log!Next]_<<log, committed>>
    OBVIOUS
  <2>1. batches \in Seq(Seq(Record)) /\ records \in Seq(Record)
    BY DEF CheckInv
  <2>2. FlattenSeq(batches) \in Seq(Record)
    BY <2>1, FlattenType
  <2>3. CASE Flush
    <3>1. batches' = Append(batches, records) /\ records' = << >> /\ records # << >>
      BY <2>3 DEF Flush
    <3>2. FlattenSeq(batches') = FlattenSeq(batches) \o records
      BY <2>1, <3>1, FlattenAppend
    <3>3. FlattenSeq(batches)' = FlattenSeq(batches')
      BY DEF FlattenSeq
    <3>4. log' = log /\ committed' = Len(log) /\ committed < Len(log)
      BY <2>1, <2>2, <3>1, <3>2, <3>3
    <3> QED BY <3>4 DEF Log!Next, Log!Commit
  <2>4. ASSUME NEW r \in Record, Push(r) PROVE Log!Next
    <3>1. records' = Append(records, r) /\ batches' = batches
      BY <2>4 DEF Push
    <3>2. FlattenSeq(batches)' = FlattenSeq(batches)
      BY <3>1 DEF FlattenSeq
    <3>3. log' = Append(log, r) /\ committed' = committed
      BY <2>1, <2>2, <3>1, <3>2
    <3> QED BY <3>3 DEF Log!Next, Log!Write
  <2>5. CASE UNCHANGED vars
    <3>1. log' = log /\ committed' = committed
      BY <2>5 DEF vars, FlattenSeq
    <3> QED BY <3>1
  <2> QED BY <2>3, <2>4, <2>5 DEF Next
<1> QED BY <1>1, <1>2, CheckInvariance, PTL DEF Spec, LogSpec, Log!Spec

----------------------------------------------------------------------------
(***************************************************************************)
(* The shares of a loan round.  Inductive: the transaction and the entries *)
(* are those of one sequence of shares, which had arrived in that order.   *)
(***************************************************************************)
SharesOf(p) ==
  /\ on_chain_tx = <<O!root(O!build(p))>>
  /\ entries = [i \in DOMAIN p |-> [node_id           |-> p[i],
                                    partial_dec_share |-> p[i],
                                    merkle_proof      |-> O!proof(O!build(p), i - 1)]]

OffInv ==
  /\ phase_two_msgs \in Seq(O!Nodes)
  /\ entries # << >> => /\ Len(entries) \in 1 .. Len(phase_two_msgs)
                        /\ SharesOf(SubSeq(phase_two_msgs, 1, Len(entries)))

\* OffChain's operators on trees are those of the tree above.
LEMMA SameTree ==
  /\ \A leaves : O!build(leaves) = build(leaves)
  /\ \A tree : O!root(tree) = root(tree)
  /\ \A tree, i : O!proof(tree, i) = proof(tree, i)
  /\ \A prf, expected, r : O!verify(prf, expected, r) <=> verify(prf, expected, r)
<1>1. (\A x : O!leaf_hash(x) = leaf_hash(x)) /\ (\A x, y : O!inner_hash(x, y) = inner_hash(x, y))
  BY DEF O!leaf_hash, leaf_hash, O!inner_hash, inner_hash
<1>2. \A s : O!Parents(s) = Parents(s)
  BY DEF O!Parents, Parents, O!inner_hash, inner_hash
<1>3. \A leaves : O!levels(leaves) = levels(leaves)
  BY Zenon DEF O!levels, levels, O!Parents, Parents, O!leaf_hash, leaf_hash, O!inner_hash, inner_hash
<1>4. \A leaves : O!build(leaves) = build(leaves)
  BY <1>3, Zenon DEF O!build, build
<1>5. \A tree, i : O!indices(tree, i) = indices(tree, i)
  BY Zenon DEF O!indices, indices
<1>6. \A s, i : O!Sibling(s, i) = Sibling(s, i)
  BY Zenon DEF O!Sibling, Sibling
<1>7. \A tree, i : O!proof(tree, i) = proof(tree, i)
  BY Zenon DEF O!proof, proof, O!indices, indices, O!Sibling, Sibling
<1>8. \A path, r : O!walk(path, r) = walk(path, r)
  BY Zenon DEF O!walk, walk, O!leaf_hash, leaf_hash, O!inner_hash, inner_hash
<1>9. \A prf, expected, r : O!verify(prf, expected, r) <=> verify(prf, expected, r)
  BY <1>8, Zenon DEF O!verify, verify
<1>10. \A tree : O!root(tree) = root(tree)
  BY Zenon DEF O!root, root, O!Last, Last
<1> QED BY <1>4, <1>7, <1>9, <1>10

LEMMA OffInvInit == O!Init => OffInv
BY DEF O!Init, OffInv

LEMMA OffInvHandle ==
  ASSUME OffInv, NEW n \in O!Nodes, O!HandleDecPhaseTwo(n) PROVE OffInv'
<1>1. /\ phase_two_msgs \in Seq(O!Nodes) /\ phase_two_msgs' = Append(phase_two_msgs, n)
      /\ entries' = entries /\ on_chain_tx' = on_chain_tx
  BY DEF OffInv, O!HandleDecPhaseTwo
<1>2. O!Nodes' = O!Nodes
  BY DEF O!Nodes
<1>3. CASE entries # << >>
  <2> DEFINE k == Len(entries)
  <2>1. k \in 1 .. Len(phase_two_msgs) /\ SharesOf(SubSeq(phase_two_msgs, 1, k))
    BY <1>3 DEF OffInv
  <2>2. k \in 1 .. Len(phase_two_msgs') /\ phase_two_msgs' \in Seq(O!Nodes)
    BY <1>1, <2>1
  <2>3. SubSeq(phase_two_msgs', 1, k) = SubSeq(phase_two_msgs, 1, k)
    BY <1>1, <2>1
  <2>4. SubSeq(phase_two_msgs, 1, Len(entries))' = SubSeq(phase_two_msgs, 1, k)
    BY <1>1, <2>3
  <2> HIDE DEF k
  <2>5. SharesOf(SubSeq(phase_two_msgs, 1, Len(entries)))'
    <3>1. on_chain_tx' = <<O!root(O!build(SubSeq(phase_two_msgs, 1, Len(entries))'))>>
      BY <1>1, <2>1, <2>4 DEF SharesOf
    <3> DEFINE p == SubSeq(phase_two_msgs, 1, k)
    <3>2. entries' = [i \in DOMAIN p |-> [node_id           |-> p[i],
                                          partial_dec_share |-> p[i],
                                          merkle_proof      |-> O!proof(O!build(p), i - 1)]]
      BY <1>1, <2>1 DEF SharesOf
    <3> HIDE DEF p
    <3>3. SubSeq(phase_two_msgs, 1, Len(entries))' = p
      BY <2>4 DEF p
    <3> QED BY <3>1, <3>2, <3>3 DEF SharesOf
  <2> QED BY <1>1, <1>2, <2>2, <2>5 DEF OffInv, k
<1>4. CASE entries = << >>
  BY <1>1, <1>2, <1>4 DEF OffInv
<1> QED BY <1>3, <1>4

LEMMA OffInvAssemble ==
  ASSUME OffInv, O!Assemble PROVE OffInv'
<1> DEFINE p == phase_two_msgs
           mk(q) == [i \in DOMAIN q |-> [node_id           |-> q[i],
                                         partial_dec_share |-> q[i],
                                         merkle_proof      |-> O!proof(O!build(q), i - 1)]]
<1>1. /\ p \in Seq(O!Nodes) /\ phase_two_msgs' = p
      /\ on_chain_tx' = <<O!root(O!build(p))>>
      /\ entries' = mk(p)
  BY DEF OffInv, O!Assemble
<1>2. O!Nodes' = O!Nodes
  BY DEF O!Nodes
<1> DEFINE m == Len(p)
<1>3. m \in Nat /\ DOMAIN p = 1 .. m
  BY <1>1
<1> HIDE DEF mk
<1>4. entries' = [i \in 1 .. m |-> entries'[i]]
  BY <1>1, <1>3 DEF mk
<1> HIDE DEF m
<1>5. Len(entries') = m
  BY <1>3, <1>4, LengthOf
<1>6. SubSeq(p, 1, m) = p
  BY <1>1 DEF m
<1>7. SubSeq(phase_two_msgs, 1, Len(entries))' = p
  BY <1>1, <1>5, <1>6
<1>8. SharesOf(SubSeq(phase_two_msgs, 1, Len(entries)))'
  <2> DEFINE q == SubSeq(phase_two_msgs, 1, Len(entries))
  <2>1. on_chain_tx' = <<O!root(O!build(q'))>> /\ entries' = mk(q')
    BY <1>1, <1>7
  <2> QED BY <2>1 DEF SharesOf, mk
<1>9. entries' # << >> => Len(entries') \in 1 .. Len(phase_two_msgs')
  <2>1. m # 0 \/ entries' = << >>
    BY <1>4
  <2> QED BY <1>1, <1>3, <1>5, <2>1 DEF m
<1> QED BY <1>1, <1>2, <1>8, <1>9 DEF OffInv

THEOREM OffInvariance == O!Spec => []OffInv
<1>1. OffInv /\ [O!Next]_(O!vars) => OffInv'
  <2> SUFFICES ASSUME OffInv, [O!Next]_(O!vars) PROVE OffInv'
    OBVIOUS
  <2>1. CASE O!Assemble
    BY <2>1, OffInvAssemble
  <2>2. ASSUME NEW n \in O!Nodes, O!HandleDecPhaseTwo(n) PROVE OffInv'
    BY <2>2, OffInvHandle
  <2>3. CASE UNCHANGED O!vars
    BY <2>3 DEF OffInv, SharesOf, O!vars, O!Nodes
  <2> QED BY <2>1, <2>2, <2>3 DEF O!Next
<1> QED BY <1>1, OffInvInit, PTL DEF O!Spec

\* Whatever the number of nodes, whichever shares have arrived and in whatever order,
\* every entry's proof is accepted for its own node's share and for no other.
THEOREM SharesAlwaysProve == O!Spec => []SharesProve
<1>1. OffInv => SharesProve
  <2> SUFFICES ASSUME OffInv, NEW i \in DOMAIN entries, NEW n \in O!Nodes
               PROVE  O!verify(entries[i].merkle_proof, on_chain_tx[1], n)
                        <=> n = entries[i].node_id
    BY DEF SharesProve, O!SharesProve
  <2> DEFINE p == SubSeq(phase_two_msgs, 1, Len(entries))
  <2>1. CASE entries = << >>
    BY <2>1
  <2>2. CASE entries # << >>
    <3>1. Len(entries) \in 1 .. Len(phase_two_msgs) /\ phase_two_msgs \in Seq(O!Nodes) /\ SharesOf(p)
      BY <2>2 DEF OffInv
    <3>2. p \in Seq(O!Nodes) /\ Len(p) \in Nat \ {0} /\ DOMAIN p = 1 .. Len(p)
      BY <3>1
    <3> HIDE DEF p
    <3>3. /\ i \in 1 .. Len(p)
          /\ entries[i].node_id = p[i]
          /\ entries[i].merkle_proof = O!proof(O!build(p), i - 1)
          /\ on_chain_tx[1] = O!root(O!build(p))
      BY <3>1, <3>2 DEF SharesOf
    <3>4. verify(proof(build(p), i - 1), root(build(p)), n) <=> n = p[i]
      BY <3>2, <3>3, ProofProvesLeaf
    <3> QED BY <3>3, <3>4, SameTree
  <2> QED BY <2>1, <2>2
<1> QED BY <1>1, OffInvariance, PTL
=============================================================================
