------------------------- MODULE FileStorageProofs -------------------------
(***************************************************************************)
(* The operators of MerkleTree and FileStorage for every piece size, every *)
(* number of leaves and every file: powers and logarithms, the update of a *)
(* Merkle tree against the reference, the pieces get_pieces_offsets names, *)
(* and what add_files makes of a sequence of entries.                      *)
(*                                                                         *)
(* The provers cannot instantiate an induction theorem with a predicate;   *)
(* Induction takes the set of the numbers that have a property instead.    *)
(***************************************************************************)
EXTENDS FileStorage, WellFoundedInduction, FiniteSetTheorems, TLAPS

(* Induction, with a set in the place of a predicate.                      *)
LEMMA Induction ==
    ASSUME NEW S \in SUBSET Nat, 0 \in S, \A n \in S : n + 1 \in S
    PROVE  S = Nat
<1> DEFINE I == Nat \ S
<1> SUFFICES ASSUME I # {} PROVE FALSE
  OBVIOUS
<1>1. \E x \in I : \A y \in I : ~(<<y, x>> \in OpToRel(<, Nat))
  <2>1. I \subseteq Nat
    OBVIOUS
  <2> HIDE DEF I
  <2> QED
    BY <2>1, WFMin, NatLessThanWellFounded, Zenon
<1>2. PICK x \in I : \A y \in I : ~(y < x)
  BY <1>1 DEF OpToRel
<1>3. x # 0 /\ x - 1 \in Nat /\ x - 1 \notin I
  BY <1>2
<1> QED
  BY <1>3

(* pow2 is the function its recursive definition describes.                *)
LEMMA Pow2Exists ==
    \E g : g = [n \in Nat |-> IF n = 0 THEN 1 ELSE 2 * g[n - 1]]
<1> DEFINE Good(p, n) == p \in [0 .. n -> Nat] /\ p[0] = 1 /\ \A i \in 1 .. n : p[i] = 2 * p[i - 1]
           S == {n \in Nat : \E p \in [0 .. n -> Nat] : Good(p, n)}
<1>1. S = Nat
  <2>1. 0 \in S
    <3>1. Good([i \in 0 .. 0 |-> 1], 0)
      OBVIOUS
    <3> QED
      BY <3>1
  <2>2. ASSUME NEW n \in S PROVE n + 1 \in S
    <3>1. PICK p \in [0 .. n -> Nat] : Good(p, n)
      OBVIOUS
    <3> DEFINE q == [i \in 0 .. n + 1 |-> IF i = n + 1 THEN 2 * p[n] ELSE p[i]]
    <3>2. n \in Nat
      OBVIOUS
    <3>3. Good(q, n + 1)
      <4>1. p[0] = 1 /\ (\A i \in 0 .. n : p[i] \in Nat) /\ \A i \in 1 .. n : p[i] = 2 * p[i - 1]
        BY <3>1
      <4>2. q[0] = 1 /\ q[n + 1] = 2 * p[n] /\ \A i \in 0 .. n : q[i] = p[i]
        BY <3>2, <4>1
      <4>3. q = [i \in 0 .. n + 1 |-> q[i]]
        OBVIOUS
      <4> HIDE DEF q
      <4>4. ASSUME NEW i \in 0 .. n + 1 PROVE q[i] \in Nat
        <5>1. CASE i = n + 1
          BY <3>2, <4>1, <4>2, <5>1
        <5>2. CASE i # n + 1
          BY <3>2, <4>1, <4>2, <5>2
        <5> QED
          BY <5>1, <5>2
      <4>5. ASSUME NEW i \in 1 .. n + 1 PROVE q[i] = 2 * q[i - 1]
        <5>1. CASE i = n + 1
          <6>1. q[n + 1] = 2 * p[n] /\ q[n] = p[n] /\ i - 1 = n
            BY <3>2, <4>2, <5>1
          <6> QED
            BY <5>1, <6>1, Zenon
        <5>2. CASE i # n + 1
          <6>1. i \in 1 .. n /\ i \in 0 .. n /\ i - 1 \in 0 .. n
            BY <3>2, <5>2
          <6>2. p[i] = 2 * p[i - 1]
            BY <4>1, <6>1, Zenon
          <6>3. q[i] = p[i] /\ q[i - 1] = p[i - 1]
            BY <4>2, <6>1, Zenon
          <6> QED
            BY <6>2, <6>3, Zenon
        <5> QED
          BY <5>1, <5>2
      <4>6. q \in [0 .. n + 1 -> Nat]
        BY <4>3, <4>4, Zenon
      <4> QED
        BY <4>2, <4>5, <4>6, Zenon
    <3>4. q \in [0 .. n + 1 -> Nat] /\ n + 1 \in Nat
      BY <3>2, <3>3
    <3> HIDE DEF q, Good
    <3>5. \E r \in [0 .. n + 1 -> Nat] : Good(r, n + 1)
      BY <3>3, <3>4
    <3> QED
      BY <3>4, <3>5
  <2>3. S \in SUBSET Nat
    OBVIOUS
  <2> HIDE DEF S
  <2> QED
    BY <2>1, <2>2, <2>3, Induction
<1>2. ASSUME NEW n \in Nat, NEW m \in Nat, NEW p, NEW q, Good(p, n), Good(q, m)
      PROVE  \A i \in Nat : i <= n /\ i <= m => p[i] = q[i]
  <2> DEFINE A == {i \in Nat : i <= n /\ i <= m => p[i] = q[i]}
  <2>1. 0 \in A
    BY <1>2
  <2>2. ASSUME NEW i \in A PROVE i + 1 \in A
    <3> SUFFICES ASSUME i + 1 <= n, i + 1 <= m PROVE p[i + 1] = q[i + 1]
      OBVIOUS
    <3>1. i \in Nat /\ p[i] = q[i] /\ i + 1 \in 1 .. n /\ i + 1 \in 1 .. m /\ (i + 1) - 1 = i
      OBVIOUS
    <3> QED
      BY <1>2, <3>1
  <2>3. A \in SUBSET Nat
    OBVIOUS
  <2>4. A = Nat
    <3> HIDE DEF A
    <3> QED
      BY <2>1, <2>2, <2>3, Induction
  <2> QED
    BY <2>4
<1> DEFINE P(n) == CHOOSE p \in [0 .. n -> Nat] : Good(p, n)
           g == [n \in Nat |-> P(n)[n]]
<1>3. \A n \in Nat : Good(P(n), n)
  BY <1>1
<1> HIDE DEF P
<1>4. ASSUME NEW n \in Nat PROVE g[n] = IF n = 0 THEN 1 ELSE 2 * g[n - 1]
  <2>1. CASE n = 0
    BY <1>3, <2>1
  <2>2. CASE n # 0
    <3>1. n - 1 \in Nat /\ n \in 1 .. n
      BY <2>2
    <3>2. Good(P(n), n) /\ Good(P(n - 1), n - 1)
      BY <1>3, <3>1
    <3>3. P(n)[n - 1] = P(n - 1)[n - 1]
      <4> HIDE DEF Good
      <4>1. \A i \in Nat : i <= n /\ i <= n - 1 => P(n)[i] = P(n - 1)[i]
        BY <1>2, <3>1, <3>2
      <4> QED
        BY <3>1, <4>1
    <3>4. P(n)[n] = 2 * P(n)[n - 1]
      BY <3>1, <3>2
    <3> QED
      BY <2>2, <3>1, <3>3, <3>4
  <2> QED
    BY <2>1, <2>2
<1>5. g = [n \in Nat |-> IF n = 0 THEN 1 ELSE 2 * g[n - 1]]
  BY <1>4
<1> QED
  BY <1>5

(* pow2 is positive and doubles from one exponent to the next.             *)
LEMMA Pow2Facts ==
    /\ pow2[0] = 1
    /\ \A n \in Nat : pow2[n] \in Nat /\ pow2[n] > 0 /\ pow2[n + 1] = 2 * pow2[n]
<1>1. pow2 = [n \in Nat |-> IF n = 0 THEN 1 ELSE 2 * pow2[n - 1]]
  BY Pow2Exists, Zenon DEF pow2
<1>2. pow2[0] = 1 /\ \A n \in Nat : pow2[n + 1] = 2 * pow2[n]
  <2>1. \A n \in Nat : n + 1 \in Nat /\ n + 1 # 0 /\ (n + 1) - 1 = n
    OBVIOUS
  <2> QED
    BY <1>1, <2>1
<1> DEFINE A == {n \in Nat : pow2[n] \in Nat /\ pow2[n] > 0}
<1>3. A = Nat
  <2>1. 0 \in A /\ A \in SUBSET Nat
    BY <1>2
  <2>2. \A n \in A : n + 1 \in A
    BY <1>2
  <2> HIDE DEF A
  <2> QED
    BY <2>1, <2>2, Induction
<1> QED
  BY <1>2, <1>3

(* Exponents in order give powers in order.                                *)
LEMMA Pow2Monotone ==
    ASSUME NEW a \in Nat, NEW b \in Nat, a <= b
    PROVE  pow2[a] <= pow2[b] /\ (a < b => 2 * pow2[a] <= pow2[b])
<1> DEFINE A == {n \in Nat : pow2[a] <= pow2[a + n] /\ (n > 0 => 2 * pow2[a] <= pow2[a + n])}
<1>1. 0 \in A /\ A \in SUBSET Nat
  BY Pow2Facts
<1>2. ASSUME NEW n \in A PROVE n + 1 \in A
  <2>1. pow2[a + (n + 1)] = 2 * pow2[a + n]
    BY Pow2Facts
  <2>2. pow2[a] \in Nat /\ pow2[a + n] \in Nat
    BY Pow2Facts
  <2> QED
    BY <2>1, <2>2
<1>3. A = Nat
  <2> HIDE DEF A
  <2> QED
    BY <1>1, <1>2, Induction
<1>4. b - a \in Nat /\ a + (b - a) = b /\ (a < b => b - a > 0)
  OBVIOUS
<1>5. b - a \in A
  <2> HIDE DEF A
  <2> QED
    BY <1>3, <1>4
<1> QED
  BY <1>4, <1>5

(* A number is less than its power of two.                                 *)
LEMMA Pow2Above ==
    ASSUME NEW a \in Nat PROVE a < pow2[a]
<1> DEFINE A == {n \in Nat : n < pow2[n]}
<1>1. 0 \in A /\ A \in SUBSET Nat
  BY Pow2Facts
<1>2. \A n \in A : n + 1 \in A
  BY Pow2Facts
<1>3. A = Nat
  <2> HIDE DEF A
  <2> QED
    BY <1>1, <1>2, Induction
<1> QED
  BY <1>3

(* Powers multiply.                                                        *)
LEMMA Pow2Sum ==
    ASSUME NEW a \in Nat, NEW b \in Nat PROVE pow2[a + b] = pow2[a] * pow2[b]
<1> DEFINE A == {n \in Nat : pow2[a + n] = pow2[a] * pow2[n]}
<1>1. 0 \in A /\ A \in SUBSET Nat
  BY Pow2Facts
<1>2. ASSUME NEW n \in A PROVE n + 1 \in A
  <2>1. pow2[a + (n + 1)] = 2 * pow2[a + n] /\ pow2[n + 1] = 2 * pow2[n]
    BY Pow2Facts
  <2>2. pow2[a] \in Nat /\ pow2[n] \in Nat
    BY Pow2Facts
  <2>3. pow2[a] * (2 * pow2[n]) = 2 * (pow2[a] * pow2[n])
    BY <2>2
  <2> QED
    BY <2>1, <2>3
<1>3. A = Nat
  <2> HIDE DEF A
  <2> QED
    BY <1>1, <1>2, Induction
<1> QED
  BY <1>3

(* log2_floor is the exponent of the greatest power that is not above.     *)
LEMMA Log2Unique ==
    ASSUME NEW x \in Nat, NEW e \in Nat, pow2[e] <= x, x < pow2[e + 1]
    PROVE  log2_floor(x) = e
<1>1. x # 0 /\ e \in 0 .. x
  BY Pow2Above, Pow2Facts
<1>2. ASSUME NEW d \in 0 .. x, pow2[d] <= x, x < pow2[d + 1] PROVE d = e
  <2>1. /\ d < e => pow2[d + 1] <= pow2[e]
        /\ e < d => pow2[e + 1] <= pow2[d]
    BY Pow2Monotone
  <2>2. {pow2[d], pow2[d + 1], pow2[e], pow2[e + 1]} \subseteq Nat
    BY Pow2Facts
  <2> QED
    BY <1>2, <2>1, <2>2
<1> QED
  BY <1>1, <1>2 DEF log2_floor

(* log2_floor is the exponent of the highest bit ...                       *)
LEMMA Log2Floor ==
    ASSUME NEW x \in Nat \ {0}
    PROVE  /\ log2_floor(x) \in Nat
           /\ pow2[log2_floor(x)] <= x /\ x < pow2[log2_floor(x) + 1]
<1> DEFINE A == {n \in Nat : pow2[n] <= x}
<1>1. \E e \in Nat : pow2[e] <= x /\ x < pow2[e + 1]
  <2> SUFFICES ASSUME \A e \in Nat : pow2[e] <= x => ~(x < pow2[e + 1]) PROVE FALSE
    OBVIOUS
  <2>1. 0 \in A /\ A \in SUBSET Nat
    BY Pow2Facts
  <2>2. \A n \in A : n + 1 \in A
    BY Pow2Facts
  <2>3. A = Nat
    <3> HIDE DEF A
    <3> QED
      BY <2>1, <2>2, Induction
  <2>4. pow2[x] <= x
    BY <2>3
  <2> QED
    BY <2>4, Pow2Above, Pow2Facts
<1> QED
  BY <1>1, Log2Unique

(* log2_ceil is the exponent of the least power that is not below.         *)
LEMMA Log2Ceil ==
    ASSUME NEW x \in Nat \ {0}
    PROVE  /\ log2_ceil(x) \in Nat /\ x <= pow2[log2_ceil(x)]
           /\ log2_ceil(x) > 0 => pow2[log2_ceil(x) - 1] < x
<1> DEFINE k == log2_ceil(x)
<1>1. k \in Nat /\ pow2[k] <= 2 * x - 1 /\ 2 * x - 1 < pow2[k + 1]
  BY Log2Floor DEF log2_ceil
<1> HIDE DEF k
<1>2. pow2[k] \in Nat /\ pow2[k + 1] = 2 * pow2[k]
  BY <1>1, Pow2Facts
<1>3. k > 0 => pow2[k - 1] \in Nat /\ pow2[k] = 2 * pow2[k - 1]
  <2>1. k > 0 => k - 1 \in Nat /\ (k - 1) + 1 = k
    BY <1>1
  <2> QED
    BY <2>1, Pow2Facts
<1>4. k \in Nat /\ x <= pow2[k] /\ (k > 0 => pow2[k - 1] < x)
  BY <1>1, <1>2, <1>3
<1> QED
  BY <1>4 DEF k

(* ... and the only exponent with these bounds.                            *)
LEMMA Log2CeilUnique ==
    ASSUME NEW x \in Nat \ {0}, NEW k \in Nat, x <= pow2[k], k > 0 => pow2[k - 1] < x
    PROVE  log2_ceil(x) = k
<1>1. pow2[k] \in Nat /\ pow2[k + 1] = 2 * pow2[k] /\ pow2[0] = 1
  BY Pow2Facts
<1>3. k > 0 => pow2[k - 1] \in Nat /\ pow2[k] = 2 * pow2[k - 1]
  <2>1. k > 0 => k - 1 \in Nat /\ (k - 1) + 1 = k
    OBVIOUS
  <2> QED
    BY <2>1, Pow2Facts
<1>4. pow2[k] <= 2 * x - 1 /\ 2 * x - 1 < pow2[k + 1] /\ 2 * x - 1 \in Nat
  <2>1. CASE k = 0
    BY <1>1, <2>1
  <2>2. CASE k > 0
    BY <1>1, <1>3, <2>2
  <2> QED
    BY <2>1, <2>2
<1> QED
  BY <1>4, Log2Unique DEF log2_ceil

(* A function on 1 .. m, whatever its values, is a sequence of length m.   *)
IsVector(t, m) == t = [n \in 1 .. m |-> t[n]]

(* Such a function is a sequence of length m.                              *)
LEMMA VectorFacts ==
    ASSUME NEW t, NEW m \in Nat, IsVector(t, m)
    PROVE  (\E S : t \in Seq(S)) /\ Len(t) = m /\ DOMAIN t = 1 .. m
<1> DEFINE S == {t[n] : n \in 1 .. m}
<1>1. t \in [1 .. m -> S]
  BY DEF IsVector
<1> HIDE DEF S
<1>2. t \in Seq(S) /\ Len(t) = m /\ DOMAIN t = 1 .. m
  BY <1>1
<1> QED
  BY <1>2

-----------------------------------------------------------------------------
(* A tree of the given height: all its nodes, in a flat vector.            *)
IsTree(t, h) == IsVector(t, pow2[h + 1] - 1)

(* The height of a tree is found from its size.                            *)
LEMMA TreeFacts ==
    ASSUME NEW h \in Nat, NEW t, IsTree(t, h)
    PROVE  /\ pow2[h + 1] - 1 \in Nat
           /\ DOMAIN t = 1 .. pow2[h + 1] - 1
           /\ Len(t) = pow2[h + 1] - 1
           /\ tree_height(t) = h
<1>1. pow2[h] \in Nat /\ pow2[h] > 0 /\ pow2[h + 1] = 2 * pow2[h]
  BY Pow2Facts
<1>2. pow2[h + 1] - 1 \in Nat /\ pow2[h] <= pow2[h + 1] - 1
  BY <1>1
<1>3. Len(t) = pow2[h + 1] - 1 /\ DOMAIN t = 1 .. pow2[h + 1] - 1
  BY <1>2, VectorFacts DEF IsTree
<1> QED
  BY <1>1, <1>2, <1>3, Log2Unique DEF tree_height

(* Where the nodes of a layer are.                                         *)
LEMMA LayerFacts ==
    ASSUME NEW h \in Nat, NEW l \in 0 .. h, NEW i \in 0 .. pow2[l] - 1
    PROVE  /\ get_flat_index(l, i) + 1 = pow2[l] + i
           /\ pow2[l] + i \in 1 .. pow2[h + 1] - 1
<1>1. pow2[l] \in Nat /\ pow2[l] > 0 /\ pow2[l + 1] = 2 * pow2[l]
  BY Pow2Facts
<1>2. pow2[l + 1] <= pow2[h + 1] /\ pow2[h + 1] \in Nat
  BY Pow2Monotone, Pow2Facts
<1> QED
  BY <1>1, <1>2 DEF get_flat_index

(* A pass over a layer stores the digests of its pairs in the layer above  *)
(* it and leaves every other node alone; the batched pass does the same    *)
(* for a layer of two nodes.                                               *)
LEMMA UpdateLayerFacts ==
    ASSUME NEW h \in Nat, NEW t, IsTree(t, h), NEW l \in 1 .. h,
           NEW batched \in BOOLEAN, batched => l = 1
    PROVE  LET u == UpdateLayer(t, l, batched)
           IN  /\ IsTree(u, h)
               /\ \A n \in pow2[l - 1] .. pow2[l] - 1 : u[n] = Digest2(t[2 * n], t[2 * n + 1])
               /\ \A n \in 1 .. pow2[h + 1] - 1 :
                      n < pow2[l - 1] \/ n >= pow2[l] => u[n] = t[n]
<1> DEFINE w == pow2[l - 1]
           Target(i) == parent(IF batched THEN 2 * i ELSE 2 * i + 1)
           Pairs(n) == {i \in 0 .. nodes_in_layer(l) \div 2 - 1 :
                            get_flat_index(l - 1, Target(i)) + 1 = n}
           Newest(S) == CHOOSE i \in S : \A j \in S : j <= i
           u == UpdateLayer(t, l, batched)
<1>1. w \in Nat /\ w > 0 /\ pow2[l] = 2 * w
  <2>1. l - 1 \in Nat /\ (l - 1) + 1 = l
    OBVIOUS
  <2> QED
    BY <2>1, Pow2Facts
<1>2. DOMAIN t = 1 .. pow2[h + 1] - 1 /\ pow2[h + 1] \in Nat
  BY TreeFacts, Pow2Facts, SMTT(30)
<1>3. 2 * pow2[l] <= pow2[h + 1]
  BY Pow2Monotone
<1>4. u = [n \in 1 .. pow2[h + 1] - 1 |->
             IF Pairs(n) = {} THEN t[n]
             ELSE Digest2(get_node(t, l, 2 * Newest(Pairs(n))),
                          get_node(t, l, 2 * Newest(Pairs(n)) + 1))]
  BY <1>2 DEF UpdateLayer
<1>5. nodes_in_layer(l) \div 2 = w
  BY <1>1 DEF nodes_in_layer
<1>6. ASSUME NEW i \in 0 .. w - 1 PROVE Target(i) = i
  <2>1. CASE ~batched
    BY <2>1 DEF parent
  <2>2. CASE batched
    <3>1. w = 1
      BY <2>2, Pow2Facts
    <3>2. i = 0
      BY <3>1
    <3> QED
      BY <2>2, <3>2 DEF parent
  <2> QED
    BY <2>1, <2>2
<1>7. ASSUME NEW n \in Nat PROVE Pairs(n) = {i \in 0 .. w - 1 : w + i = n}
  BY <1>1, <1>5, <1>6 DEF get_flat_index
<1> HIDE DEF Pairs, w, u
<1>8. ASSUME NEW n \in w .. pow2[l] - 1 PROVE u[n] = Digest2(t[2 * n], t[2 * n + 1])
  <2>1. n \in 1 .. pow2[h + 1] - 1 /\ n \in Nat /\ n - w \in 0 .. w - 1
    BY <1>1, <1>2, <1>3
  <2>2. Pairs(n) = {n - w}
    BY <1>1, <1>7, <2>1
  <2>3. Newest(Pairs(n)) = n - w
    BY <2>1, <2>2
  <2>4. /\ get_node(t, l, 2 * (n - w)) = t[2 * n]
        /\ get_node(t, l, 2 * (n - w) + 1) = t[2 * n + 1]
    <3>1. /\ get_flat_index(l, 2 * (n - w)) + 1 = 2 * n
          /\ get_flat_index(l, 2 * (n - w) + 1) + 1 = 2 * n + 1
      BY <1>1, <2>1 DEF get_flat_index
    <3> QED
      BY <3>1 DEF get_node
  <2> HIDE DEF Newest
  <2> QED
    BY <1>4, <2>1, <2>2, <2>3, <2>4
<1>9. ASSUME NEW n \in 1 .. pow2[h + 1] - 1, n < w \/ n >= pow2[l] PROVE u[n] = t[n]
  <2>1. n \in Nat
    BY <1>2
  <2>2. Pairs(n) = {}
    BY <1>1, <1>7, <1>9, <2>1
  <2> QED
    BY <1>4, <2>2
<1>10. IsTree(u, h)
  BY <1>4 DEF IsTree, IsVector
<1> QED
  BY <1>8, <1>9, <1>10 DEF w, u

(* The recursion of update is well defined.                                *)
IsUpdate(a, t, h, batched) ==
    a = [layer \in 0 .. h |->
            IF layer = h THEN t ELSE UpdateLayer(a[layer + 1], layer + 1, batched)]

(* The layers of update() are well defined, by induction from the leaves.  *)
LEMMA UpdateExists ==
    ASSUME NEW h \in Nat, NEW t, NEW batched PROVE \E a : IsUpdate(a, t, h, batched)
<1> DEFINE Good(a, k) == a = [layer \in h - k .. h |->
                                 IF layer = h THEN t ELSE UpdateLayer(a[layer + 1], layer + 1, batched)]
           A == {k \in Nat : k <= h => \E a : Good(a, k)}
<1>1. 0 \in A /\ A \in SUBSET Nat
  <2> DEFINE a == [layer \in h - 0 .. h |-> t]
  <2>1. Good(a, 0)
    <3>1. h - 0 .. h = {h}
      OBVIOUS
    <3> QED
      BY <3>1
  <2>2. \E b : Good(b, 0)
    BY <2>1
  <2> HIDE DEF Good
  <2> QED
    BY <2>2
<1>2. ASSUME NEW k \in A PROVE k + 1 \in A
  <2> SUFFICES ASSUME k + 1 <= h PROVE \E a : Good(a, k + 1)
    OBVIOUS
  <2>1. PICK a : Good(a, k)
    OBVIOUS
  <2> DEFINE b == [layer \in h - (k + 1) .. h |->
                      IF layer = h - (k + 1) THEN UpdateLayer(a[layer + 1], layer + 1, batched)
                      ELSE a[layer]]
  <2>2. ASSUME NEW layer \in h - (k + 1) .. h
        PROVE  b[layer] = IF layer = h THEN t ELSE UpdateLayer(b[layer + 1], layer + 1, batched)
    <3>1. CASE layer = h - (k + 1)
      <4>1. layer + 1 \in h - k .. h /\ layer + 1 \in h - (k + 1) .. h /\ layer # h /\ layer + 1 # h - (k + 1)
        BY <3>1
      <4>2. b[layer + 1] = a[layer + 1]
        BY <4>1
      <4> QED
        BY <3>1, <4>1, <4>2
    <3>2. CASE layer # h - (k + 1)
      <4>1. layer \in h - k .. h /\ layer # h => layer + 1 \in h - k .. h /\ layer + 1 # h - (k + 1) /\ layer + 1 \in h - (k + 1) .. h
        BY <3>2
      <4>2. layer # h => b[layer + 1] = a[layer + 1]
        BY <4>1, <3>2
      <4>3. a[layer] = IF layer = h THEN t ELSE UpdateLayer(a[layer + 1], layer + 1, batched)
        BY <2>1, <3>2
      <4> QED
        BY <3>2, <4>2, <4>3
    <3> QED
      BY <3>1, <3>2
  <2>3. Good(b, k + 1)
    <3>1. b = [layer \in h - (k + 1) .. h |-> b[layer]]
      OBVIOUS
    <3> HIDE DEF b
    <3> QED
      BY <2>2, <3>1, Zenon
  <2> HIDE DEF Good
  <2> QED
    BY <2>3
<1>3. A = Nat
  <2> HIDE DEF A
  <2> QED
    BY <1>1, <1>2, Induction
<1>4. h - h = 0
  OBVIOUS
<1>5. \E a : Good(a, h)
  <2> HIDE DEF Good
  <2> QED
    BY <1>3
<1>6. PICK a : Good(a, h)
  BY <1>5
<1>7. IsUpdate(a, t, h, batched)
  BY <1>4, <1>6 DEF IsUpdate
<1> QED
  BY <1>7

(* The heap of digests of a tree of height h.                              *)
IsHeap(u, h) == \A n \in 1 .. pow2[h] - 1 : u[n] = Digest2(u[2 * n], u[2 * n + 1])

(* update() makes a heap of any tree without touching its leaves.          *)
LEMMA UpdateFacts ==
    ASSUME NEW h \in Nat, NEW t, IsTree(t, h), NEW batched \in BOOLEAN, batched => h <= 1
    PROVE  LET u == update(t, batched)
           IN  /\ IsTree(u, h) /\ IsHeap(u, h)
               /\ \A n \in pow2[h] .. pow2[h + 1] - 1 : u[n] = t[n]
<1>1. PICK a : IsUpdate(a, t, h, batched) /\ update(t, batched) = a[0]
  <2>1. tree_height(t) = h
    BY TreeFacts
  <2>2. update(t, batched) = (CHOOSE a : IsUpdate(a, t, h, batched))[0]
    BY <2>1, Zenon DEF update, IsUpdate
  <2> QED
    BY <2>2, UpdateExists, Zenon
<1> DEFINE Done(u, l) ==
               /\ IsTree(u, h)
               /\ \A n \in pow2[l] .. pow2[h] - 1 : u[n] = Digest2(u[2 * n], u[2 * n + 1])
               /\ \A n \in pow2[h] .. pow2[h + 1] - 1 : u[n] = t[n]
           A == {k \in Nat : k <= h => Done(a[h - k], h - k)}
<1>2. 0 \in A /\ A \in SUBSET Nat
  <2>1. a[h] = t /\ h - 0 = h
    BY <1>1 DEF IsUpdate
  <2>2. Done(t, h)
    BY Pow2Facts
  <2> HIDE DEF Done
  <2> QED
    BY <2>1, <2>2
<1>3. ASSUME NEW k \in A PROVE k + 1 \in A
  <2> SUFFICES ASSUME k + 1 <= h PROVE Done(a[h - (k + 1)], h - (k + 1))
    OBVIOUS
  <2> DEFINE l == h - k
             v == a[l]
             u == a[l - 1]
  <2>1. l \in 1 .. h /\ l - 1 = h - (k + 1) /\ l - 1 \in 0 .. h /\ l - 1 # h /\ (l - 1) + 1 = l
    OBVIOUS
  <2>2. Done(v, l)
    OBVIOUS
  <2>3. u = UpdateLayer(v, l, batched)
    BY <1>1, <2>1 DEF IsUpdate
  <2> HIDE DEF l, v, u
  <2>4. batched => l = 1
    BY <2>1
  <2>5. /\ IsTree(u, h)
        /\ \A n \in pow2[l - 1] .. pow2[l] - 1 : u[n] = Digest2(v[2 * n], v[2 * n + 1])
        /\ \A n \in 1 .. pow2[h + 1] - 1 : n < pow2[l - 1] \/ n >= pow2[l] => u[n] = v[n]
    BY <2>1, <2>2, <2>3, <2>4, UpdateLayerFacts
  <2>6. /\ pow2[l - 1] \in Nat /\ pow2[l - 1] > 0 /\ pow2[l] = 2 * pow2[l - 1]
        /\ pow2[l] \in Nat /\ pow2[h] \in Nat /\ pow2[h + 1] = 2 * pow2[h] /\ pow2[l] <= pow2[h]
    <3>1. l - 1 \in Nat /\ (l - 1) + 1 = l /\ l \in Nat /\ l <= h
      BY <2>1
    <3> QED
      BY <3>1, Pow2Facts, Pow2Monotone
  <2>7. \A n \in pow2[h] .. pow2[h + 1] - 1 : u[n] = t[n]
    BY <2>2, <2>5, <2>6
  <2>8. ASSUME NEW n \in pow2[l - 1] .. pow2[h] - 1 PROVE u[n] = Digest2(u[2 * n], u[2 * n + 1])
    <3>1. 2 * n \in 1 .. pow2[h + 1] - 1 /\ 2 * n + 1 \in 1 .. pow2[h + 1] - 1 /\ 2 * n >= pow2[l] /\ 2 * n + 1 >= pow2[l]
      BY <2>6
    <3>2. u[2 * n] = v[2 * n] /\ u[2 * n + 1] = v[2 * n + 1]
      BY <2>5, <3>1
    <3>3. CASE n < pow2[l]
      <4>1. n \in pow2[l - 1] .. pow2[l] - 1
        BY <3>3, <2>6
      <4> QED
        BY <2>5, <3>2, <4>1
    <3>4. CASE n >= pow2[l]
      <4>1. n \in pow2[l] .. pow2[h] - 1 /\ n \in 1 .. pow2[h + 1] - 1
        BY <3>4, <2>6
      <4> QED
        BY <2>2, <2>5, <3>2, <3>4, <4>1
    <3> QED
      BY <3>3, <3>4, <2>6
  <2>9. Done(u, l - 1)
    BY <2>5, <2>7, <2>8
  <2> HIDE DEF Done
  <2> QED
    BY <2>1, <2>9 DEF u
<1>4. A = Nat
  <2> HIDE DEF A
  <2> QED
    BY <1>2, <1>3, Induction
<1>5. h - h = 0
  OBVIOUS
<1>6. Done(a[0], 0)
  <2> HIDE DEF Done
  <2> QED
    BY <1>4, <1>5
<1> QED
  BY <1>1, <1>6, Pow2Facts DEF IsHeap

(* Two heaps with the same root have the same nodes everywhere: a root     *)
(* determines the leaves.                                                  *)
LEMMA RootDeterminesHeap ==
    ASSUME NEW h \in Nat, NEW u, NEW v, IsHeap(u, h), IsHeap(v, h), u[1] = v[1]
    PROVE  \A n \in 1 .. pow2[h + 1] - 1 : u[n] = v[n]
<1>1. pow2[h] \in Nat /\ pow2[h + 1] = 2 * pow2[h]
  BY Pow2Facts
<1> DEFINE A == {m \in Nat : \A n \in 1 .. m : n < pow2[h + 1] => u[n] = v[n]}
<1>2. 0 \in A /\ A \in SUBSET Nat
  OBVIOUS
<1>3. ASSUME NEW m \in A PROVE m + 1 \in A
  <2> SUFFICES ASSUME m + 1 < pow2[h + 1] PROVE u[m + 1] = v[m + 1]
    OBVIOUS
  <2>1. CASE m = 0
    BY <2>1
  <2>2. CASE m > 0
    <3>1. PICK n \in 1 .. m : m + 1 = 2 * n \/ m + 1 = 2 * n + 1
      <4>1. m + 1 = 2 * ((m + 1) \div 2) \/ m + 1 = 2 * ((m + 1) \div 2) + 1
        OBVIOUS
      <4>2. (m + 1) \div 2 \in 1 .. m
        BY <2>2
      <4> QED
        BY <4>1, <4>2
    <3>2. n \in 1 .. pow2[h] - 1 /\ u[n] = v[n]
      BY <1>1, <3>1
    <3>3. Digest2(u[2 * n], u[2 * n + 1]) = Digest2(v[2 * n], v[2 * n + 1])
      BY <3>2 DEF IsHeap
    <3>4. u[2 * n] = v[2 * n] /\ u[2 * n + 1] = v[2 * n + 1]
      BY <3>3 DEF Digest2
    <3> QED
      BY <3>1, <3>4
  <2> QED
    BY <2>1, <2>2
<1>4. A = Nat
  <2> HIDE DEF A
  <2> QED
    BY <1>2, <1>3, Induction
<1>5. pow2[h + 1] - 1 \in A
  <2>1. pow2[h + 1] - 1 \in Nat
    BY <1>1, Pow2Facts
  <2> HIDE DEF A
  <2> QED
    BY <1>4, <2>1
<1> QED
  BY <1>1, <1>5

(* The leaves determine the heap.                                          *)
LEMMA LeavesDetermineHeap ==
    ASSUME NEW h \in Nat, NEW u, NEW v, IsHeap(u, h), IsHeap(v, h),
           \A n \in pow2[h] .. pow2[h + 1] - 1 : u[n] = v[n]
    PROVE  \A n \in 1 .. pow2[h + 1] - 1 : u[n] = v[n]
<1>1. pow2[h] \in Nat /\ pow2[h] > 0 /\ pow2[h + 1] = 2 * pow2[h]
  BY Pow2Facts
<1> DEFINE A == {m \in Nat : \A n \in 1 .. pow2[h + 1] - 1 : n >= pow2[h] - m => u[n] = v[n]}
<1>2. 0 \in A /\ A \in SUBSET Nat
  BY <1>1
<1>3. ASSUME NEW m \in A PROVE m + 1 \in A
  <2> SUFFICES ASSUME NEW n \in 1 .. pow2[h + 1] - 1, n >= pow2[h] - (m + 1) PROVE u[n] = v[n]
    OBVIOUS
  <2>1. CASE n >= pow2[h] - m
    BY <2>1
  <2>2. CASE n < pow2[h] - m
    <3>1. n \in 1 .. pow2[h] - 1 /\ n = pow2[h] - (m + 1)
      BY <1>1, <2>2
    <3>2. 2 * n \in 1 .. pow2[h + 1] - 1 /\ 2 * n + 1 \in 1 .. pow2[h + 1] - 1
      BY <1>1, <3>1
    <3>3. 2 * n >= pow2[h] - m /\ 2 * n + 1 >= pow2[h] - m
      BY <1>1, <3>1
    <3>4. u[2 * n] = v[2 * n] /\ u[2 * n + 1] = v[2 * n + 1]
      BY <3>2, <3>3
    <3> QED
      BY <3>1, <3>4 DEF IsHeap
  <2> QED
    BY <1>1, <2>1, <2>2
<1>4. A = Nat
  <2> HIDE DEF A
  <2> QED
    BY <1>2, <1>3, Induction
<1>5. pow2[h] \in A
  <2> HIDE DEF A
  <2> QED
    BY <1>1, <1>4
<1> QED
  BY <1>1, <1>5

(* The leaves of a balanced tree: zero digests behind the given ones.      *)
Balanced(leaves, h) == [i \in 1 .. pow2[h] |-> IF i <= Len(leaves) THEN leaves[i] ELSE ZeroHash]

(* The recursion of MerkleLevels is well defined.                          *)
Row(r, width) == [i \in 1 .. width |-> Digest2(r[2 * i - 1], r[2 * i])]
AreLevels(f, base, h) ==
    f = [k \in 0 .. h |-> IF k = 0 THEN base ELSE Row(f[k - 1], pow2[h - k])]

(* So are the levels of the reference.                                     *)
LEMMA LevelsExist ==
    ASSUME NEW h \in Nat, NEW base PROVE \E f : AreLevels(f, base, h)
<1> DEFINE Good(f, m) == f = [k \in 0 .. m |-> IF k = 0 THEN base ELSE Row(f[k - 1], pow2[h - k])]
           A == {m \in Nat : \E f : Good(f, m)}
<1>1. 0 \in A /\ A \in SUBSET Nat
  <2> DEFINE f == [k \in 0 .. 0 |-> base]
  <2>1. Good(f, 0)
    <3>1. 0 .. 0 = {0}
      OBVIOUS
    <3> QED
      BY <3>1
  <2>2. \E b : Good(b, 0)
    BY <2>1
  <2> HIDE DEF Good
  <2> QED
    BY <2>2
<1>2. ASSUME NEW m \in A PROVE m + 1 \in A
  <2>1. PICK f : Good(f, m)
    OBVIOUS
  <2> DEFINE g == [k \in 0 .. m + 1 |-> IF k = m + 1 THEN Row(f[m], pow2[h - (m + 1)]) ELSE f[k]]
  <2>2. ASSUME NEW k \in 0 .. m + 1
        PROVE  g[k] = IF k = 0 THEN base ELSE Row(g[k - 1], pow2[h - k])
    <3>1. CASE k = m + 1
      <4>1. k # 0 /\ k - 1 = m /\ m \in 0 .. m + 1 /\ m # m + 1
        BY <3>1
      <4>2. g[k - 1] = f[m]
        BY <4>1
      <4> QED
        BY <3>1, <4>1, <4>2
    <3>2. CASE k # m + 1
      <4>1. k \in 0 .. m /\ (k # 0 => k - 1 \in 0 .. m + 1 /\ k - 1 # m + 1)
        BY <3>2
      <4>2. k # 0 => g[k - 1] = f[k - 1]
        BY <4>1
      <4>3. f[k] = IF k = 0 THEN base ELSE Row(f[k - 1], pow2[h - k])
        BY <2>1, <4>1
      <4> QED
        BY <3>2, <4>2, <4>3
    <3> QED
      BY <3>1, <3>2
  <2>3. Good(g, m + 1)
    <3>1. g = [k \in 0 .. m + 1 |-> g[k]]
      OBVIOUS
    <3> HIDE DEF g
    <3> QED
      BY <2>2, <3>1, Zenon
  <2>4. \E b : Good(b, m + 1)
    BY <2>3
  <2> HIDE DEF Good
  <2> QED
    BY <2>4
<1>3. A = Nat
  <2> HIDE DEF A
  <2> QED
    BY <1>1, <1>2, Induction
<1>4. \E f : Good(f, h)
  <2> HIDE DEF Good
  <2> QED
    BY <1>3
<1> QED
  BY <1>4 DEF AreLevels

(* The levels of the reference, by their defining equation.                *)
LEMMA LevelsFacts ==
    ASSUME NEW leaves, Len(leaves) \in Nat \ {0}
    PROVE  LET h == log2_ceil(Len(leaves))
               f == MerkleLevels(leaves)
           IN  /\ DOMAIN f = 0 .. h
               /\ f[0] = Balanced(leaves, h)
               /\ \A k \in 1 .. h : f[k] = Row(f[k - 1], pow2[h - k])
<1> DEFINE h == log2_ceil(Len(leaves))
           f == MerkleLevels(leaves)
           base == Balanced(leaves, h)
<1>1. h \in Nat
  BY Log2Ceil
<1>2. f = CHOOSE g : AreLevels(g, base, h)
  BY Zenon DEF MerkleLevels, Balanced, AreLevels, Row
<1> HIDE DEF h, f, base
<1>3. AreLevels(f, base, h)
  BY <1>1, <1>2, LevelsExist, Zenon
<1>4. DOMAIN f = 0 .. h /\ f[0] = base
  BY <1>1, <1>3 DEF AreLevels
<1>5. ASSUME NEW k \in 1 .. h PROVE f[k] = Row(f[k - 1], pow2[h - k])
  <2>1. k \in 0 .. h /\ k # 0
    BY <1>1
  <2> QED
    BY <1>3, <2>1 DEF AreLevels
<1> QED
  BY <1>4, <1>5 DEF h, f, base

(* A heap over the balanced leaves holds the levels of the reference.      *)
LEMMA HeapHoldsLevels ==
    ASSUME NEW leaves, Len(leaves) \in Nat \ {0},
           NEW h, h = log2_ceil(Len(leaves)),
           NEW u, IsHeap(u, h),
           \A i \in 1 .. pow2[h] : u[pow2[h] + i - 1] = Balanced(leaves, h)[i]
    PROVE  \A k \in 0 .. h : \A i \in 1 .. pow2[h - k] :
               MerkleLevels(leaves)[k][i] = u[pow2[h - k] + i - 1]
<1> DEFINE f == MerkleLevels(leaves)
           A == {k \in Nat : k <= h => \A i \in 1 .. pow2[h - k] : f[k][i] = u[pow2[h - k] + i - 1]}
<1>1. h \in Nat
  BY Log2Ceil
<1>2. f[0] = Balanced(leaves, h) /\ \A k \in 1 .. h : f[k] = Row(f[k - 1], pow2[h - k])
  BY LevelsFacts
<1> HIDE DEF f
<1>3. 0 \in A /\ A \in SUBSET Nat
  <2>1. h - 0 = h
    BY <1>1
  <2> QED
    BY <1>2, <2>1
<1>4. ASSUME NEW k \in A PROVE k + 1 \in A
  <2> SUFFICES ASSUME k + 1 <= h, NEW i \in 1 .. pow2[h - (k + 1)]
               PROVE  f[k + 1][i] = u[pow2[h - (k + 1)] + i - 1]
    OBVIOUS
  <2> DEFINE w == pow2[h - (k + 1)]
  <2>1. h - (k + 1) \in Nat /\ h - k \in Nat /\ h - (k + 1) + 1 = h - k /\ h - k <= h /\ h - (k + 1) < h
    BY <1>1
  <2>2. w \in Nat /\ w > 0 /\ pow2[h - k] = 2 * w /\ 2 * w <= pow2[h] /\ pow2[h] \in Nat
    <3>1. w \in Nat /\ w > 0 /\ pow2[h - (k + 1) + 1] = 2 * w /\ pow2[h] \in Nat
      BY <1>1, <2>1, Pow2Facts
    <3>2. 2 * w <= pow2[h]
      BY <1>1, <2>1, Pow2Monotone
    <3> QED
      BY <2>1, <3>1, <3>2
  <2> HIDE DEF w
  <2>3. f[k + 1] = Row(f[k], w)
    <3>1. k + 1 \in 1 .. h /\ (k + 1) - 1 = k
      BY <1>1
    <3> QED
      BY <1>2, <3>1 DEF w
  <2>4. i \in 1 .. w
    BY DEF w
  <2>5. f[k + 1][i] = Digest2(f[k][2 * i - 1], f[k][2 * i])
    BY <2>3, <2>4 DEF Row
  <2>6. f[k][2 * i - 1] = u[2 * (w + i - 1)] /\ f[k][2 * i] = u[2 * (w + i - 1) + 1]
    <3>1. /\ 2 * i - 1 \in 1 .. pow2[h - k] /\ 2 * i \in 1 .. pow2[h - k]
          /\ pow2[h - k] + (2 * i - 1) - 1 = 2 * (w + i - 1)
          /\ pow2[h - k] + 2 * i - 1 = 2 * (w + i - 1) + 1
      BY <2>2, <2>4, SMTT(30)
    <3>2. \A j \in 1 .. pow2[h - k] : f[k][j] = u[pow2[h - k] + j - 1]
      <4>1. k <= h
        BY <1>1
      <4> QED
        BY <4>1
    <3> QED
      BY <3>1, <3>2
  <2>7. w + i - 1 \in 1 .. pow2[h] - 1
    BY <2>2, <2>4
  <2>8. u[w + i - 1] = Digest2(u[2 * (w + i - 1)], u[2 * (w + i - 1) + 1])
    BY <2>7 DEF IsHeap
  <2> QED
    BY <2>5, <2>6, <2>8 DEF w
<1>5. A = Nat
  <2> HIDE DEF A
  <2> QED
    BY <1>3, <1>4, Induction
<1> QED
  BY <1>1, <1>5 DEF f

(* The layer of the given width of a heap.                                 *)
LayerOf(u, width) == [i \in 1 .. width |-> u[width + i - 1]]

(* A run of elements of a sequence.                                        *)
LEMMA LayerIsSubSeq ==
    ASSUME NEW S, NEW u \in Seq(S), NEW w \in Nat \ {0}, 2 * w - 1 <= Len(u),
           NEW a, NEW b, a = w, b = 2 * w - 1
    PROVE  SubSeq(u, a, b) = LayerOf(u, w)
<1>1. SubSeq(u, a, b) = [i \in 1 .. w |-> u[w + i - 1]]
  OBVIOUS
<1> QED
  BY <1>1, Zenon DEF LayerOf

(* get_layer is that layer.                                                *)
LEMMA GetLayerFacts ==
    ASSUME NEW h \in Nat, NEW u, IsTree(u, h), NEW d \in 0 .. h
    PROVE  get_layer(u, d) = LayerOf(u, pow2[d])
<1>1. pow2[d] \in Nat /\ pow2[d] > 0 /\ 2 * pow2[d] <= pow2[h + 1] /\ pow2[h + 1] \in Nat
  BY Pow2Facts, Pow2Monotone
<1>2. get_flat_index(d, 0) + 1 = pow2[d] /\ get_flat_index(d, 0) + nodes_in_layer(d) = 2 * pow2[d] - 1
  BY <1>1 DEF get_flat_index, nodes_in_layer
<1>3. PICK S : u \in Seq(S)
  BY <1>1, TreeFacts, VectorFacts DEF IsTree
<1>4. Len(u) = pow2[h + 1] - 1
  BY TreeFacts
<1>5. pow2[d] \in Nat \ {0} /\ 2 * pow2[d] - 1 <= Len(u)
  BY <1>1, <1>4
<1>6. SubSeq(u, get_flat_index(d, 0) + 1, get_flat_index(d, 0) + nodes_in_layer(d)) = LayerOf(u, pow2[d])
  BY <1>2, <1>3, <1>5, LayerIsSubSeq
<1> QED
  BY <1>6, Zenon DEF get_layer

(* merkle_tree::update over any leaves: the root is the Merkle root and    *)
(* every layer the reference's level, whatever the inner nodes held before *)
(* - so that a second update after a late leaf is right as well.  The      *)
(* batched update is right for trees of at most two leaves.                *)
THEOREM UpdateIsMerkleTree ==
    ASSUME NEW leaves, Len(leaves) \in Nat \ {0},
           NEW h, h = log2_ceil(Len(leaves)),
           NEW t, IsTree(t, h), NEW batched \in BOOLEAN, batched => h <= 1,
           \A i \in 1 .. pow2[h] : t[pow2[h] + i - 1] = Balanced(leaves, h)[i]
    PROVE  LET u == update(t, batched)
           IN  /\ root(u) = MerkleRoot(leaves)
               /\ \A k \in 0 .. h : get_layer(u, h - k) = MerkleLevels(leaves)[k]
<1> DEFINE u == update(t, batched)
           f == MerkleLevels(leaves)
<1>1. h \in Nat
  BY Log2Ceil
<1>2. IsTree(u, h) /\ IsHeap(u, h) /\ \A n \in pow2[h] .. pow2[h + 1] - 1 : u[n] = t[n]
  BY <1>1, UpdateFacts
<1>3. pow2[h] \in Nat /\ pow2[h + 1] = 2 * pow2[h] /\ pow2[0] = 1
  BY <1>1, Pow2Facts
<1> HIDE DEF u
<1>4. \A i \in 1 .. pow2[h] : u[pow2[h] + i - 1] = Balanced(leaves, h)[i]
  <2>1. \A i \in 1 .. pow2[h] : pow2[h] + i - 1 \in pow2[h] .. pow2[h + 1] - 1
    BY <1>3
  <2> QED
    BY <1>2, <2>1
<1>5. \A k \in 0 .. h : \A i \in 1 .. pow2[h - k] : f[k][i] = u[pow2[h - k] + i - 1]
  BY <1>2, <1>4, HeapHoldsLevels
<1>6. \A k \in 0 .. h : f[k] = [i \in 1 .. pow2[h - k] |-> f[k][i]]
  <2>1. /\ f[0] = Balanced(leaves, h)
        /\ \A k \in 1 .. h : f[k] = Row(f[k - 1], pow2[h - k])
    BY LevelsFacts
  <2> HIDE DEF f
  <2> SUFFICES ASSUME NEW k \in 0 .. h PROVE f[k] = [i \in 1 .. pow2[h - k] |-> f[k][i]]
    OBVIOUS
  <2>3. CASE k = 0
    <3>1. f[0] = [i \in 1 .. pow2[h] |-> f[0][i]] /\ h - 0 = h
      BY <1>1, <2>1 DEF Balanced
    <3> QED
      BY <2>3, <3>1
  <2>4. CASE k # 0
    <3>1. f[k] = Row(f[k - 1], pow2[h - k])
      BY <1>1, <2>1, <2>4
    <3> QED
      BY <3>1 DEF Row
  <2> QED
    BY <2>3, <2>4
<1> HIDE DEF f
<1>7. ASSUME NEW k \in 0 .. h PROVE get_layer(u, h - k) = f[k]
  <2>1. h - k \in 0 .. h
    BY <1>1
  <2>2. get_layer(u, h - k) = LayerOf(u, pow2[h - k])
    BY <1>1, <1>2, <2>1, GetLayerFacts
  <2> QED
    BY <1>5, <1>6, <2>2 DEF LayerOf
<1>8. root(u) = f[h][1]
  <2>1. h \in 0 .. h /\ h - h = 0 /\ 1 \in 1 .. pow2[0] /\ pow2[0] + 1 - 1 = 1
    BY <1>1, <1>3
  <2>2. f[h][1] = u[1]
    BY <1>5, <2>1
  <2> QED
    BY <2>2 DEF root
<1> QED
  BY <1>7, <1>8 DEF MerkleRoot, u, f

(* A new tree.                                                             *)
LEMMA SetLeafNodesFacts ==
    ASSUME NEW m \in Nat
    PROVE  LET h == IF m # 0 THEN log2_ceil(m) ELSE 1
           IN  /\ h \in Nat /\ m <= pow2[h]
               /\ IsTree(set_leaf_nodes(m), h)
               /\ \A n \in 1 .. pow2[h + 1] - 1 : set_leaf_nodes(m)[n] = ZeroHash
<1> DEFINE h == IF m # 0 THEN log2_ceil(m) ELSE 1
<1>1. h \in Nat /\ m <= pow2[h]
  BY Log2Ceil, Pow2Facts
<1>2. set_leaf_nodes(m) = [n \in 1 .. pow2[h + 1] - 1 |-> ZeroHash]
  BY DEF set_leaf_nodes, total_node_count_for_height
<1> HIDE DEF h
<1>3. /\ IsTree(set_leaf_nodes(m), h)
      /\ \A n \in 1 .. pow2[h + 1] - 1 : set_leaf_nodes(m)[n] = ZeroHash
  BY <1>2 DEF IsTree, IsVector
<1> QED
  BY <1>1, <1>3 DEF h

(* set_leaf changes one node of the last layer.                            *)
LEMMA SetLeafFacts ==
    ASSUME NEW h \in Nat, NEW t, IsTree(t, h), NEW j \in Nat, NEW value
    PROVE  /\ CanSetLeaf(t, j) <=> j < pow2[h]
           /\ CanSetLeaf(t, j) =>
                  /\ IsTree(set_leaf(t, j, value), h)
                  /\ \A n \in 1 .. pow2[h + 1] - 1 :
                         set_leaf(t, j, value)[n] = IF n = pow2[h] + j THEN value ELSE t[n]
<1>1. tree_height(t) = h /\ DOMAIN t = 1 .. pow2[h + 1] - 1
  BY TreeFacts
<1>2. CanSetLeaf(t, j) <=> j < pow2[h]
  BY <1>1 DEF CanSetLeaf, nodes_in_layer
<1>3. pow2[h] \in Nat /\ pow2[h] > 0 /\ pow2[h + 1] = 2 * pow2[h]
  BY Pow2Facts
<1>4. get_flat_index(h, j) + 1 = pow2[h] + j
  BY <1>3 DEF get_flat_index
<1>5. set_leaf(t, j, value) = [n \in 1 .. pow2[h + 1] - 1 |-> IF n = pow2[h] + j THEN value ELSE t[n]]
  BY <1>1, <1>4 DEF set_leaf, IsTree, IsVector
<1> QED
  BY <1>2, <1>5 DEF IsTree, IsVector

(* Whatever a pass writes, the batched one included, is above the layer it *)
(* reads ...                                                               *)
LEMMA UpdateLayerKeeps ==
    ASSUME NEW h \in Nat, NEW t, IsTree(t, h), NEW l \in 1 .. h, NEW batched \in BOOLEAN
    PROVE  LET u == UpdateLayer(t, l, batched)
           IN  /\ IsTree(u, h)
               /\ \A n \in pow2[l] .. pow2[h + 1] - 1 : u[n] = t[n]
<1> DEFINE w == pow2[l - 1]
           Target(i) == parent(IF batched THEN 2 * i ELSE 2 * i + 1)
           Pairs(n) == {i \in 0 .. nodes_in_layer(l) \div 2 - 1 :
                            get_flat_index(l - 1, Target(i)) + 1 = n}
           Newest(S) == CHOOSE i \in S : \A j \in S : j <= i
           u == UpdateLayer(t, l, batched)
<1>1. w \in Nat /\ w > 0 /\ pow2[l] = 2 * w
  <2>1. l - 1 \in Nat /\ (l - 1) + 1 = l
    OBVIOUS
  <2> QED
    BY <2>1, Pow2Facts
<1>2. DOMAIN t = 1 .. pow2[h + 1] - 1 /\ pow2[h + 1] \in Nat
  BY TreeFacts, Pow2Facts, SMTT(30)
<1>3. u = [n \in 1 .. pow2[h + 1] - 1 |->
             IF Pairs(n) = {} THEN t[n]
             ELSE Digest2(get_node(t, l, 2 * Newest(Pairs(n))),
                          get_node(t, l, 2 * Newest(Pairs(n)) + 1))]
  BY <1>2 DEF UpdateLayer
<1>4. nodes_in_layer(l) \div 2 = w
  BY <1>1 DEF nodes_in_layer
<1>5. ASSUME NEW i \in 0 .. w - 1 PROVE Target(i) \in 0 .. w - 1
  <2>1. CASE ~batched
    BY <2>1 DEF parent
  <2>2. CASE batched /\ i = 0
    BY <2>2 DEF parent
  <2>3. CASE batched /\ i # 0
    <3>1. (2 * i - 1) \div 2 = i - 1 /\ 2 * i # 0
      BY <1>1, <2>3
    <3> QED
      BY <1>1, <2>3, <3>1 DEF parent
  <2> QED
    BY <2>1, <2>2, <2>3
<1>6. ASSUME NEW n \in Nat, n >= pow2[l] PROVE Pairs(n) = {}
  <2>1. \A i \in 0 .. w - 1 : get_flat_index(l - 1, Target(i)) + 1 = w + Target(i)
    <3> HIDE DEF Target
    <3> QED
      BY <1>1, <1>5 DEF get_flat_index
  <2> HIDE DEF Target
  <2> QED
    BY <1>1, <1>4, <1>5, <1>6, <2>1
<1> HIDE DEF Pairs, w, u
<1>7. ASSUME NEW n \in pow2[l] .. pow2[h + 1] - 1 PROVE u[n] = t[n]
  <2>1. n \in Nat /\ n >= pow2[l] /\ n \in 1 .. pow2[h + 1] - 1
    BY <1>1, <1>2
  <2> QED
    BY <1>3, <1>6, <2>1
<1>8. IsTree(u, h)
  BY <1>3 DEF IsTree, IsVector
<1> QED
  BY <1>7, <1>8 DEF u

(* ... so that update() keeps the leaves of any tree.                      *)
LEMMA UpdateKeepsLeaves ==
    ASSUME NEW h \in Nat, NEW t, IsTree(t, h), NEW batched \in BOOLEAN
    PROVE  LET u == update(t, batched)
           IN  IsTree(u, h) /\ \A n \in pow2[h] .. pow2[h + 1] - 1 : u[n] = t[n]
<1>1. PICK a : IsUpdate(a, t, h, batched) /\ update(t, batched) = a[0]
  <2>1. tree_height(t) = h
    BY TreeFacts
  <2>2. update(t, batched) = (CHOOSE a : IsUpdate(a, t, h, batched))[0]
    BY <2>1, Zenon DEF update, IsUpdate
  <2> QED
    BY <2>2, UpdateExists, Zenon
<1> DEFINE Kept(u) == IsTree(u, h) /\ \A n \in pow2[h] .. pow2[h + 1] - 1 : u[n] = t[n]
           A == {k \in Nat : k <= h => Kept(a[h - k])}
<1>2. 0 \in A /\ A \in SUBSET Nat
  <2>1. a[h] = t /\ h - 0 = h
    BY <1>1 DEF IsUpdate
  <2> QED
    BY <2>1
<1>3. ASSUME NEW k \in A PROVE k + 1 \in A
  <2> SUFFICES ASSUME k + 1 <= h PROVE Kept(a[h - (k + 1)])
    OBVIOUS
  <2> DEFINE l == h - k
             v == a[l]
             u == a[l - 1]
  <2>1. l \in 1 .. h /\ l - 1 = h - (k + 1) /\ l - 1 \in 0 .. h /\ l - 1 # h /\ (l - 1) + 1 = l
    OBVIOUS
  <2>2. Kept(v)
    OBVIOUS
  <2>3. u = UpdateLayer(v, l, batched)
    BY <1>1, <2>1 DEF IsUpdate
  <2> HIDE DEF l, v, u
  <2>4. IsTree(u, h) /\ \A n \in pow2[l] .. pow2[h + 1] - 1 : u[n] = v[n]
    BY <2>1, <2>2, <2>3, UpdateLayerKeeps
  <2>5. pow2[l] <= pow2[h] /\ pow2[l] \in Nat /\ pow2[h] \in Nat
    BY <2>1, Pow2Monotone, Pow2Facts
  <2>6. Kept(u)
    BY <2>2, <2>4, <2>5
  <2> HIDE DEF Kept
  <2> QED
    BY <2>1, <2>6 DEF u
<1>4. A = Nat
  <2> HIDE DEF A
  <2> QED
    BY <1>2, <1>3, Induction
<1>5. h - h = 0
  OBVIOUS
<1>6. Kept(a[0])
  <2> HIDE DEF Kept
  <2> QED
    BY <1>4, <1>5
<1> QED
  BY <1>1, <1>6

-----------------------------------------------------------------------------
(* Division rounds down.                                                   *)
LEMMA DivFacts ==
    ASSUME NEW x \in Nat, NEW y \in Nat \ {0}
    PROVE  /\ x \div y \in Nat
           /\ y * (x \div y) <= x /\ x < y * (x \div y) + y
           /\ x % y = 0 => y * (x \div y) = x
  OBVIOUS

(* Multiplication by a piece size is strictly monotone ...                 *)
LEMMA Monotone ==
    ASSUME NEW y \in Nat \ {0}, NEW a \in Int, NEW b \in Int, y * a < y * b
    PROVE  a < b
  OBVIOUS

(* ... and distributes.                                                    *)
LEMMA Distributes ==
    ASSUME NEW y \in Nat \ {0}, NEW a \in Int, NEW b \in Int
    PROVE  /\ y * a \in Int
           /\ y * (a + 1) = y * a + y /\ y * (a - 1) = y * a - y
           /\ y * (a + b) = y * a + y * b
  OBVIOUS

(* div_ceil rounds up.                                                     *)
LEMMA CeilFacts ==
    ASSUME NEW x \in Nat, NEW y \in Nat \ {0}
    PROVE  /\ div_ceil(x, y) \in Nat
           /\ x <= y * div_ceil(x, y) /\ y * div_ceil(x, y) < x + y
<1>1. x + y - 1 \in Nat
  OBVIOUS
<1>2. /\ div_ceil(x, y) \in Nat
      /\ y * div_ceil(x, y) <= x + y - 1 /\ x + y - 1 < y * div_ceil(x, y) + y
  BY <1>1, DivFacts DEF div_ceil
<1>3. y * div_ceil(x, y) \in Int
  BY <1>2, Distributes
<1> QED
  BY <1>2, <1>3

(* The k-th unit, from 0, is one of the units of n bytes.                  *)
LEMMA CeilBelow ==
    ASSUME NEW n \in Nat, NEW y \in Nat \ {0}, NEW k \in Nat
    PROVE  k * y < n <=> k < div_ceil(n, y)
<1> DEFINE b == div_ceil(n, y)
<1>1. b \in Nat /\ n <= y * b /\ y * b < n + y
  BY CeilFacts
<1> HIDE DEF b
<1>2. CASE k < b
  <2>1. b - (k + 1) \in Nat
    BY <1>1, <1>2
  <2>2. y * b = y * (k + 1) + y * (b - (k + 1)) /\ y * (b - (k + 1)) \in Nat /\ y * (k + 1) = k * y + y
        /\ k * y \in Nat
    BY <1>1, <2>1
  <2> QED
    BY <1>1, <1>2, <2>2 DEF b
<1>3. CASE k >= b
  <2>1. k - b \in Nat
    BY <1>1, <1>3
  <2>2. k * y = y * b + y * (k - b) /\ y * (k - b) \in Nat /\ y * b \in Nat
    BY <1>1, <2>1
  <2> QED
    BY <1>1, <1>3, <2>2 DEF b
<1> QED
  BY <1>1, <1>2, <1>3

(* k whole units are k units.                                              *)
LEMMA ExactCeil ==
    ASSUME NEW n \in Nat, NEW y \in Nat \ {0}, NEW k \in Nat, k * y = n
    PROVE  div_ceil(n, y) = k
<1> DEFINE q == div_ceil(n, y)
<1>1. q \in Nat /\ \A i \in Nat : i * y < n <=> i < q
  BY CeilFacts, CeilBelow
<1> HIDE DEF q
<1>2. ~(k < q)
  BY <1>1
<1>3. k # 0 => k - 1 < q
  <2> SUFFICES ASSUME k # 0 PROVE k - 1 < q
    OBVIOUS
  <2>1. k - 1 \in Nat /\ (k - 1) * y = n - y
    OBVIOUS
  <2> QED
    BY <1>1, <2>1
<1> QED
  BY <1>1, <1>2, <1>3 DEF q

(* A file of the given size behind offset bytes: the pieces counted from   *)
(* the one of its first byte, as many as the file would have at the        *)
(* beginning of a piece, end with the piece of its last byte or one before *)
(* it, and with that of its last byte if the file begins a piece.          *)
LEMMA SpanFacts ==
    ASSUME NEW offset \in Nat, NEW size \in Nat, NEW y \in Nat \ {0}
    PROVE  LET last == offset \div y + div_ceil(size, y)
               behind == div_ceil(offset + size, y)
           IN  /\ last \in {behind, behind - 1}
               /\ offset % y = 0 => last = behind
<1> DEFINE q == offset \div y
           k == div_ceil(size, y)
           behind == div_ceil(offset + size, y)
<1>1. /\ q \in Nat /\ y * q <= offset /\ offset < y * q + y
      /\ offset % y = 0 => y * q = offset
  BY DivFacts
<1>2. k \in Nat /\ size <= y * k /\ y * k < size + y
  BY CeilFacts
<1>3. /\ behind \in Nat /\ offset + size <= y * behind
      /\ y * behind < offset + size + y
  <2>1. offset + size \in Nat
    OBVIOUS
  <2> QED
    BY <2>1, CeilFacts
<1> HIDE DEF q, k, behind
<1>4. /\ y * q \in Int /\ y * k \in Int /\ y * behind \in Int
      /\ y * (q + k) = y * q + y * k
      /\ y * (behind + 1) = y * behind + y
      /\ y * (behind - 1) = y * behind - y
      /\ y * (behind - 2) = y * behind - 2 * y
  BY <1>1, <1>2, <1>3, Distributes
<1>5. q + k < behind + 1
  <2>1. y * (q + k) < y * (behind + 1)
    BY <1>1, <1>2, <1>3, <1>4
  <2> QED
    BY <1>1, <1>2, <1>3, <2>1, Monotone
<1>6. behind - 2 < q + k
  <2>1. y * (behind - 2) < y * (q + k)
    BY <1>1, <1>2, <1>3, <1>4
  <2> QED
    BY <1>1, <1>2, <1>3, <2>1, Monotone
<1>7. offset % y = 0 => behind - 1 < q + k
  <2> SUFFICES ASSUME offset % y = 0 PROVE behind - 1 < q + k
    OBVIOUS
  <2>1. y * (behind - 1) < y * (q + k)
    BY <1>1, <1>2, <1>3, <1>4
  <2> QED
    BY <1>1, <1>2, <1>3, <2>1, Monotone
<1>8. q + k \in {behind, behind - 1} /\ (offset % y = 0 => q + k = behind)
  BY <1>1, <1>2, <1>3, <1>5, <1>6, <1>7
<1> QED
  BY <1>8 DEF q, k, behind

(* get_pieces_offsets: of every file of every storage it names the piece   *)
(* of the first byte first, never a piece behind the file's last one, and  *)
(* misses at most the last one: none if the file begins a piece, as every  *)
(* file does once the storage is aligned.                                  *)
THEOREM PiecesOfFile ==
    ASSUME NEW s, NEW file_index \in Nat,
           s.piece_size_ \in Nat \ {0},
           s.files_[file_index + 1].file_size_ \in Nat,
           Total(SubSeq(Sizes(s.files_), 1, file_index)) \in Nat
    PROVE  LET offset == Total(SubSeq(Sizes(s.files_), 1, file_index))
               behind == div_ceil(offset + s.files_[file_index + 1].file_size_, s.piece_size_)
               span == get_pieces_offsets(s, file_index)
           IN  /\ s.piece_size_ * span.first <= offset
               /\ offset < s.piece_size_ * (span.first + 1)
               /\ span.last \in {behind, behind - 1}
               /\ offset % s.piece_size_ = 0 => span.last = behind
<1> DEFINE offset == Total(SubSeq(Sizes(s.files_), 1, file_index))
           size == s.files_[file_index + 1].file_size_
           y == s.piece_size_
           span == get_pieces_offsets(s, file_index)
<1>1. span.first = offset \div y /\ span.last = offset \div y + div_ceil(size, y)
  BY DEF get_pieces_offsets
<1>2. offset \in Nat /\ size \in Nat /\ y \in Nat \ {0}
  OBVIOUS
<1> HIDE DEF offset, size, y, span
<1>3. /\ y * span.first <= offset /\ offset < y * (span.first + 1)
  <2>1. /\ offset \div y \in Nat /\ y * (offset \div y) <= offset
        /\ offset < y * (offset \div y) + y
    BY <1>2, DivFacts
  <2>2. y * (offset \div y + 1) = y * (offset \div y) + y
    BY <1>2, <2>1, Distributes
  <2> QED
    BY <1>1, <2>1, <2>2
<1>4. /\ span.last \in {div_ceil(offset + size, y), div_ceil(offset + size, y) - 1}
      /\ offset % y = 0 => span.last = div_ceil(offset + size, y)
  <2>1. /\ offset \div y + div_ceil(size, y)
           \in {div_ceil(offset + size, y), div_ceil(offset + size, y) - 1}
        /\ offset % y = 0 => offset \div y + div_ceil(size, y) = div_ceil(offset + size, y)
    BY ONLY <1>2, SpanFacts
  <2> QED
    BY <1>1, <2>1
<1> QED
  BY <1>3, <1>4 DEF offset, size, y, span

-----------------------------------------------------------------------------
IsFlat(f, seqs) == f = [i \in 1 .. Len(seqs) |-> IF i = 1 THEN seqs[i] ELSE f[i - 1] \o seqs[i]]

(* FlattenSeq joins the sequences one after the other.                     *)
LEMMA FlattenExists ==
    ASSUME NEW seqs, Len(seqs) \in Nat PROVE \E f : IsFlat(f, seqs)
<1> DEFINE Good(f, m) == f = [i \in 1 .. m |-> IF i = 1 THEN seqs[i] ELSE f[i - 1] \o seqs[i]]
           A == {m \in Nat : \E f : Good(f, m)}
<1>1. 0 \in A /\ A \in SUBSET Nat
  <2>1. Good(<<>>, 0)
    OBVIOUS
  <2>2. \E b : Good(b, 0)
    BY <2>1
  <2> HIDE DEF Good
  <2> QED
    BY <2>2
<1>2. ASSUME NEW m \in A PROVE m + 1 \in A
  <2>1. PICK f : Good(f, m)
    OBVIOUS
  <2> DEFINE g == [i \in 1 .. m + 1 |-> IF i <= m THEN f[i] ELSE IF i = 1 THEN seqs[i] ELSE f[i - 1] \o seqs[i]]
  <2>2. ASSUME NEW i \in 1 .. m + 1
        PROVE  g[i] = IF i = 1 THEN seqs[i] ELSE g[i - 1] \o seqs[i]
    <3>1. i # 1 => i - 1 \in 1 .. m /\ i - 1 \in 1 .. m + 1 /\ i - 1 <= m
      OBVIOUS
    <3>2. i # 1 => g[i - 1] = f[i - 1]
      BY <3>1
    <3>3. CASE i <= m
      <4>1. i \in 1 .. m
        BY <3>3
      <4> QED
        BY <2>1, <3>2, <3>3, <4>1
    <3>4. CASE ~(i <= m)
      BY <3>2, <3>4
    <3> QED
      BY <3>3, <3>4
  <2>3. Good(g, m + 1)
    <3>1. g = [i \in 1 .. m + 1 |-> g[i]]
      OBVIOUS
    <3> HIDE DEF g
    <3> QED
      BY <2>2, <3>1, Zenon
  <2>4. \E b : Good(b, m + 1)
    BY <2>3
  <2> HIDE DEF Good
  <2> QED
    BY <2>4
<1>3. A = Nat
  <2> HIDE DEF A
  <2> QED
    BY <1>1, <1>2, Induction
<1>4. \E f : Good(f, Len(seqs))
  <2> HIDE DEF Good
  <2> QED
    BY <1>3
<1> QED
  BY <1>4 DEF IsFlat

(* FlattenSeq is the last of these concatenations.                         *)
LEMMA FlattenFacts ==
    ASSUME NEW seqs, Len(seqs) \in Nat \ {0}
    PROVE  \E f : IsFlat(f, seqs) /\ FlattenSeq(seqs) = f[Len(seqs)]
<1>1. FlattenSeq(seqs) = (CHOOSE f : IsFlat(f, seqs))[Len(seqs)]
  <2>1. ~(Len(seqs) = 0)
    OBVIOUS
  <2> QED
    BY <2>1, Zenon DEF FlattenSeq, IsFlat
<1>2. \E f : IsFlat(f, seqs)
  BY FlattenExists
<1> QED
  BY <1>1, <1>2, Zenon

(* Flattening sequences over a set gives a sequence over that set.         *)
LEMMA FlattenType ==
    ASSUME NEW S, NEW seqs \in Seq(Seq(S)) PROVE FlattenSeq(seqs) \in Seq(S)
<1>1. CASE Len(seqs) = 0
  <2>1. seqs = <<>>
    BY <1>1
  <2>2. FlattenSeq(seqs) = seqs
    BY <1>1 DEF FlattenSeq
  <2>3. <<>> \in Seq(S)
    OBVIOUS
  <2> QED
    BY <2>1, <2>2, <2>3, Zenon
<1>2. CASE Len(seqs) # 0
  <2>1. Len(seqs) \in Nat \ {0}
    BY <1>2
  <2>2. PICK f : IsFlat(f, seqs) /\ FlattenSeq(seqs) = f[Len(seqs)]
    BY <2>1, FlattenFacts
  <2> DEFINE A == {m \in Nat : m > 0 /\ m <= Len(seqs) => f[m] \in Seq(S)}
  <2>3. 0 \in A /\ A \in SUBSET Nat
    OBVIOUS
  <2>4. ASSUME NEW m \in A PROVE m + 1 \in A
    <3> SUFFICES ASSUME m + 1 <= Len(seqs) PROVE f[m + 1] \in Seq(S)
      OBVIOUS
    <3>1. m + 1 \in 1 .. Len(seqs) /\ (m + 1) - 1 = m
      OBVIOUS
    <3>2. seqs[m + 1] \in Seq(S)
      BY <3>1
    <3>3. CASE m = 0
      <4>1. f[m + 1] = seqs[m + 1]
        BY <2>2, <3>1, <3>3 DEF IsFlat
      <4> QED
        BY <3>2, <4>1
    <3>4. CASE m > 0
      <4>1. f[m + 1] = f[m] \o seqs[m + 1]
        <5>1. m + 1 # 1
          BY <3>4
        <5>2. f[m + 1] = IF m + 1 = 1 THEN seqs[m + 1] ELSE f[(m + 1) - 1] \o seqs[m + 1]
          BY <2>2, <3>1, Zenon DEF IsFlat
        <5> QED
          BY <3>1, <5>1, <5>2
      <4>2. f[m] \in Seq(S)
        BY <3>1, <3>4
      <4> QED
        BY <3>2, <4>1, <4>2
    <3> QED
      BY <3>3, <3>4
  <2>5. A = Nat
    <3> HIDE DEF A
    <3> QED
      BY <2>3, <2>4, Induction
  <2>6. Len(seqs) \in A
    <3> HIDE DEF A
    <3> QED
      BY <2>1, <2>5
  <2> QED
    BY <2>1, <2>2, <2>6
<1> QED
  BY <1>1, <1>2

(* add_files adds the files one after the other.                           *)
IsAddition(it, base, es) ==
    it = [s \in SUBSET DOMAIN es |->
             IF s = {} THEN base ELSE add_file(it[s \ {Max(s)}], es[Max(s)])]

(* The fold of add_files over the entries is well defined ...              *)
LEMMA AdditionExists ==
    ASSUME NEW base, NEW es, NEW n \in Nat, DOMAIN es = 1 .. n
    PROVE  \E it : IsAddition(it, base, es)
<1> DEFINE Good(it, m) == it = [s \in SUBSET (1 .. m) |->
                                   IF s = {} THEN base ELSE add_file(it[s \ {Max(s)}], es[Max(s)])]
           A == {m \in Nat : \E it : Good(it, m)}
<1>1. 0 \in A /\ A \in SUBSET Nat
  <2> DEFINE it == [s \in SUBSET (1 .. 0) |-> base]
  <2>1. Good(it, 0)
    <3>1. \A s \in SUBSET (1 .. 0) : s = {}
      OBVIOUS
    <3> QED
      BY <3>1, Zenon
  <2>2. \E b : Good(b, 0)
    BY <2>1
  <2> HIDE DEF Good
  <2> QED
    BY <2>2
<1>2. ASSUME NEW m \in A PROVE m + 1 \in A
  <2>1. PICK it : Good(it, m)
    OBVIOUS
  <2> DEFINE g == [s \in SUBSET (1 .. m + 1) |->
                      IF m + 1 \in s THEN add_file(it[s \ {Max(s)}], es[Max(s)]) ELSE it[s]]
  <2>2. ASSUME NEW s \in SUBSET (1 .. m + 1)
        PROVE  g[s] = IF s = {} THEN base ELSE add_file(g[s \ {Max(s)}], es[Max(s)])
    <3>1. CASE m + 1 \in s
      <4>1. Max(s) = m + 1
        <5>1. m \in Nat
          OBVIOUS
        <5>2. /\ \A y \in s : m + 1 >= y
              /\ \A x \in s : (\A y \in s : x >= y) => x = m + 1
          BY ONLY <3>1, <5>1, <2>2
        <5> QED
          BY ONLY <3>1, <5>2 DEF Max
      <4>2. g[s \ {m + 1}] = it[s \ {m + 1}]
        <5>1. s \ {m + 1} \in SUBSET (1 .. m + 1) /\ m + 1 \notin s \ {m + 1}
          OBVIOUS
        <5> QED
          BY <5>1
      <4> QED
        BY <3>1, <4>1, <4>2
    <3>2. CASE m + 1 \notin s
      <4>1. s \in SUBSET (1 .. m) /\ m \in Nat
        BY <3>2
      <4>2. g[s] = it[s]
        BY <3>2
      <4>3. s # {} => g[s \ {Max(s)}] = it[s \ {Max(s)}]
        <5>1. s \ {Max(s)} \in SUBSET (1 .. m + 1) /\ m + 1 \notin s \ {Max(s)}
          BY <3>2
        <5> QED
          BY <5>1
      <4>4. it[s] = IF s = {} THEN base ELSE add_file(it[s \ {Max(s)}], es[Max(s)])
        BY <2>1, <4>1, Zenon
      <4> HIDE DEF g
      <4> QED
        BY <4>2, <4>3, <4>4
    <3> QED
      BY <3>1, <3>2
  <2>3. Good(g, m + 1)
    <3>1. g = [s \in SUBSET (1 .. m + 1) |-> g[s]]
      OBVIOUS
    <3> HIDE DEF g
    <3> QED
      BY <2>2, <3>1, Zenon
  <2>4. \E b : Good(b, m + 1)
    BY <2>3
  <2> HIDE DEF Good
  <2> QED
    BY <2>4
<1>3. A = Nat
  <2> HIDE DEF A
  <2> QED
    BY <1>1, <1>2, Induction
<1>4. \E it : Good(it, n)
  <2> HIDE DEF Good
  <2> QED
    BY <1>3
<1> QED
  BY <1>4 DEF IsAddition

(* The storages after the first k of the files are added.                  *)
AreAdditions(r, base, es, n) ==
    /\ r[0] = base /\ r[n] = add_files(base, es)
    /\ \A k \in 1 .. n : r[k] = add_file(r[k - 1], es[k])

(* ... and adds the entries one by one, from the first to the last.        *)
LEMMA AddFilesSteps ==
    ASSUME NEW base, NEW es, NEW n \in Nat, DOMAIN es = 1 .. n
    PROVE  \E r : AreAdditions(r, base, es, n)
<1>1. PICK it : IsAddition(it, base, es) /\ add_files(base, es) = it[DOMAIN es]
  <2>1. add_files(base, es) = (CHOOSE it : IsAddition(it, base, es))[DOMAIN es]
    BY Zenon DEF add_files, FoldLeft, MapThenFoldSet, IsAddition
  <2>2. \E it : IsAddition(it, base, es)
    BY AdditionExists
  <2> QED
    BY <2>1, <2>2, Zenon
<1> DEFINE r == [k \in 0 .. n |-> it[1 .. k]]
<1>2. r[0] = base /\ r[n] = add_files(base, es)
  <2>1. 1 .. 0 = {} /\ {} \in SUBSET DOMAIN es
    OBVIOUS
  <2>2. it[{}] = base
    BY <1>1, <2>1 DEF IsAddition
  <2> QED
    BY <1>1, <2>1, <2>2
<1>3. ASSUME NEW k \in 1 .. n PROVE r[k] = add_file(r[k - 1], es[k])
  <2>1. 1 .. k \in SUBSET DOMAIN es /\ 1 .. k # {} /\ k - 1 \in 0 .. n /\ k \in 0 .. n
    <3>1. k \in 1 .. k /\ k - 1 \in 0 .. n /\ k \in 0 .. n /\ \A i \in 1 .. k : i \in 1 .. n
      OBVIOUS
    <3> QED
      BY <3>1
  <2>2. Max(1 .. k) = k
    BY DEF Max
  <2>3. (1 .. k) \ {k} = 1 .. k - 1
    OBVIOUS
  <2>4. it[1 .. k] = add_file(it[(1 .. k) \ {Max(1 .. k)}], es[Max(1 .. k)])
    BY <1>1, <2>1, Zenon DEF IsAddition
  <2> QED
    BY <2>1, <2>2, <2>3, <2>4
<1> HIDE DEF r
<1>4. AreAdditions(r, base, es, n)
  BY <1>2, <1>3 DEF AreAdditions
<1> QED
  BY <1>4

(* A file_storage with all its members.                                    *)
IsStorage(s) ==
    s = [files_ |-> s.files_, total_file_size_ |-> s.total_file_size_, piece_size_ |-> s.piece_size_,
         root_directory_ |-> s.root_directory_, file_mode_ |-> s.file_mode_, pieces_ |-> s.pieces_,
         index_valid_ |-> s.index_valid_, files_index_ |-> s.files_index_]

(* add_files on a storage without files.                                   *)
LEMMA AddFilesFacts ==
    ASSUME NEW S, NEW base, IsStorage(base), base.files_ = <<>>, NEW es \in Seq(S)
    PROVE  LET r == add_files(base, es)
           IN  /\ IsStorage(r) /\ r.files_ = es
               /\ r.piece_size_ = base.piece_size_ /\ r.pieces_ = base.pieces_
<1> DEFINE n == Len(es)
<1>1. n \in Nat /\ DOMAIN es = 1 .. n
  OBVIOUS
<1> HIDE DEF n
<1>2. PICK r : AreAdditions(r, base, es, n)
  BY <1>1, AddFilesSteps
<1> DEFINE Done(k) == /\ IsStorage(r[k]) /\ r[k].files_ = SubSeq(es, 1, k)
                      /\ r[k].piece_size_ = base.piece_size_ /\ r[k].pieces_ = base.pieces_
           A == {k \in Nat : k <= n => Done(k)}
<1>3. 0 \in A /\ A \in SUBSET Nat
  <2>1. SubSeq(es, 1, 0) = <<>>
    OBVIOUS
  <2> QED
    BY <1>2, <2>1 DEF AreAdditions
<1>4. ASSUME NEW k \in A PROVE k + 1 \in A
  <2> SUFFICES ASSUME k + 1 <= n PROVE Done(k + 1)
    OBVIOUS
  <2>1. k \in Nat /\ k + 1 \in 1 .. n /\ (k + 1) - 1 = k /\ k <= n
    BY <1>1
  <2>2. Done(k)
    BY <2>1
  <2>3. r[k + 1] = add_file(r[k], es[k + 1])
    BY <1>2, <2>1 DEF AreAdditions
  <2>4. SubSeq(es, 1, k + 1) = Append(SubSeq(es, 1, k), es[k + 1])
    BY <1>1, <2>1 DEF n
  <2>5. /\ IsStorage(r[k + 1]) /\ r[k + 1].files_ = Append(r[k].files_, es[k + 1])
        /\ r[k + 1].piece_size_ = r[k].piece_size_ /\ r[k + 1].pieces_ = r[k].pieces_
    <3> DEFINE s == r[k]
    <3>1. IsStorage(s) /\ r[k + 1] = add_file(s, es[k + 1])
      BY <2>2, <2>3
    <3> HIDE DEF s
    <3>2. /\ IsStorage(r[k + 1]) /\ r[k + 1].files_ = Append(s.files_, es[k + 1])
          /\ r[k + 1].piece_size_ = s.piece_size_ /\ r[k + 1].pieces_ = s.pieces_
      BY <3>1 DEF add_file, IsStorage
    <3> QED
      BY <3>2 DEF s
  <2> QED
    BY <2>2, <2>4, <2>5
<1>5. A = Nat
  <2> HIDE DEF A
  <2> QED
    BY <1>3, <1>4, Induction
<1>6. n \in A
  <2> HIDE DEF A
  <2> QED
    BY <1>1, <1>5
<1>7. SubSeq(es, 1, n) = es
  BY DEF n
<1> QED
  BY <1>1, <1>2, <1>6, <1>7 DEF AreAdditions
=============================================================================
