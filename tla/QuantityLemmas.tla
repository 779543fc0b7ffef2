--------------------------- MODULE QuantityLemmas ---------------------------
(***************************************************************************)
(* What a proof needs to know of Total.                                    *)
(***************************************************************************)
EXTENDS Quantities, FiniteSetTheorems, FunctionTheorems, TLAPS

\* A column of k units is a finite set of k elements.
LEMMA ColumnCardinality ==
  ASSUME NEW x, NEW k \in Nat
  PROVE  /\ IsFiniteSet({x} \X (1..k))
         /\ Cardinality({x} \X (1..k)) = k
<1>1. IsFiniteSet({x}) /\ Cardinality({x}) = 1
  BY FS_Singleton
<1>2. IsFiniteSet(1..k) /\ Cardinality(1..k) = k
  BY FS_Interval, 1 \in Int, k \in Int
<1>3. /\ IsFiniteSet({x} \X (1..k))
      /\ Cardinality({x} \X (1..k)) = Cardinality({x}) * Cardinality(1..k)
  <2>1. IsFiniteSet({x}) /\ IsFiniteSet(1..k)
    BY <1>1, <1>2
  <2>2. QED
    BY <2>1, FS_Product
<1>4. 1 * k = k
  OBVIOUS
<1>5. QED
  BY <1>1, <1>2, <1>3, <1>4, Zenon

\* The units of a family over a finite set of rows are finite in number, so
\* its total is a natural number.
LEMMA TotalNat ==
  ASSUME NEW D, IsFiniteSet(D), NEW q \in [D -> Nat]
  PROVE  IsFiniteSet(Units(q)) /\ Total(q) \in Nat
<1> DEFINE column == [x \in D |-> {x} \X (1..q[x])]
           columns == {column[x] : x \in D}
<1>1. column \in Surjection(D, columns)
  BY DEF Surjection
<1>2. IsFiniteSet(columns)
  <2> HIDE DEF column, columns
  <2> QED BY <1>1, FS_Surjection
<1>3. ASSUME NEW c \in columns PROVE IsFiniteSet(c)
  <2>1. PICK x \in D : c = {x} \X (1..q[x])
    OBVIOUS
  <2>2. q[x] \in Nat
    OBVIOUS
  <2>3. QED
    BY <2>1, <2>2, ColumnCardinality, Zenon
<1>4. Units(q) = UNION columns
  BY DEF Units
<1>5. IsFiniteSet(Units(q))
  <2> HIDE DEF columns
  <2> QED BY <1>2, <1>3, <1>4, FS_UNION
<1>6. QED
  BY <1>5, FS_CardinalityType DEF Total

\* A family that is zero everywhere has total zero.
LEMMA TotalZero ==
  ASSUME NEW D, NEW q \in [D -> Nat], \A x \in D : q[x] = 0
  PROVE  Total(q) = 0
<1>1. Units(q) = {}
  BY DEF Units
<1>2. QED
  BY <1>1, FS_EmptySet DEF Total

\* Changing one row changes the total by the change of that row.
LEMMA TotalChange ==
  ASSUME NEW D, IsFiniteSet(D), NEW q \in [D -> Nat], NEW r \in [D -> Nat],
         NEW x \in D, \A y \in D \ {x} : r[y] = q[y]
  PROVE  Total(r) = Total(q) - q[x] + r[x]
<1> DEFINE qx == {x} \X (1..q[x])
           rx == {x} \X (1..r[x])
           rest == Units(q) \ qx
<1>1. Units(q) = rest \cup qx /\ rest \cap qx = {}
  BY DEF Units
<1>2. Units(r) = rest \cup rx /\ rest \cap rx = {}
  <2>1. ASSUME NEW u PROVE u \in Units(r) <=> u \in rest \cup rx
    BY DEF Units
  <2>2. ASSUME NEW u \in rest PROVE u \notin rx
    BY DEF Units
  <2>3. QED BY <2>1, <2>2
<1>3. IsFiniteSet(Units(q)) /\ Total(q) \in Nat
  BY TotalNat
<1>4. IsFiniteSet(rest)
  BY <1>3, FS_Difference
<1>5. /\ IsFiniteSet(qx) /\ Cardinality(qx) = q[x]
      /\ IsFiniteSet(rx) /\ Cardinality(rx) = r[x]
  BY ColumnCardinality
<1>6. Cardinality(rest) \in Nat
  BY <1>4, FS_CardinalityType
<1> HIDE DEF qx, rx, rest
<1>7. Total(q) = Cardinality(rest) + q[x]
  <2>1. Cardinality(rest \cup qx) = Cardinality(rest) + Cardinality(qx) - Cardinality(rest \cap qx)
    BY <1>4, <1>5, FS_Union
  <2>2. QED BY <2>1, <1>1, <1>5, <1>6, FS_EmptySet DEF Total
<1>8. Total(r) = Cardinality(rest) + r[x]
  <2>1. Cardinality(rest \cup rx) = Cardinality(rest) + Cardinality(rx) - Cardinality(rest \cap rx)
    BY <1>4, <1>5, FS_Union
  <2>2. Cardinality(rest \cap rx) = 0
    BY <1>2, FS_EmptySet
  <2>3. Total(r) = Cardinality(rest \cup rx)
    BY <1>2 DEF Total
  <2>4. r[x] \in Nat
    OBVIOUS
  <2>5. QED BY <2>1, <2>2, <2>3, <2>4, <1>5, <1>6
<1>9. QED
  BY <1>6, <1>7, <1>8

\* No row exceeds the total.
LEMMA TotalBound ==
  ASSUME NEW D, IsFiniteSet(D), NEW q \in [D -> Nat], NEW x \in D
  PROVE  q[x] <= Total(q)
<1> DEFINE qx == {x} \X (1..q[x])
<1>1. qx \in SUBSET Units(q)
  BY DEF Units
<1>2. IsFiniteSet(Units(q))
  BY TotalNat
<1>3. Cardinality(qx) = q[x]
  BY ColumnCardinality
<1>4. QED
  <2> HIDE DEF qx
  <2> QED BY <1>1, <1>2, <1>3, FS_Subset DEF Total

\* A family that is nowhere larger has no larger total.
LEMMA TotalMonotone ==
  ASSUME NEW D, IsFiniteSet(D), NEW q \in [D -> Nat], NEW r \in [D -> Nat],
         \A x \in D : q[x] <= r[x]
  PROVE  Total(q) <= Total(r)
<1>1. Units(q) \in SUBSET Units(r)
  <2> SUFFICES ASSUME NEW u \in Units(q) PROVE u \in Units(r)
    OBVIOUS
  <2>1. PICK x \in D : u \in {x} \X (1..q[x])
    BY DEF Units
  <2>2. 1..q[x] \subseteq 1..r[x]
    <3>1. q[x] \in Nat /\ r[x] \in Nat /\ q[x] <= r[x]
      OBVIOUS
    <3>2. QED
      BY <3>1
  <2>3. u \in {x} \X (1..r[x])
    BY <2>1, <2>2
  <2>4. QED
    BY <2>3 DEF Units
<1>2. IsFiniteSet(Units(r))
  BY TotalNat
<1>3. QED
  BY <1>1, <1>2, FS_Subset DEF Total

\* The total of a sum is the sum of the totals: the units of r follow those of
\* q in every row.
LEMMA TotalAdd ==
  ASSUME NEW D, IsFiniteSet(D),
         NEW q \in [D -> Nat], NEW r \in [D -> Nat], NEW s \in [D -> Nat],
         \A x \in D : s[x] = q[x] + r[x]
  PROVE  Total(s) = Total(q) + Total(r)
<1> DEFINE upper == Units(s) \ Units(q)
           shift == [u \in Units(r) |-> <<u[1], q[u[1]] + u[2]>>]
<1>1. ASSUME NEW u
      PROVE  /\ u \in Units(q) <=> \E x \in D : \E k \in 1..q[x] : u = <<x, k>>
             /\ u \in Units(r) <=> \E x \in D : \E k \in 1..r[x] : u = <<x, k>>
             /\ u \in Units(s) <=> \E x \in D : \E k \in 1..s[x] : u = <<x, k>>
  BY DEF Units
<1>2. ASSUME NEW x \in D, NEW k \in Int
      PROVE  /\ <<x, k>> \in Units(q) <=> 1 <= k /\ k <= q[x]
             /\ <<x, k>> \in Units(r) <=> 1 <= k /\ k <= r[x]
             /\ <<x, k>> \in Units(s) <=> 1 <= k /\ k <= q[x] + r[x]
  BY <1>1
<1>3. Units(q) \in SUBSET Units(s)
  <2> SUFFICES ASSUME NEW u \in Units(q) PROVE u \in Units(s)
    OBVIOUS
  <2>1. PICK x \in D : \E k \in 1..q[x] : u = <<x, k>>
    BY <1>1
  <2>2. PICK k \in 1..q[x] : u = <<x, k>>
    BY <2>1
  <2>3. q[x] \in Nat /\ r[x] \in Nat /\ k \in Int /\ 1 <= k /\ k <= q[x] + r[x]
    OBVIOUS
  <2>4. QED
    BY <1>2, <2>2, <2>3
<1>4. shift \in Bijection(Units(r), upper)
  <2>1. ASSUME NEW u \in Units(r)
        PROVE  \E x \in D : \E k \in Int :
                 /\ u = <<x, k>> /\ 1 <= k /\ k <= r[x]
                 /\ shift[u] = <<x, q[x] + k>>
                 /\ shift[u] \in upper
    <3>0. PICK x \in D : \E k \in 1..r[x] : u = <<x, k>>
      BY <1>1
    <3>1. PICK k \in 1..r[x] : u = <<x, k>>
      BY <3>0
    <3>2. /\ q[x] \in Nat /\ r[x] \in Nat /\ k \in Int /\ 1 <= k /\ k <= r[x]
          /\ q[x] + k \in Int
      OBVIOUS
    <3>3. shift[u] = <<x, q[x] + k>>
      BY <3>1
    <3>4. <<x, q[x] + k>> \in Units(s) /\ <<x, q[x] + k>> \notin Units(q)
      BY <1>2, <3>2
    <3>5. QED
      BY <3>1, <3>2, <3>3, <3>4
  <2>2. shift \in [Units(r) -> upper]
    BY <2>1
  <2>3. ASSUME NEW u \in Units(r), NEW v \in Units(r), shift[u] = shift[v] PROVE u = v
    <3>1. PICK x \in D, k \in Int : u = <<x, k>> /\ shift[u] = <<x, q[x] + k>>
      BY <2>1
    <3>2. PICK y \in D, j \in Int : v = <<y, j>> /\ shift[v] = <<y, q[y] + j>>
      BY <2>1
    <3>3. x = y /\ q[x] + k = q[y] + j
      BY <2>3, <3>1, <3>2
    <3>4. k = j
      BY <3>3
    <3>5. QED
      BY <3>1, <3>2, <3>3, <3>4
  <2>4. ASSUME NEW u \in upper PROVE \E v \in Units(r) : shift[v] = u
    <3>0. PICK x \in D : \E k \in 1..s[x] : u = <<x, k>>
      BY <1>1
    <3>1. PICK k \in 1..s[x] : u = <<x, k>>
      BY <3>0
    <3>2. q[x] \in Nat /\ r[x] \in Nat /\ k \in Int /\ k <= q[x] + r[x] /\ ~(k <= q[x])
      BY <1>2, <3>1
    <3>3. k - q[x] \in Int /\ 1 <= k - q[x] /\ k - q[x] <= r[x] /\ q[x] + (k - q[x]) = k
      BY <3>2
    <3>4. <<x, k - q[x]>> \in Units(r)
      BY <1>2, <3>3
    <3>5. shift[<<x, k - q[x]>>] = u
      BY <3>1, <3>3, <3>4
    <3>6. QED
      BY <3>4, <3>5
  <2> HIDE DEF upper, shift
  <2>5. QED
    BY <2>2, <2>3, <2>4, Zenon DEF Bijection, Injection, Surjection, IsInjective
<1>5. /\ IsFiniteSet(Units(q)) /\ Total(q) \in Nat
      /\ IsFiniteSet(Units(r)) /\ Total(r) \in Nat
  BY TotalNat
<1> HIDE DEF upper, shift
<1>6. IsFiniteSet(upper) /\ Cardinality(upper) = Total(r)
  <2>1. ExistsBijection(Units(r), upper)
    BY <1>4 DEF ExistsBijection
  <2>2. QED
    BY <1>5, <2>1, FS_Bijection DEF Total
<1>7. Units(s) = Units(q) \cup upper /\ Units(q) \cap upper = {}
  BY <1>3 DEF upper
<1>8. Cardinality(Units(q) \cup upper) =
        Cardinality(Units(q)) + Cardinality(upper) - Cardinality(Units(q) \cap upper)
  BY <1>5, <1>6, FS_Union
<1>9. Cardinality(Units(q) \cap upper) = 0
  BY <1>7, FS_EmptySet
<1>10. Total(s) = Total(q) + Total(r) - 0
  BY <1>6, <1>7, <1>8, <1>9 DEF Total
<1>11. QED
  BY <1>5, <1>10

\* Rows of zero do not count: the total over a part of the rows is that over
\* all, if there is nothing in the others.
LEMMA TotalExtend ==
  ASSUME NEW E, NEW D \in SUBSET E, NEW q \in [D -> Nat], NEW r \in [E -> Nat],
         \A x \in D : r[x] = q[x], \A x \in E \ D : r[x] = 0
  PROVE  Total(r) = Total(q)
<1>1. ASSUME NEW u PROVE u \in Units(r) <=> u \in Units(q)
  <2>1. ASSUME NEW x \in E, u \in {x} \X (1..r[x]) PROVE x \in D /\ u \in {x} \X (1..q[x])
    <3>1. CASE x \in D
      BY <2>1, <3>1
    <3>2. CASE x \notin D
      <4>1. 1..r[x] = {}
        BY <3>2
      <4>2. QED
        BY <2>1, <4>1
    <3>3. QED
      BY <3>1, <3>2
  <2>2. ASSUME NEW x \in D, u \in {x} \X (1..q[x]) PROVE x \in E /\ u \in {x} \X (1..r[x])
    BY <2>2
  <2>3. u \in Units(r) <=> \E x \in E : u \in {x} \X (1..r[x])
    BY DEF Units
  <2>4. u \in Units(q) <=> \E x \in D : u \in {x} \X (1..q[x])
    BY DEF Units
  <2>5. QED
    BY <2>1, <2>2, <2>3, <2>4
<1>2. Units(r) = Units(q)
  BY <1>1
<1>3. QED
  BY <1>2 DEF Total

\* Something in the total is in one of its rows.
LEMMA TotalPositive ==
  ASSUME NEW D, NEW q \in [D -> Nat], Total(q) # 0
  PROVE  \E x \in D : q[x] > 0
<1>1. PICK x \in D : q[x] # 0
  BY TotalZero
<1>2. QED
  BY <1>1

\* A family with at most one row in it.
LEMMA TotalSingle ==
  ASSUME NEW D, IsFiniteSet(D), NEW q \in [D -> Nat], NEW x \in D, \A y \in D \ {x} : q[y] = 0
  PROVE  Total(q) = q[x]
<1> DEFINE z == [y \in D |-> 0]
<1>1. z \in [D -> Nat] /\ z[x] = 0 /\ \A y \in D \ {x} : q[y] = z[y]
  OBVIOUS
<1>2. Total(z) = 0
  BY TotalZero
<1> HIDE DEF z
<1>3. Total(q) = Total(z) - z[x] + q[x]
  BY <1>1, TotalChange
<1>4. QED
  BY <1>1, <1>2, <1>3

-----------------------------------------------------------------------------
\* Sums over the rows that a foreign key selects

\* Of the quantities q, those of the rows whose key f has the value v.
Share(f, v, q) == [x \in DOMAIN q |-> IF f[x] = v THEN q[x] ELSE 0]

\* A share is a family like the one it is taken of, and no larger.
LEMMA ShareNat ==
  ASSUME NEW D, IsFiniteSet(D), NEW q \in [D -> Nat], NEW f, NEW v
  PROVE  /\ Share(f, v, q) \in [D -> Nat]
         /\ Total(Share(f, v, q)) \in Nat
         /\ \A x \in D : f[x] = v => q[x] <= Total(Share(f, v, q))
<1>1. Share(f, v, q) \in [D -> Nat]
  BY DEF Share
<1>2. \A x \in D : f[x] = v => Share(f, v, q)[x] = q[x]
  BY DEF Share
<1>3. \A x \in D : Share(f, v, q)[x] <= Total(Share(f, v, q))
  BY <1>1, TotalBound
<1>4. Total(Share(f, v, q)) \in Nat
  BY <1>1, TotalNat
<1>5. QED
  BY <1>1, <1>2, <1>3, <1>4

\* Shares of a sum add up, also when rows without a quantity change their key.
LEMMA ShareAdd ==
  ASSUME NEW D, IsFiniteSet(D),
         NEW q \in [D -> Nat], NEW r \in [D -> Nat], NEW s \in [D -> Nat],
         NEW f, NEW g, NEW h, NEW v,
         \A x \in D : /\ s[x] = q[x] + r[x]
                      /\ q[x] # 0 => f[x] = h[x]
                      /\ r[x] # 0 => g[x] = h[x]
  PROVE  Total(Share(h, v, s)) = Total(Share(f, v, q)) + Total(Share(g, v, r))
<1>1. /\ Share(f, v, q) \in [D -> Nat]
      /\ Share(g, v, r) \in [D -> Nat]
      /\ Share(h, v, s) \in [D -> Nat]
  BY ShareNat
<1>2. ASSUME NEW x \in D
      PROVE  Share(h, v, s)[x] = Share(f, v, q)[x] + Share(g, v, r)[x]
  <2>1. /\ Share(h, v, s)[x] = IF h[x] = v THEN s[x] ELSE 0
        /\ Share(f, v, q)[x] = IF f[x] = v THEN q[x] ELSE 0
        /\ Share(g, v, r)[x] = IF g[x] = v THEN r[x] ELSE 0
    BY DEF Share
  <2>2. q[x] \in Nat /\ r[x] \in Nat
    OBVIOUS
  <2>3. QED
    BY <2>1, <2>2
<1>3. QED
  BY <1>1, <1>2, TotalAdd

\* The share of a smaller family is smaller.
LEMMA ShareMonotone ==
  ASSUME NEW D, IsFiniteSet(D), NEW q \in [D -> Nat], NEW r \in [D -> Nat], NEW f, NEW v,
         \A x \in D : q[x] <= r[x]
  PROVE  Total(Share(f, v, q)) <= Total(Share(f, v, r))
<1>1. Share(f, v, q) \in [D -> Nat] /\ Share(f, v, r) \in [D -> Nat]
  BY ShareNat
<1>2. ASSUME NEW x \in D PROVE Share(f, v, q)[x] <= Share(f, v, r)[x]
  BY DEF Share
<1>3. QED
  BY <1>1, <1>2, TotalMonotone

\* A value that no row with a quantity has gets nothing.
LEMMA ShareZero ==
  ASSUME NEW D, NEW q \in [D -> Nat], NEW f, NEW v, \A x \in D : q[x] # 0 => f[x] # v
  PROVE  Total(Share(f, v, q)) = 0
<1>1. Share(f, v, q) \in [D -> Nat] /\ \A x \in D : Share(f, v, q)[x] = 0
  BY DEF Share
<1>2. QED
  BY <1>1, TotalZero

(***************************************************************************)
(* Every row that counts has a key, and so every unit is in the share of   *)
(* one key: the shares of all keys add up to the family.                   *)
(***************************************************************************)
LEMMA TotalByShares ==
  ASSUME NEW D, IsFiniteSet(D), NEW q \in [D -> Nat], NEW V, IsFiniteSet(V),
         NEW f, \A x \in D : q[x] # 0 => f[x] \in V
  PROVE  Total([v \in V |-> Total(Share(f, v, q))]) = Total(q)
<1> DEFINE s == [v \in V |-> Total(Share(f, v, q))]
           H == [v \in V |-> CHOOSE h : h \in Bijection(1..s[v], Units(Share(f, v, q)))]
           number == [w \in Units(s) |-> H[w[1]][w[2]]]
<1>1. ASSUME NEW v \in V PROVE s[v] \in Nat /\ \E h : h \in Bijection(1..s[v], Units(Share(f, v, q)))
  <2>1. Share(f, v, q) \in [D -> Nat]
    BY ShareNat
  <2>2. IsFiniteSet(Units(Share(f, v, q)))
    BY <2>1, TotalNat
  <2>3. /\ Total(Share(f, v, q)) \in Nat
        /\ Bijection(1..Total(Share(f, v, q)), Units(Share(f, v, q))) # {}
    BY <2>2, FS_CardinalityType, Fun_ExistsBij DEF Total
  <2>4. QED
    BY <2>3
<1>2. ASSUME NEW v \in V
      PROVE  /\ \A i \in 1..s[v] : H[v][i] \in Units(Share(f, v, q))
             /\ \A i, j \in 1..s[v] : H[v][i] = H[v][j] => i = j
             /\ \A u \in Units(Share(f, v, q)) : \E i \in 1..s[v] : H[v][i] = u
  <2> DEFINE I == 1..s[v]
             T == Units(Share(f, v, q))
             h == H[v]
  <2>1. h \in Bijection(I, T)
    BY <1>1
  <2> HIDE DEF s, H, I, T, h
  <2>2. /\ h \in [I -> T]
        /\ \A i, j \in I : h[i] = h[j] => i = j
        /\ \A u \in T : \E i \in I : h[i] = u
    BY <2>1, Fun_BijectionProperties
  <2>3. \A i \in I : h[i] \in T
    BY <2>2
  <2>4. QED
    BY <2>2, <2>3 DEF I, T, h
<1>3. s \in [V -> Nat]
  BY <1>1
<1>4. ASSUME NEW v, NEW u
      PROVE  u \in Units(Share(f, v, q)) <=> u \in Units(q) /\ f[u[1]] = v
  BY DEF Units, Share
<1> HIDE DEF s, H
<1>5. ASSUME NEW w
      PROVE  w \in Units(s) <=> \E v \in V : \E i \in 1..s[v] : w = <<v, i>>
  BY <1>3 DEF Units
<1>6. ASSUME NEW w \in Units(s)
      PROVE  /\ w = <<w[1], w[2]>> /\ w[1] \in V /\ w[2] \in 1..s[w[1]]
             /\ number[w] = H[w[1]][w[2]]
             /\ number[w] \in Units(q) /\ f[number[w][1]] = w[1]
  <2>1. w = <<w[1], w[2]>> /\ w[1] \in V /\ w[2] \in 1..s[w[1]]
    BY <1>5
  <2>2. H[w[1]][w[2]] \in Units(Share(f, w[1], q))
    BY <1>2, <2>1
  <2>3. QED
    BY <1>4, <2>1, <2>2
<1>7. \A w, z \in Units(s) : number[w] = number[z] => w = z
  <2> SUFFICES ASSUME NEW w \in Units(s), NEW z \in Units(s), number[w] = number[z] PROVE w = z
    OBVIOUS
  <2>1. w[1] = z[1] /\ H[w[1]][w[2]] = H[w[1]][z[2]]
    BY <1>6
  <2>2. \A i, j \in 1..s[w[1]] : H[w[1]][i] = H[w[1]][j] => i = j
    BY <1>2, <1>6
  <2>3. QED
    BY <1>6, <2>1, <2>2
<1>8. ASSUME NEW u \in Units(q) PROVE \E w \in Units(s) : number[w] = u
  <2>1. f[u[1]] \in V
    BY DEF Units
  <2>2. u \in Units(Share(f, f[u[1]], q))
    BY <1>4
  <2>3. PICK i \in 1..s[f[u[1]]] : H[f[u[1]]][i] = u
    BY <1>2, <2>1, <2>2
  <2>4. <<f[u[1]], i>> \in Units(s)
    BY <1>5, <2>1
  <2>5. QED
    BY <2>3, <2>4
<1>9. number \in Bijection(Units(s), Units(q))
  <2>1. number \in [Units(s) -> Units(q)]
    BY <1>6
  <2> HIDE DEF number
  <2>2. QED
    BY <1>7, <1>8, <2>1, Fun_IsBij
<1>10. IsFiniteSet(Units(s))
  BY <1>3, TotalNat
<1>11. Cardinality(Units(q)) = Cardinality(Units(s))
  BY <1>9, <1>10, FS_Bijection, Fun_ExistsBij
<1>12. QED
  BY <1>11 DEF Total, s

\* Numbers that are no greater, each, and no less in sum are the same.
LEMMA TotalEqual ==
  ASSUME NEW D, IsFiniteSet(D), NEW q \in [D -> Nat], NEW r \in [D -> Nat],
         \A x \in D : q[x] <= r[x], Total(q) >= Total(r)
  PROVE  \A x \in D : q[x] = r[x]
<1> DEFINE rest == [x \in D |-> r[x] - q[x]]
<1>1. rest \in [D -> Nat] /\ \A x \in D : r[x] = q[x] + rest[x] /\ q[x] \in Nat /\ r[x] \in Nat
  OBVIOUS
<1> HIDE DEF rest
<1>2. Total(r) = Total(q) + Total(rest)
  BY <1>1, TotalAdd
<1>3. Total(q) \in Nat /\ Total(r) \in Nat /\ Total(rest) \in Nat
  BY <1>1, TotalNat
<1>4. Total(rest) = 0
  BY <1>2, <1>3
<1>5. ASSUME NEW x \in D PROVE q[x] = r[x]
  <2>1. rest[x] <= Total(rest) /\ rest[x] \in Nat
    BY <1>1, TotalBound
  <2>2. QED
    BY <1>1, <1>4, <2>1
<1>6. QED
  BY <1>5
=============================================================================
