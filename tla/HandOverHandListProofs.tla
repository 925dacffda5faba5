----------------------- MODULE HandOverHandListProofs -----------------------
(* Proofs about HandOverHandList, for any number of threads, cells and     *)
(* values.                                                                 *)
EXTENDS HandOverHandList, Integers, SequenceTheorems, FiniteSetTheorems, TLAPS

-----------------------------------------------------------------------------
(* Selections *)

\* f lists the numbers of K in their order; there are m of them.
Lists(f, K, m) ==
  /\ m \in Nat /\ f \in [1..m -> K]
  /\ \A k \in K : k \in Nat /\ \E i \in 1..m : f[i] = k
  /\ \A i, j \in 1..m : i < j => f[i] < f[j]

Upto(K, k) == {j \in K : j <= k}

LEMMA Listed ==
  ASSUME NEW K, NEW m, NEW f, Lists(f, K, m)
  PROVE  /\ m \in Nat /\ \A k \in K : \E i \in 1..m : f[i] = k
         /\ \A i \in 1..m : i \in Nat /\ f[i] \in K /\ f[i] \in Nat
         /\ \A i, j \in 1..m : (i < j <=> f[i] < f[j]) /\ (f[i] = f[j] => i = j)
<1>1. m \in Nat /\ (\A k \in K : \E i \in 1..m : f[i] = k) /\ \A i \in 1..m : f[i] \in K
  BY DEF Lists
<1>2. \A i \in 1..m : i \in Nat /\ f[i] \in Nat
  BY <1>1 DEF Lists
<1>3. \A i, j \in 1..m : i < j => f[i] < f[j]
  BY DEF Lists
<1>4. ASSUME NEW i \in 1..m, NEW j \in 1..m
      PROVE  (i < j <=> f[i] < f[j]) /\ (f[i] = f[j] => i = j)
  <2>1. i \in Nat /\ j \in Nat /\ f[i] \in Nat /\ f[j] \in Nat
    BY <1>2
  <2>2. (i < j => f[i] < f[j]) /\ (j < i => f[j] < f[i])
    BY <1>3
  <2>3. QED  BY <2>1, <2>2
<1>5. QED  BY <1>1, <1>2, <1>4

\* Counting finds the i-th number.
LEMMA ListsNth ==
  ASSUME NEW K, NEW m, NEW f, Lists(f, K, m)
  PROVE  Cardinality(K) = m /\ \A i \in 1..m : Nth(K, i) = f[i]
<1>1. /\ m \in Nat /\ \A k \in K : \E i \in 1..m : f[i] = k
      /\ \A i \in 1..m : i \in Nat /\ f[i] \in K /\ f[i] \in Nat
      /\ \A i, j \in 1..m : (i < j <=> f[i] < f[j]) /\ (f[i] = f[j] => i = j)
  BY Listed
<1>2. Cardinality(K) = m
  <2>1. f \in [1..m -> K]
    BY DEF Lists
  <2>2. f \in Bijection(1..m, K)
    BY <1>1, <2>1 DEF Bijection, Injection, Surjection, IsInjective
  <2>3. ExistsBijection(1..m, K)
    BY <2>2 DEF ExistsBijection
  <2>4. QED  BY <1>1, <2>3, FS_CountingElements
<1>3. ASSUME NEW i \in 1..m  PROVE Cardinality(Upto(K, f[i])) = i
  <2> DEFINE g == [l \in 1..i |-> f[l]]
  <2>1. i \in Nat /\ \A l \in 1..i : l \in 1..m /\ l \in Nat
    BY <1>1
  <2>2. \A l \in 1..i : f[l] \in Upto(K, f[i])
    BY <1>1, <2>1 DEF Upto
  <2>3. \A k \in Upto(K, f[i]) : \E l \in 1..i : f[l] = k
    <3> SUFFICES ASSUME NEW k \in Upto(K, f[i])  PROVE \E l \in 1..i : f[l] = k
      OBVIOUS
    <3>1. k \in K /\ k <= f[i]
      BY DEF Upto
    <3>2. PICK l \in 1..m : f[l] = k
      BY <1>1, <3>1
    <3>3. ~(i < l)
      BY <1>1, <3>1, <3>2
    <3>4. l \in 1..i
      BY <1>1, <3>3
    <3>5. QED  BY <3>2, <3>4
  <2>4. g \in [1..i -> Upto(K, f[i])]
    BY <2>2
  <2>5. g \in Bijection(1..i, Upto(K, f[i]))
    BY <1>1, <2>1, <2>2, <2>3, <2>4 DEF Bijection, Injection, Surjection, IsInjective
  <2>6. ExistsBijection(1..i, Upto(K, f[i]))
    BY <2>5 DEF ExistsBijection
  <2>7. QED  BY <2>1, <2>6, FS_CountingElements
<1>4. ASSUME NEW i \in 1..m  PROVE Nth(K, i) = f[i]
  <2>1. f[i] \in K /\ Cardinality(Upto(K, f[i])) = i
    BY <1>1, <1>3
  <2>2. \A k \in K : Cardinality(Upto(K, k)) = i => k = f[i]
    <3> SUFFICES ASSUME NEW k \in K, Cardinality(Upto(K, k)) = i  PROVE k = f[i]
      OBVIOUS
    <3>1. PICK l \in 1..m : f[l] = k
      BY <1>1
    <3>2. QED  BY <1>3, <3>1
  <2>3. Nth(K, i) = CHOOSE k \in K : Cardinality(Upto(K, k)) = i
    BY DEF Nth, Upto
  <2>4. QED  BY <2>1, <2>2, <2>3
<1>5. QED  BY <1>2, <1>4

\* Every finite set of numbers is listed.
LEMMA NthLists ==
  ASSUME NEW K \in SUBSET Nat, IsFiniteSet(K)
  PROVE  Lists([i \in 1..Cardinality(K) |-> Nth(K, i)], K, Cardinality(K))
<1> DEFINE m == Cardinality(K)
           r(k) == Cardinality(Upto(K, k))
<1>1. m \in Nat
  BY FS_CardinalityType
<1>2. \A k \in K : Upto(K, k) \in SUBSET K /\ IsFiniteSet(Upto(K, k)) /\ k \in Upto(K, k) /\ k \in Nat
  <2> SUFFICES ASSUME NEW k \in K
               PROVE  Upto(K, k) \in SUBSET K /\ IsFiniteSet(Upto(K, k)) /\ k \in Upto(K, k) /\ k \in Nat
    OBVIOUS
  <2>1. k \in Nat /\ Upto(K, k) \in SUBSET K /\ k \in Upto(K, k)
    BY DEF Upto
  <2>2. QED  BY <2>1, FS_Subset
<1>3. \A k \in K : r(k) \in 1..m
  <2> SUFFICES ASSUME NEW k \in K  PROVE r(k) \in 1..m
    OBVIOUS
  <2>1. r(k) \in Nat /\ r(k) <= m
    BY <1>2, FS_Subset, FS_CardinalityType
  <2>2. r(k) # 0
    BY <1>2, FS_EmptySet
  <2>3. QED  BY <1>1, <2>1, <2>2
<1>4. \A k, l \in K : k < l => r(k) < r(l)
  <2> SUFFICES ASSUME NEW k \in K, NEW l \in K, k < l  PROVE r(k) < r(l)
    OBVIOUS
  <2>1. k \in Nat /\ l \in Nat /\ \A j \in K : j \in Nat
    BY <1>2
  <2>2. Upto(K, k) \in SUBSET Upto(K, l) /\ l \in Upto(K, l) /\ l \notin Upto(K, k)
    <3>1. l <= l /\ ~(l <= k) /\ \A j \in K : j <= k => j <= l
      BY <2>1
    <3>2. QED  BY <3>1 DEF Upto
  <2>3. r(k) <= r(l) /\ (r(k) = r(l) => Upto(K, k) = Upto(K, l))
    BY <1>2, <2>2, FS_Subset
  <2>4. r(k) # r(l)
    BY <2>2, <2>3
  <2>5. r(k) \in Nat /\ r(l) \in Nat
    BY <1>1, <1>3
  <2> HIDE DEF r
  <2>6. QED  BY <2>3, <2>4, <2>5
<1> DEFINE R == [k \in K |-> r(k)]
<1> HIDE DEF m, r
<1>5. \A k, l \in K : r(k) = r(l) => k = l
  <2> SUFFICES ASSUME NEW k \in K, NEW l \in K, r(k) = r(l), k # l  PROVE FALSE
    OBVIOUS
  <2>1. k \in Nat /\ l \in Nat /\ r(k) \in Nat
    BY <1>1, <1>2, <1>3
  <2>2. k < l \/ l < k
    BY <2>1
  <2>3. r(k) < r(l) \/ r(l) < r(k)
    BY <1>4, <2>2
  <2>4. QED  BY <2>1, <2>3
<1>6. \A i \in 1..m : \E k \in K : r(k) = i
  <2>1. R \in Injection(K, 1..m)
    BY <1>3, <1>5 DEF Injection, IsInjective
  <2>2. IsFiniteSet(1..m) /\ Cardinality(1..m) = m
    BY <1>1, FS_Interval
  <2>3. \A i \in 1..m : \E k \in K : R[k] = i
    <3> HIDE DEF R
    <3>1. R \in Surjection(K, 1..m)
      BY <2>1, <2>2, FS_Injection DEF m
    <3>2. QED  BY <3>1 DEF Surjection
  <2>4. QED  BY <2>3
<1>7. \A i \in 1..m : Nth(K, i) \in K /\ r(Nth(K, i)) = i
  <2> SUFFICES ASSUME NEW i \in 1..m  PROVE Nth(K, i) \in K /\ r(Nth(K, i)) = i
    OBVIOUS
  <2>1. \E k \in K : r(k) = i
    BY <1>6
  <2>2. Nth(K, i) = CHOOSE k \in K : r(k) = i
    BY DEF Nth, Upto, r
  <2>3. QED  BY <2>1, <2>2
<1>8. ASSUME NEW i \in 1..m, NEW j \in 1..m, i < j  PROVE Nth(K, i) < Nth(K, j)
  <2>1. Nth(K, i) \in K /\ Nth(K, j) \in K /\ r(Nth(K, i)) = i /\ r(Nth(K, j)) = j
    BY <1>7
  <2>2. Nth(K, i) \in Nat /\ Nth(K, j) \in Nat
    BY <1>2, <2>1
  <2>3. i \in Nat /\ j \in Nat
    BY <1>1
  <2>4. Nth(K, j) < Nth(K, i) => r(Nth(K, j)) < r(Nth(K, i))
    BY <1>4, <2>1
  <2>5. ~(Nth(K, j) < Nth(K, i)) /\ Nth(K, i) # Nth(K, j)
    BY <1>8, <2>1, <2>3, <2>4
  <2>6. QED  BY <2>2, <2>5
<1>9. \A k \in K : \E i \in 1..m : Nth(K, i) = k
  <2> SUFFICES ASSUME NEW k \in K  PROVE \E i \in 1..m : Nth(K, i) = k
    OBVIOUS
  <2>1. r(k) \in 1..m /\ r(Nth(K, r(k))) = r(k) /\ Nth(K, r(k)) \in K
    BY <1>3, <1>7
  <2>2. Nth(K, r(k)) = k
    BY <1>5, <2>1
  <2>3. QED  BY <2>1, <2>2
<1>10. \A k \in K : k \in Nat
  BY <1>2
<1>11. Lists([i \in 1..m |-> Nth(K, i)], K, m)
  BY <1>1, <1>7, <1>8, <1>9, <1>10 DEF Lists
<1>12. QED  BY <1>11 DEF m

\* x in front of s.
Cons(x, s) == <<x>> \o s

Where(c, S) == {k \in DOMAIN c : c[k] \in S}

\* The values d in those cells of c that are in S.
Vals(c, d, S) == LET cells == Select(c, Where(c, S))
                 IN [k \in DOMAIN cells |-> d[cells[k]]]

LEMMA SelectIs ==
  ASSUME NEW s, NEW K, NEW m, NEW f, Lists(f, K, m)
  PROVE  Select(s, K) = [i \in 1..m |-> s[f[i]]]
<1>1. Cardinality(K) = m /\ \A i \in 1..m : Nth(K, i) = f[i]
  BY ListsNth
<1>2. QED  BY <1>1 DEF Select

LEMMA ValsIs ==
  ASSUME NEW c, NEW d, NEW S, NEW m, NEW f, Lists(f, Where(c, S), m)
  PROVE  Vals(c, d, S) = [i \in 1..m |-> d[c[f[i]]]]
<1> DEFINE cells == Select(c, Where(c, S))
<1>1. cells = [i \in 1..m |-> c[f[i]]]
  BY SelectIs
<1>2. DOMAIN cells = 1..m /\ \A i \in 1..m : cells[i] = c[f[i]]
  BY <1>1
<1>3. Vals(c, d, S) = [k \in DOMAIN cells |-> d[cells[k]]]
  BY DEF Vals
<1> HIDE DEF cells
<1>4. QED  BY <1>2, <1>3

\* The places of the cells that are in S can be listed.
LEMMA Placed ==
  ASSUME NEW N, NEW c \in Seq(N), NEW S
  PROVE  /\ IsFiniteSet(Where(c, S)) /\ Where(c, S) \in SUBSET Nat
         /\ \E m \in Nat : \E f : Lists(f, Where(c, S), m)
<1>1. Len(c) \in Nat /\ DOMAIN c = 1..Len(c)
  OBVIOUS
<1>2. Where(c, S) \in SUBSET (1..Len(c)) /\ Where(c, S) \in SUBSET Nat
  BY <1>1 DEF Where
<1>3. IsFiniteSet(1..Len(c))
  BY <1>1, FS_Interval
<1>4. IsFiniteSet(Where(c, S))
  BY <1>2, <1>3, FS_Subset
<1>5. Cardinality(Where(c, S)) \in Nat
  BY <1>4, FS_CardinalityType
<1>6. Lists([i \in 1..Cardinality(Where(c, S)) |-> Nth(Where(c, S), i)],
            Where(c, S), Cardinality(Where(c, S)))
  BY <1>2, <1>4, NthLists
<1>7. QED  BY <1>2, <1>4, <1>5, <1>6

LEMMA ValsType ==
  ASSUME NEW N, NEW c \in Seq(N), NEW d, NEW S, NEW V,
         \A k \in Where(c, S) : d[c[k]] \in V
  PROVE  Vals(c, d, S) \in Seq(V)
<1>1. PICK m \in Nat : \E f : Lists(f, Where(c, S), m)
  BY Placed
<1>2. PICK f : Lists(f, Where(c, S), m)
  BY <1>1
<1>3. \A i \in 1..m : d[c[f[i]]] \in V
  BY <1>2, Listed
<1>4. [i \in 1..m |-> d[c[f[i]]]] \in Seq(V)
  BY <1>3, SeqDef
<1>5. QED  BY <1>2, <1>4, ValsIs

\* The same values in the same order at other places of other cells.
LEMMA Reindexed ==
  ASSUME NEW N, NEW c \in Seq(N), NEW S, NEW d, NEW c2 \in Seq(N), NEW S2, NEW d2,
         NEW e \in [Where(c, S) -> Where(c2, S2)],
         \A k, l \in Where(c, S) : k < l => e[k] < e[l],
         \A k \in Where(c2, S2) : \E l \in Where(c, S) : e[l] = k,
         \A k \in Where(c, S) : d2[c2[e[k]]] = d[c[k]]
  PROVE  Vals(c2, d2, S2) = Vals(c, d, S)
<1>1. PICK m \in Nat : \E f : Lists(f, Where(c, S), m)
  BY Placed
<1>2. PICK f : Lists(f, Where(c, S), m)
  BY <1>1
<1> DEFINE g == [i \in 1..m |-> e[f[i]]]
<1>3. /\ \A k \in Where(c, S) : \E i \in 1..m : f[i] = k
      /\ \A i \in 1..m : f[i] \in Where(c, S)
      /\ \A i, j \in 1..m : i < j <=> f[i] < f[j]
  BY <1>2, Listed
<1>4. Lists(g, Where(c2, S2), m)
  <2>1. g \in [1..m -> Where(c2, S2)]
    BY <1>3
  <2>2. \A k \in Where(c2, S2) : k \in Nat /\ \E i \in 1..m : g[i] = k
    <3>1. \A k \in Where(c2, S2) : k \in Nat
      BY Placed
    <3>2. QED  BY <1>3, <3>1
  <2>3. \A i, j \in 1..m : i < j => g[i] < g[j]
    BY <1>3
  <2>4. QED  BY <2>1, <2>2, <2>3 DEF Lists
<1>5. \A i \in 1..m : d2[c2[g[i]]] = d[c[f[i]]]
  BY <1>3
<1>6. Vals(c, d, S) = [i \in 1..m |-> d[c[f[i]]]]
  BY <1>2, ValsIs
<1>7. Vals(c2, d2, S2) = [i \in 1..m |-> d2[c2[g[i]]]]
  BY <1>4, ValsIs
<1> HIDE DEF g
<1>8. QED  BY <1>5, <1>6, <1>7

LEMMA ValsSame ==
  ASSUME NEW N, NEW c \in Seq(N), NEW S, NEW d, NEW S2, NEW d2,
         Where(c, S) = Where(c, S2), \A k \in Where(c, S) : d2[c[k]] = d[c[k]]
  PROVE  Vals(c, d2, S2) = Vals(c, d, S)
<1> DEFINE e == [k \in Where(c, S) |-> k]
<1>1. e \in [Where(c, S) -> Where(c, S2)] /\ \A k \in Where(c, S) : e[k] = k
  OBVIOUS
<1> HIDE DEF e
<1>2. QED  BY <1>1, Reindexed

\* p is the place of the first of the cells in S, and S2 has the others.
Splits(p, c, S, S2) ==
  /\ p \in Where(c, S) /\ \A k \in Where(c, S) : p <= k
  /\ \A k : k \in Where(c, S2) <=> k \in Where(c, S) /\ k # p

LEMMA FirstValue ==
  ASSUME NEW N, NEW c \in Seq(N), NEW S, NEW d, NEW S2, NEW p, Splits(p, c, S, S2)
  PROVE  Vals(c, d, S) = Cons(d[c[p]], Vals(c, d, S2))
<1> USE DEF Splits
<1>1. PICK m \in Nat : \E f : Lists(f, Where(c, S2), m)
  BY Placed
<1>2. PICK f : Lists(f, Where(c, S2), m)
  BY <1>1
<1> DEFINE g == [i \in 1..m + 1 |-> IF i = 1 THEN p ELSE f[i - 1]]
<1>3. /\ \A k \in Where(c, S2) : \E i \in 1..m : f[i] = k
      /\ \A i \in 1..m : f[i] \in Where(c, S2) /\ f[i] \in Where(c, S) /\ p < f[i] /\ f[i] \in Nat
      /\ \A i, j \in 1..m : i < j => f[i] < f[j]
  <2>1. /\ \A k \in Where(c, S2) : \E i \in 1..m : f[i] = k
        /\ \A i \in 1..m : f[i] \in Where(c, S2) /\ f[i] \in Nat
        /\ \A i, j \in 1..m : i < j => f[i] < f[j]
    BY <1>2, Listed
  <2>2. p \in Nat
    BY Placed
  <2>3. ASSUME NEW i \in 1..m  PROVE f[i] \in Where(c, S) /\ p < f[i]
    <3>1. f[i] \in Where(c, S) /\ f[i] # p /\ p <= f[i]
      BY <2>1
    <3>2. QED  BY <2>1, <2>2, <3>1
  <2>4. QED  BY <2>1, <2>3
<1>4. \A i \in 1..m + 1 : i # 1 => i - 1 \in 1..m
  OBVIOUS
<1>5. Lists(g, Where(c, S), m + 1)
  <2>1. g \in [1..m + 1 -> Where(c, S)]
    BY <1>3, <1>4
  <2>2. ASSUME NEW k \in Where(c, S)  PROVE k \in Nat /\ \E i \in 1..m + 1 : g[i] = k
    <3>1. k \in Nat
      BY Placed
    <3>2. CASE k = p
      BY <3>1, <3>2
    <3>3. CASE k # p
      <4>1. PICK i \in 1..m : f[i] = k
        BY <1>3, <3>3
      <4>2. i + 1 \in 1..m + 1 /\ i + 1 # 1 /\ (i + 1) - 1 = i
        OBVIOUS
      <4>3. g[i + 1] = k
        BY <4>1, <4>2
      <4>4. QED  BY <3>1, <4>2, <4>3
    <3>4. QED  BY <3>2, <3>3
  <2>3. ASSUME NEW i \in 1..m + 1, NEW j \in 1..m + 1, i < j  PROVE g[i] < g[j]
    <3>1. j # 1 /\ j - 1 \in 1..m
      BY <1>4, <2>3
    <3>2. CASE i = 1
      BY <1>3, <3>1, <3>2
    <3>3. CASE i # 1
      <4>1. i - 1 \in 1..m /\ i - 1 < j - 1
        BY <1>4, <2>3, <3>3
      <4>2. f[i - 1] < f[j - 1]
        BY <1>3, <3>1, <4>1
      <4>3. QED  BY <3>1, <3>3, <4>2
    <3>4. QED  BY <3>2, <3>3
  <2>4. QED  BY <2>1, <2>2, <2>3 DEF Lists
<1>6. Vals(c, d, S) = [i \in 1..m + 1 |-> d[c[g[i]]]]
  <2> HIDE DEF g
  <2>1. QED  BY <1>5, ValsIs
<1>7. Vals(c, d, S2) = [i \in 1..m |-> d[c[f[i]]]]
  BY <1>2, ValsIs
<1> DEFINE a == [i \in 1..m + 1 |-> d[c[g[i]]]]
           b == [i \in 1..m |-> d[c[f[i]]]]
           V == {d[c[k]] : k \in Where(c, S)}
<1>8. a \in Seq(V) /\ Len(a) = m + 1 /\ \A i \in 1..m + 1 : a[i] = d[c[g[i]]]
  <2>1. \A i \in 1..m + 1 : d[c[g[i]]] \in V
    BY <1>3, <1>4
  <2> HIDE DEF g
  <2>2. QED  BY <2>1, SeqDef, LenProperties
<1>9. b \in Seq(V) /\ Len(b) = m /\ \A i \in 1..m : b[i] = d[c[f[i]]]
  <2>1. \A i \in 1..m : d[c[f[i]]] \in V
    BY <1>3
  <2>2. QED  BY <2>1, SeqDef, LenProperties
<1>10. d[c[p]] \in V
  OBVIOUS
<1>11. \A i \in 1..m + 1 : a[i] = IF i = 1 THEN d[c[p]] ELSE b[i - 1]
  BY <1>4, <1>8, <1>9
<1> HIDE DEF a, b, V, g
<1>12. a = <<d[c[p]]>> \o b
  <2>1. <<d[c[p]]>> \o b \in Seq(V) /\ Len(<<d[c[p]]>> \o b) = m + 1
    BY <1>9, <1>10
  <2>2. \A i \in 1..m + 1 : (<<d[c[p]]>> \o b)[i] = IF i = 1 THEN d[c[p]] ELSE b[i - 1]
    BY <1>9, <1>10
  <2>3. QED  BY <1>8, <1>11, <2>1, <2>2, SeqEqual
<1>13. QED  BY <1>6, <1>7, <1>12 DEF a, b, Cons

\* s without its elements in P.
Dropping(s, P) == Select(s, {k \in DOMAIN s : s[k] \notin P})

\* Selecting from the values is selecting from the cells.
LEMMA ValuesWithout ==
  ASSUME NEW N, NEW c \in Seq(N), NEW S, NEW d, NEW P, NEW T,
         \A k \in DOMAIN c : c[k] \in T <=> c[k] \in S /\ d[c[k]] \notin P
  PROVE  Vals(c, d, T) = Dropping(Vals(c, d, S), P)
<1>1. PICK m \in Nat : \E f : Lists(f, Where(c, S), m)
  BY Placed
<1>2. PICK f : Lists(f, Where(c, S), m)
  BY <1>1
<1>3. /\ \A k \in Where(c, S) : \E i \in 1..m : f[i] = k
      /\ \A i \in 1..m : f[i] \in Where(c, S) /\ f[i] \in Nat
      /\ \A i, j \in 1..m : i < j => f[i] < f[j]
  <2> DEFINE W == Where(c, S)
  <2>1. Lists(f, W, m)
    BY <1>2
  <2> HIDE DEF W
  <2>2. /\ m \in Nat /\ \A k \in W : \E i \in 1..m : f[i] = k
        /\ \A i \in 1..m : i \in Nat /\ f[i] \in W /\ f[i] \in Nat
        /\ \A i, j \in 1..m : (i < j <=> f[i] < f[j]) /\ (f[i] = f[j] => i = j)
    BY <2>1, Listed
  <2>3. QED  BY <2>2 DEF W
<1> DEFINE v == Vals(c, d, S)
           K == {k \in DOMAIN v : v[k] \notin P}
<1>4. DOMAIN v = 1..m /\ \A i \in 1..m : v[i] = d[c[f[i]]]
  <2>1. v = [i \in 1..m |-> d[c[f[i]]]]
    BY <1>2, ValsIs
  <2> HIDE DEF v
  <2>2. QED  BY <2>1
<1> HIDE DEF v
<1>5. PICK l \in Nat : \E h : Lists(h, K, l)
  <2>1. K \in SUBSET (1..m) /\ K \in SUBSET Nat
    BY <1>4
  <2>2. IsFiniteSet(K)
    <3>1. IsFiniteSet(1..m)
      BY FS_Interval
    <3> HIDE DEF K
    <3>2. QED  BY <2>1, <3>1, FS_Subset
  <2>3. Cardinality(K) \in Nat
    BY <2>2, FS_CardinalityType
  <2> HIDE DEF K
  <2>4. Lists([i \in 1..Cardinality(K) |-> Nth(K, i)], K, Cardinality(K))
    BY <2>1, <2>2, NthLists
  <2>5. QED  BY <2>3, <2>4
<1>6. PICK h : Lists(h, K, l)
  BY <1>5
<1>7. /\ \A k \in K : \E i \in 1..l : h[i] = k
      /\ \A i \in 1..l : h[i] \in K
      /\ \A i, j \in 1..l : i < j => h[i] < h[j]
  <2> HIDE DEF K
  <2>1. QED  BY <1>6, Listed
<1>8. \A i \in 1..m : i \in K <=> f[i] \in Where(c, T)
  BY <1>3, <1>4 DEF Where
<1>9. K \subseteq 1..m
  BY <1>4
<1> HIDE DEF K
<1> DEFINE g == [i \in 1..l |-> f[h[i]]]
<1>10. Lists(g, Where(c, T), l)
  <2>1. g \in [1..l -> Where(c, T)]
    BY <1>7, <1>8, <1>9
  <2>2. ASSUME NEW k \in Where(c, T)  PROVE k \in Nat /\ \E i \in 1..l : g[i] = k
    <3>1. k \in Where(c, S)
      BY DEF Where
    <3>2. PICK j \in 1..m : f[j] = k
      BY <1>3, <3>1
    <3>3. j \in K
      BY <1>8, <3>2
    <3>4. PICK i \in 1..l : h[i] = j
      BY <1>7, <3>3
    <3>5. QED  BY <1>3, <3>2, <3>4
  <2>3. ASSUME NEW i \in 1..l, NEW j \in 1..l, i < j  PROVE g[i] < g[j]
    <3>1. h[i] < h[j] /\ h[i] \in 1..m /\ h[j] \in 1..m
      BY <1>7, <1>9, <2>3
    <3>2. QED  BY <1>3, <3>1
  <2>4. QED  BY <2>1, <2>2, <2>3 DEF Lists
<1>11. \A i \in 1..l : g[i] = f[h[i]] /\ v[h[i]] = d[c[f[h[i]]]]
  BY <1>4, <1>7, <1>9
<1> HIDE DEF g
<1>12. Vals(c, d, T) = [i \in 1..l |-> d[c[g[i]]]]
  BY <1>10, ValsIs
<1>13. Select(v, K) = [i \in 1..l |-> v[h[i]]]
  BY <1>6, SelectIs
<1>14. Vals(c, d, T) = Select(v, K)
  BY <1>11, <1>12, <1>13
<1>15. QED  BY <1>14 DEF v, K, Dropping

Hits(s, P) == {k \in DOMAIN s : s[k] \in P}

LEMMA HitsListed ==
  ASSUME NEW V, NEW s \in Seq(V), NEW P
  PROVE  /\ Hits(s, P) \in SUBSET (1..Len(s)) /\ Len(s) \in Nat
         /\ UpToFirst(s, P) = IF Hits(s, P) = {} THEN s ELSE SubSeq(s, 1, Nth(Hits(s, P), 1))
         /\ Hits(s, P) # {} => \E m \in Nat : m >= 1 /\ \E f : Lists(f, Hits(s, P), m)
<1>1. Len(s) \in Nat /\ Hits(s, P) \in SUBSET (1..Len(s)) /\ Hits(s, P) \in SUBSET Nat
  BY DEF Hits
<1>2. UpToFirst(s, P) = IF Hits(s, P) = {} THEN s ELSE SubSeq(s, 1, Nth(Hits(s, P), 1))
  BY DEF UpToFirst, Hits
<1>3. ASSUME Hits(s, P) # {}
      PROVE  \E m \in Nat : m >= 1 /\ \E f : Lists(f, Hits(s, P), m)
  <2>1. IsFiniteSet(1..Len(s))
    BY <1>1, FS_Interval
  <2>2. IsFiniteSet(Hits(s, P))
    BY <1>1, <2>1, FS_Subset
  <2>3. Cardinality(Hits(s, P)) \in Nat /\ Cardinality(Hits(s, P)) # 0
    BY <1>3, <2>2, FS_CardinalityType, FS_EmptySet
  <2>4. Lists([i \in 1..Cardinality(Hits(s, P)) |-> Nth(Hits(s, P), i)],
              Hits(s, P), Cardinality(Hits(s, P)))
    BY <1>1, <2>2, NthLists
  <2>5. Cardinality(Hits(s, P)) >= 1
    BY <2>3
  <2>6. QED  BY <2>3, <2>4, <2>5
<1>4. QED  BY <1>1, <1>2, <1>3

LEMMA UpToFirstType ==
  ASSUME NEW V, NEW s \in Seq(V), NEW P
  PROVE  UpToFirst(s, P) \in Seq(V)
<1>1. CASE Hits(s, P) = {}
  BY <1>1, HitsListed
<1>2. CASE Hits(s, P) # {}
  <2>1. PICK m \in Nat : m >= 1 /\ \E f : Lists(f, Hits(s, P), m)
    BY <1>2, HitsListed
  <2>2. PICK f : Lists(f, Hits(s, P), m)
    BY <2>1
  <2>3. 1 \in 1..m
    BY <2>1
  <2>4. Nth(Hits(s, P), 1) \in Hits(s, P)
    BY <2>2, <2>3, Listed, ListsNth
  <2>5. Len(s) \in Nat /\ Nth(Hits(s, P), 1) \in 1..Len(s)
    BY <2>4, HitsListed
  <2>6. SubSeq(s, 1, Nth(Hits(s, P), 1)) \in Seq(V)
    BY <2>5, SubSeqProperties
  <2>7. QED  BY <1>2, <2>6, HitsListed
<1>3. QED  BY <1>1, <1>2

\* Put in front, x is the first value in P if it is in P, and makes no difference if not.
LEMMA UpToFirstOfCons ==
  ASSUME NEW V, NEW x \in V, NEW r \in Seq(V), NEW P
  PROVE  /\ x \in P => UpToFirst(Cons(x, r), P) = <<x>>
         /\ x \notin P => UpToFirst(Cons(x, r), P) = Cons(x, UpToFirst(r, P))
<1> DEFINE s == <<x>> \o r
<1>1. /\ s \in Seq(V) /\ Len(r) \in Nat /\ Len(s) = Len(r) + 1 /\ DOMAIN s = 1..Len(r) + 1
      /\ DOMAIN r = 1..Len(r) /\ \A k \in 1..Len(r) + 1 : s[k] = IF k = 1 THEN x ELSE r[k - 1]
  OBVIOUS
<1>2. UpToFirst(s, P) = IF Hits(s, P) = {} THEN s ELSE SubSeq(s, 1, Nth(Hits(s, P), 1))
  BY <1>1, HitsListed
<1>3. UpToFirst(r, P) = IF Hits(r, P) = {} THEN r ELSE SubSeq(r, 1, Nth(Hits(r, P), 1))
  BY HitsListed
<1>4. \A k \in Hits(s, P) : k \in 1..Len(r) + 1 /\ s[k] \in P
  BY <1>1 DEF Hits
<1>5. \A k \in Hits(r, P) : k \in 1..Len(r) /\ r[k] \in P
  BY <1>1 DEF Hits
<1>6. CASE x \in P
  <2>1. 1 \in Hits(s, P)
    BY <1>1, <1>6 DEF Hits
  <2>2. PICK m \in Nat : m >= 1 /\ \E f : Lists(f, Hits(s, P), m)
    BY <1>1, <2>1, HitsListed
  <2>3. PICK f : Lists(f, Hits(s, P), m)
    BY <2>2
  <2> HIDE DEF s
  <2>4. PICK i \in 1..m : f[i] = 1
    BY <2>1, <2>3, Listed
  <2>5. 1 \in 1..m /\ (1 < i => f[1] < f[i]) /\ f[1] \in Hits(s, P) /\ f[1] \in Nat
    BY <2>2, <2>3, Listed
  <2>6. f[1] >= 1
    BY <1>4, <2>5
  <2>7. f[1] = 1
    BY <2>4, <2>5, <2>6
  <2>8. Nth(Hits(s, P), 1) = 1
    BY <2>3, <2>5, <2>7, ListsNth
  <2>9. SubSeq(s, 1, 1) = <<x>>
    <3>1. SubSeq(s, 1, 1) \in Seq(V) /\ Len(SubSeq(s, 1, 1)) = 1 /\ SubSeq(s, 1, 1)[1] = x
      BY <1>1, SubSeqProperties
    <3>2. <<x>> \in Seq(V) /\ Len(<<x>>) = 1 /\ <<x>>[1] = x
      OBVIOUS
    <3>3. \A k \in 1..1 : SubSeq(s, 1, 1)[k] = <<x>>[k]
      BY <3>1, <3>2
    <3>4. QED  BY <3>1, <3>2, <3>3, SeqEqual
  <2>10. UpToFirst(s, P) = <<x>>
    BY <1>2, <2>1, <2>8, <2>9
  <2>11. QED  BY <1>6, <2>10 DEF s, Cons
<1>7. CASE x \notin P
  <2>1. \A k \in Nat : k + 1 \in Hits(s, P) <=> k \in Hits(r, P)
    BY <1>1, <1>7 DEF Hits
  <2>2. \A k \in Hits(s, P) : k - 1 \in Hits(r, P) /\ k - 1 \in Nat
    BY <1>1, <1>7 DEF Hits
  <2>3. CASE Hits(r, P) = {}
    <3>1. Hits(s, P) = {}
      BY <2>2, <2>3
    <3>2. UpToFirst(s, P) = <<x>> \o UpToFirst(r, P)
      BY <1>2, <1>3, <2>3, <3>1
    <3>3. QED  BY <1>7, <3>2 DEF s, Cons
  <2>4. CASE Hits(r, P) # {}
    <3>1. PICK m \in Nat : m >= 1 /\ \E f : Lists(f, Hits(r, P), m)
      BY <2>4, HitsListed
    <3>2. PICK f : Lists(f, Hits(r, P), m)
      BY <3>1
    <3>3. /\ \A k \in Hits(r, P) : \E i \in 1..m : f[i] = k
          /\ \A i \in 1..m : f[i] \in Hits(r, P) /\ f[i] \in Nat
          /\ \A i, j \in 1..m : i < j => f[i] < f[j]
      BY <3>2, Listed
    <3> DEFINE g == [i \in 1..m |-> f[i] + 1]
    <3>4. Lists(g, Hits(s, P), m)
      <4>1. g \in [1..m -> Hits(s, P)]
        BY <2>1, <3>3
      <4>2. ASSUME NEW k \in Hits(s, P)  PROVE k \in Nat /\ \E i \in 1..m : g[i] = k
        <5>1. k - 1 \in Hits(r, P) /\ k - 1 \in Nat /\ k \in Nat
          BY <1>4, <2>2
        <5>2. PICK i \in 1..m : f[i] = k - 1
          BY <3>3, <5>1
        <5>3. g[i] = k
          BY <5>1, <5>2
        <5>4. QED  BY <5>1, <5>3
      <4>3. \A i, j \in 1..m : i < j => g[i] < g[j]
        BY <3>3
      <4>4. QED  BY <4>1, <4>2, <4>3 DEF Lists
    <3>5. 1 \in 1..m /\ f[1] \in 1..Len(r) /\ g[1] = f[1] + 1
      BY <1>5, <3>1, <3>3
    <3> HIDE DEF g, s
    <3>6. Nth(Hits(r, P), 1) = f[1] /\ Nth(Hits(s, P), 1) = f[1] + 1
      BY <3>2, <3>4, <3>5, ListsNth
    <3>7. Hits(s, P) # {}
      BY <2>1, <3>3, <3>5
    <3>8. SubSeq(s, 1, f[1] + 1) = <<x>> \o SubSeq(r, 1, f[1])
      <4> DEFINE a == SubSeq(s, 1, f[1] + 1)
                 b == SubSeq(r, 1, f[1])
      <4>1. a \in Seq(V) /\ Len(a) = f[1] + 1 /\ \A k \in 1..f[1] + 1 : a[k] = s[k]
        BY <1>1, <3>5
      <4>2. b \in Seq(V) /\ Len(b) = f[1] /\ \A k \in 1..f[1] : b[k] = r[k]
        BY <1>1, <3>5
      <4> HIDE DEF a, b
      <4>3. <<x>> \o b \in Seq(V) /\ Len(<<x>> \o b) = f[1] + 1
        BY <3>5, <4>2
      <4>4. \A k \in 1..f[1] + 1 : (<<x>> \o b)[k] = IF k = 1 THEN x ELSE b[k - 1]
        BY <3>5, <4>2
      <4>5. \A k \in 1..f[1] + 1 : a[k] = (<<x>> \o b)[k]
        <5> SUFFICES ASSUME NEW k \in 1..f[1] + 1  PROVE a[k] = (<<x>> \o b)[k]
          OBVIOUS
        <5>1. k \in 1..Len(r) + 1 /\ a[k] = s[k] /\ (k # 1 => k - 1 \in 1..f[1])
          BY <1>1, <3>5, <4>1
        <5>2. s[k] = (IF k = 1 THEN x ELSE r[k - 1])
          BY <1>1, <5>1
        <5>3. (<<x>> \o b)[k] = IF k = 1 THEN x ELSE b[k - 1]
          BY <4>4
        <5>4. k # 1 => b[k - 1] = r[k - 1]
          BY <4>2, <5>1
        <5>5. QED  BY <5>1, <5>2, <5>3, <5>4
      <4>6. a = <<x>> \o b
        BY <4>1, <4>3, <4>5, SeqEqual
      <4>7. QED  BY <4>6 DEF a, b
    <3>9. UpToFirst(s, P) = <<x>> \o UpToFirst(r, P)
      BY <1>2, <1>3, <2>4, <3>6, <3>7, <3>8
    <3>10. QED  BY <1>7, <3>9 DEF s, Cons
  <2>5. QED  BY <2>3, <2>4
<1>8. QED  BY <1>6, <1>7

LEMMA NothingLeft ==
  ASSUME NEW N, NEW c \in Seq(N), NEW d, NEW P
  PROVE  Vals(c, d, {}) = <<>> /\ UpToFirst(<<>>, P) = <<>>
<1>1. \A k \in Where(c, {}) : d[c[k]] \in {}
  BY DEF Where
<1>2. Vals(c, d, {}) \in Seq({})
  BY <1>1, ValsType
<1>3. \A s \in Seq({}) : s = <<>>
  <2> SUFFICES ASSUME NEW s \in Seq({}), s # <<>>  PROVE FALSE
    OBVIOUS
  <2>1. Len(s) \in Nat /\ Len(s) # 0
    BY EmptySeq
  <2>2. 1 \in 1..Len(s)
    BY <2>1
  <2>3. QED  BY <2>2, ElementOfSeq
<1>4. UpToFirst(<<>>, P) = <<>>
  BY DEF UpToFirst
<1>5. QED  BY <1>2, <1>3, <1>4

LEMMA AppendThen ==
  ASSUME NEW V, NEW s \in Seq(V), NEW x \in V, NEW r \in Seq(V)
  PROVE  s \o Cons(x, r) = Append(s, x) \o r
<1>1. <<x>> \in Seq(V)
  OBVIOUS
<1>2. Append(s, x) = s \o <<x>>
  BY AppendIsConcat
<1>3. s \o (<<x>> \o r) = (s \o <<x>>) \o r
  BY <1>1, ConcatAssociative
<1>4. QED  BY <1>2, <1>3 DEF Cons

-----------------------------------------------------------------------------
(* The list *)

USE NullAssumption, NodeAssumption, CallsAssumption DEF Cell

-----------------------------------------------------------------------------
(* The inductive invariant *)

Traversing(t) == pc[t] \in {"next", "lock_next", "unlock", "test", "unlock_dead", "delete"}

\* find_first_if calls its predicate with only the next node locked.
LetGo(t) == pc[t] = "test" /\ op[t] = "find_first_if"

\* Where a thread is in its operation decides which of its locals are in use.
CallInv ==
  \A t \in Thread :
    /\ pc[t] # "idle" => op[t] \in Op
    /\ pc[t] \in {"link", "set_front"} => op[t] = "push_front"
    /\ Traversing(t) => op[t] \in {"find_first_if", "remove_if"}
    /\ pc[t] = "unlock" => op[t] = "find_first_if"
    /\ pc[t] \in {"unlock_dead", "delete"} => op[t] = "remove_if" /\ own[t] = nxt[t]
    /\ own[t] # Null <=> \/ op[t] = "push_front" /\ pc[t] \in {"lock_front", "link", "set_front"}
                         \/ pc[t] \in {"unlock_dead", "delete"}
    /\ nxt[t] # Null <=> pc[t] \in {"lock_next", "unlock", "test", "unlock_dead", "delete"}
    /\ cur[t] # Null <=> Traversing(t)

\* The mutexes a thread holds.
Held(t) == CASE pc[t] \in {"link", "set_front", "test_empty"} -> {Front}
             [] pc[t] \in {"next", "lock_next", "delete"} -> {cur[t]}
             [] pc[t] \in {"unlock", "unlock_dead"} -> {cur[t], nxt[t]}
             [] pc[t] = "test" -> IF LetGo(t) THEN {nxt[t]} ELSE {cur[t], nxt[t]}
             [] OTHER -> {}

LockInv == \A n \in Cell, t \in Thread : mtx[n] = t <=> n \in Held(t)

\* The last cell of the list a traversal holds or, while it waits, has behind it.
Stand(t) == IF LetGo(t) THEN nxt[t] ELSE cur[t]

StandInv ==
  \A t \in Thread : Traversing(t) =>
    /\ Stand(t) \in InChain \cup {Front}
    /\ pc[t] \in {"lock_next", "unlock"} \/ (pc[t] = "test" /\ ~LetGo(t)) => nxt[t] = next[cur[t]]

\* The pointers along the list: from head_, or from the node that is being pushed.
Behind(k) == IF k < Len(chain) THEN chain[k + 1] ELSE Null

ChainInv ==
  /\ \A k \in DOMAIN chain : next[chain[k]] = Behind(k) /\ data[chain[k]] \in Value
  /\ \A k, n \in DOMAIN chain : chain[k] = chain[n] => k = n
  /\ \A t \in Thread : pc[t] = "set_front" => next[own[t]] = Behind(0)
  /\ (\A t \in Thread : pc[t] # "set_front") => next[Front] = Behind(0)

\* Every cell belongs to the list or to one thread.
OwnInv ==
  /\ \A n \in Node : n \in live <=> n \in InChain \/ \E t \in Thread : own[t] = n
  /\ \A t \in Thread : own[t] # Null => own[t] \notin InChain
  /\ \A t, u \in Thread : own[t] # Null /\ own[t] = own[u] => t = u
  /\ \A t \in Thread : op[t] = "push_front" /\ own[t] # Null => data[own[t]] \in Value

\* The place behind which a traversal has cells to see.  What it is still to see
\* lies there; what lies there and it is not to see, a removal further in front is
\* going to unlink; and what a removal is going to unlink, no traversal that
\* follows it is to see.
Pos(t) == IF LetGo(t) THEN Place(nxt[t]) - 1 ELSE Place(cur[t])
ToCome(t) == {n \in InChain : Pos(t) < Place(n)}
Dooms(u, n) == op[u] = "remove_if" /\ n \in ahead[u] /\ data[n] \in arg[u]
Follows(t, u) == t # u /\ Traversing(t) /\ Traversing(u) /\ Pos(t) < Pos(u)

AheadInv ==
  /\ \A t \in Thread : ~Traversing(t) => ahead[t] = {} \/ (pc[t] = "return" /\ op[t] = "find_first_if")
  /\ \A t \in Thread : Traversing(t) => ahead[t] \subseteq ToCome(t)
  /\ \A t \in Thread : Traversing(t) =>
       \A n \in ToCome(t) \ ahead[t] : \E u \in Thread : Follows(t, u) /\ Dooms(u, n)
  /\ \A t, u \in Thread : Follows(t, u) => \A n \in Node : Dooms(u, n) => n \notin ahead[t]

IInv == TypeOK /\ CallInv /\ LockInv /\ StandInv /\ ChainInv /\ OwnInv /\ AheadInv

-----------------------------------------------------------------------------
(* Places in the list *)

LEMMA Places ==
  ASSUME TypeOK, ChainInv
  PROVE  /\ Place(Front) = 0 /\ Front \notin InChain
         /\ \A k \in DOMAIN chain : chain[k] \in Node /\ chain[k] \in InChain /\ Place(chain[k]) = k
         /\ \A n \in InChain : n \in Node /\ Place(n) \in DOMAIN chain /\ chain[Place(n)] = n
<1>1. \A k \in DOMAIN chain : chain[k] \in Node /\ chain[k] \in InChain
  BY DEF TypeOK, InChain
<1>2. ASSUME NEW k \in DOMAIN chain  PROVE Place(chain[k]) = k
  BY <1>1 DEF ChainInv, Place
<1>3. ASSUME NEW n \in InChain  PROVE \E k \in DOMAIN chain : n = chain[k]
  BY DEF InChain
<1>4. QED  BY <1>1, <1>2, <1>3 DEF Place

\* Nobody holds a mutex that another thread holds.
LEMMA Exclusive ==
  ASSUME LockInv, NEW t \in Thread, NEW u \in Thread, NEW n \in Cell, n \in Held(t), n \in Held(u)
  PROVE  t = u
BY DEF LockInv

\* The cell in front of a thread that holds the mutex of cur.
LEMMA InFront ==
  ASSUME IInv, NEW t \in Thread, Traversing(t), ~LetGo(t)
  PROVE  /\ cur[t] \in Held(t) /\ cur[t] \in InChain \cup {Front}
         /\ Place(cur[t]) \in 0..Len(chain)
         /\ next[cur[t]] = Behind(Place(cur[t]))
         /\ next[cur[t]] # Null =>
              /\ next[cur[t]] \in InChain /\ Place(next[cur[t]]) = Place(cur[t]) + 1
              /\ next[cur[t]] # cur[t]
<1> USE DEF IInv
<1>1. cur[t] \in Held(t) /\ cur[t] \in InChain \cup {Front}
  BY DEF Held, Traversing, StandInv, Stand
<1>2. Place(cur[t]) \in 0..Len(chain)
  BY <1>1, Places DEF TypeOK
<1>3. ASSUME cur[t] = Front, NEW u \in Thread, pc[u] = "set_front"  PROVE FALSE
  BY <1>1, <1>3, Exclusive DEF Held, Traversing
<1>4. next[cur[t]] = Behind(Place(cur[t]))
  BY <1>1, <1>3, Places DEF ChainInv
<1>5. ASSUME next[cur[t]] # Null
      PROVE  /\ next[cur[t]] \in InChain /\ Place(next[cur[t]]) = Place(cur[t]) + 1
             /\ next[cur[t]] # cur[t]
  <2>1. Place(cur[t]) + 1 \in DOMAIN chain /\ next[cur[t]] = chain[Place(cur[t]) + 1]
    BY <1>2, <1>4, <1>5 DEF Behind, TypeOK
  <2>2. QED  BY <1>2, <2>1, Places
<1>6. QED  BY <1>1, <1>2, <1>4, <1>5

\* Where traversals may be.
LEMMA Positions ==
  ASSUME IInv, NEW t \in Thread, Traversing(t)
  PROVE  Pos(t) \in 0..Len(chain)
<1> USE DEF IInv
<1>1. CASE LetGo(t)
  <2>1. nxt[t] \in InChain
    <3>1. nxt[t] # Null
      BY <1>1 DEF LetGo, CallInv
    <3>2. QED  BY <1>1, <3>1 DEF StandInv, Stand, TypeOK
  <2>2. QED  BY <1>1, <2>1, Places DEF TypeOK, Pos
<1>2. CASE ~LetGo(t)
  BY <1>2, InFront DEF Pos
<1>3. QED  BY <1>1, <1>2

\* A traversal that has read the pointer has a cell in front of it, and sees it next.
LEMMA SeesNext ==
  ASSUME IInv, NEW t \in Thread, pc[t] \in {"lock_next", "unlock", "test"}
  PROVE  /\ Traversing(t) /\ nxt[t] \in InChain /\ nxt[t] \in Node /\ nxt[t] \in ahead[t]
         /\ Pos(t) \in Nat /\ Place(nxt[t]) = Pos(t) + 1
         /\ ~LetGo(t) => nxt[t] # cur[t]
<1> USE DEF IInv
<1>1. Traversing(t) /\ nxt[t] # Null
  BY DEF Traversing, CallInv
<1>2. nxt[t] \in InChain /\ Place(nxt[t]) = Pos(t) + 1 /\ (~LetGo(t) => nxt[t] # cur[t]) /\ Pos(t) \in Nat
  <2>1. CASE LetGo(t)
    <3>1. nxt[t] \in InChain
      BY <1>1, <2>1 DEF StandInv, Stand, TypeOK
    <3>2. Place(nxt[t]) \in 1..Len(chain)
      BY <3>1, Places DEF TypeOK
    <3>3. QED  BY <2>1, <3>1, <3>2 DEF Pos
  <2>2. CASE ~LetGo(t)
    <3>1. nxt[t] = next[cur[t]]
      BY <1>1, <2>2 DEF StandInv
    <3>2. QED  BY <1>1, <2>2, <3>1, InFront DEF Pos
  <2>3. QED  BY <2>1, <2>2
<1>3. ASSUME nxt[t] \notin ahead[t]  PROVE FALSE
  <2>1. nxt[t] \in ToCome(t)
    BY <1>2 DEF ToCome
  <2>2. PICK u \in Thread : Follows(t, u) /\ Dooms(u, nxt[t])
    BY <1>1, <1>3, <2>1 DEF AheadInv
  <2>3. nxt[t] \in ToCome(u)
    BY <2>2 DEF AheadInv, Follows, Dooms
  <2>4. Pos(u) \in Int
    BY <2>2, Positions DEF Follows
  <2>5. QED  BY <1>2, <2>2, <2>3, <2>4 DEF ToCome, Follows
<1>4. QED  BY <1>1, <1>2, <1>3, Places

\* Two traversals are never at the same place, except that one may follow another
\* that has let go of its node; and the cell a traversal looks at is its own.
LEMMA Distances ==
  ASSUME IInv, NEW t \in Thread, NEW u \in Thread, t # u, Traversing(t), Traversing(u)
  PROVE  /\ ~LetGo(t) /\ ~LetGo(u) => Pos(t) # Pos(u)
         /\ pc[t] = "test" => IF LetGo(u) THEN Pos(u) # Pos(t) ELSE Pos(u) # Pos(t) + 1
<1> USE DEF IInv
<1>1. ASSUME ~LetGo(t), ~LetGo(u), Pos(t) = Pos(u)  PROVE FALSE
  <2>1. /\ cur[t] \in Held(t) /\ cur[t] \in InChain \cup {Front}
        /\ cur[u] \in Held(u) /\ cur[u] \in InChain \cup {Front}
        /\ Place(cur[t]) = Place(cur[u])
    BY <1>1, InFront DEF Pos
  <2>2. cur[t] = cur[u] /\ cur[t] \in Cell
    BY <2>1, Places DEF TypeOK
  <2>3. QED  BY <2>1, <2>2, Exclusive
<1>2. ASSUME pc[t] = "test"
      PROVE IF LetGo(u) THEN Pos(u) # Pos(t) ELSE Pos(u) # Pos(t) + 1
  <2>1. /\ nxt[t] \in Held(t) /\ nxt[t] \in InChain /\ nxt[t] \in Cell
        /\ Place(nxt[t]) = Pos(t) + 1 /\ Pos(t) \in Nat
    BY <1>2, SeesNext DEF Held
  <2>2. CASE LetGo(u)
    <3>1. nxt[u] \in Held(u) /\ nxt[u] \in InChain /\ Place(nxt[u]) = Pos(u) + 1 /\ Pos(u) \in Nat
      BY <2>2, SeesNext DEF Held, LetGo
    <3>2. ASSUME Pos(u) = Pos(t)  PROVE nxt[u] = nxt[t]
      BY <2>1, <3>1, <3>2, Places
    <3>3. QED  BY <2>1, <2>2, <3>1, <3>2, Exclusive
  <2>3. CASE ~LetGo(u)
    <3>1. cur[u] \in Held(u) /\ cur[u] \in InChain \cup {Front} /\ Pos(u) = Place(cur[u])
      BY <2>3, InFront DEF Pos
    <3>2. ASSUME Pos(u) = Pos(t) + 1  PROVE cur[u] = nxt[t]
      <4>1. Place(cur[u]) = Place(nxt[t]) /\ Place(cur[u]) # 0
        BY <2>1, <3>1, <3>2
      <4>2. cur[u] \in InChain
        BY <3>1, <4>1, Places
      <4>3. QED  BY <2>1, <4>1, <4>2, Places
    <3>3. QED  BY <2>1, <2>3, <3>1, <3>2, Exclusive
  <2>4. QED  BY <2>2, <2>3
<1>3. QED  BY <1>1, <1>2

-----------------------------------------------------------------------------
(* What the steps that change the list do to it *)

\* A sequence without its element number j.
LEMMA RemoveAtProperties ==
  ASSUME NEW S, NEW s \in Seq(S), NEW j \in DOMAIN s
  PROVE  /\ SeqExt!RemoveAt(s, j) \in Seq(S) /\ Len(SeqExt!RemoveAt(s, j)) = Len(s) - 1
         /\ \A k \in 1..Len(s) - 1 :
              SeqExt!RemoveAt(s, j)[k] = IF k < j THEN s[k] ELSE s[k + 1]
<1> DEFINE a == SubSeq(s, 1, j - 1)
           b == SubSeq(s, j + 1, Len(s))
<1>1. Len(s) \in Nat /\ j \in 1..Len(s)
  OBVIOUS
<1>2. a \in Seq(S) /\ Len(a) = j - 1 /\ \A k \in 1..j - 1 : a[k] = s[k]
  BY <1>1
<1>3. b \in Seq(S) /\ Len(b) = Len(s) - j /\ \A k \in 1..Len(s) - j : b[k] = s[k + j]
  BY <1>1
<1>4. SeqExt!RemoveAt(s, j) = a \o b
  BY DEF SeqExt!RemoveAt
<1> HIDE DEF a, b
<1>5. a \o b \in Seq(S) /\ Len(a \o b) = Len(s) - 1
  BY <1>1, <1>2, <1>3
<1>6. ASSUME NEW k \in 1..Len(s) - 1  PROVE (a \o b)[k] = IF k < j THEN s[k] ELSE s[k + 1]
  <2>1. (a \o b)[k] = IF k <= Len(a) THEN a[k] ELSE b[k - Len(a)]
    BY <1>1, <1>2, <1>3
  <2>2. CASE k < j
    BY <1>1, <1>2, <2>1, <2>2
  <2>3. CASE ~(k < j)
    <3>1. k - (j - 1) \in 1..Len(s) - j /\ (k - (j - 1)) + j = k + 1
      BY <1>1, <2>3
    <3>2. b[k - (j - 1)] = s[k + 1]
      BY <1>3, <3>1
    <3>3. QED  BY <1>1, <1>2, <2>1, <2>3, <3>2
  <2>4. QED  BY <2>2, <2>3
<1>7. QED  BY <1>4, <1>5, <1>6

LEMMA Removal ==
  ASSUME TypeOK, ChainInv, NEW n \in InChain
  PROVE  /\ Without(n) \in Seq(Node) /\ Len(Without(n)) = Len(chain) - 1
         /\ \A k \in 1..Len(chain) - 1 :
              Without(n)[k] = IF k < Place(n) THEN chain[k] ELSE chain[k + 1]
<1>1. chain \in Seq(Node) /\ Place(n) \in DOMAIN chain
  BY Places DEF TypeOK
<1>2. Without(n) = SeqExt!RemoveAt(chain, Place(n))
  BY DEF Without
<1>3. QED  BY <1>1, <1>2, RemoveAtProperties

-----------------------------------------------------------------------------
(* Every step preserves every conjunct of the inductive invariant *)

LEMMA Actions ==
  ASSUME NEW t \in Thread, Start(t) \/ Step(t)
  PROVE  \/ \E v \in Value : PushCall(t, v)
         \/ \E o \in Op, P \in SUBSET Value : Call(t, o, P)
         \/ LockFront(t) \/ Link(t) \/ SetFront(t) \/ TestEmpty(t)
         \/ ReadNext(t) \/ AtEnd(t) \/ LockNext(t) \/ Unlock(t) \/ Found(t)
         \/ Advance(t) \/ Unlink(t) \/ UnlockDead(t) \/ Delete(t) \/ Return(t)
<1>1. CASE Start(t)
  <2>1. {} \in SUBSET Value /\ "empty" \in Op /\ {"find_first_if", "remove_if"} \subseteq Op
    BY DEF Op
  <2>2. QED  BY <1>1, <2>1 DEF Start
<1>2. CASE Step(t)
  BY <1>2 DEF Step
<1>3. QED  BY <1>1, <1>2

LEMMA TypeStep == IInv /\ [Next]_vars => TypeOK'
<1> SUFFICES ASSUME IInv, [Next]_vars  PROVE TypeOK'
  OBVIOUS
<1> USE DEF IInv, TypeOK, Goto, PcLabel, heap, history
<1>1. ASSUME NEW t \in Thread, NEW v \in Value, PushCall(t, v)  PROVE TypeOK'
  BY <1>1 DEF PushCall, Op
<1>2. ASSUME NEW t \in Thread, NEW o \in Op, NEW P \in SUBSET Value, Call(t, o, P)  PROVE TypeOK'
  BY <1>2 DEF Call
<1>3. ASSUME NEW t \in Thread, LockFront(t)  PROVE TypeOK'
  <2>1. Contents \in SUBSET Node
    BY DEF Contents, InChain
  <2>2. pc' \in [Thread -> PcLabel]
    BY <1>3 DEF LockFront
  <2>3. cur' \in [Thread -> Cell \cup {Null}] /\ ahead' \in [Thread -> SUBSET Node]
    <3>1. CASE op[t] \in {"find_first_if", "remove_if"}
      <4>1. cur' = [cur EXCEPT ![t] = Front] /\ ahead' = [ahead EXCEPT ![t] = Contents]
        BY <1>3, <3>1 DEF LockFront
      <4>2. QED  BY <2>1, <4>1
    <3>2. CASE op[t] \notin {"find_first_if", "remove_if"}
      BY <1>3, <3>2 DEF LockFront
    <3>3. QED  BY <3>1, <3>2
  <2>4. mtx' \in [Cell -> Thread \cup {Null}] /\ \A u \in Thread :
          pc'[u] \in {"lock_next", "unlock", "test"} => nxt'[u] \in Node
    BY <1>3 DEF LockFront
  <2>5. QED  BY <1>3, <2>2, <2>3, <2>4 DEF LockFront
<1>4. ASSUME NEW t \in Thread, Link(t)  PROVE TypeOK'
  BY <1>4 DEF Link, CallInv
<1>5. ASSUME NEW t \in Thread, SetFront(t)  PROVE TypeOK'
  <2>1. own[t] \in Node
    BY <1>5 DEF SetFront, Finish, CallInv
  <2>2. <<own[t]>> \o chain \in Seq(Node)
    BY <2>1
  <2>3. QED  BY <1>5, <2>1, <2>2 DEF SetFront, Finish
<1>6. ASSUME NEW t \in Thread, TestEmpty(t)  PROVE TypeOK'
  BY <1>6 DEF TestEmpty, Finish
<1>7. ASSUME NEW t \in Thread, ReadNext(t)  PROVE TypeOK'
  <2>1. cur[t] \in Cell
    BY <1>7 DEF ReadNext, CallInv, Traversing
  <2>2. QED  BY <1>7, <2>1 DEF ReadNext
<1>8. ASSUME NEW t \in Thread, AtEnd(t)  PROVE TypeOK'
  BY <1>8 DEF AtEnd, Finish
<1>9. ASSUME NEW t \in Thread, LockNext(t)  PROVE TypeOK'
  BY <1>9 DEF LockNext
<1>10. ASSUME NEW t \in Thread, Unlock(t)  PROVE TypeOK'
  BY <1>10 DEF Unlock
<1>11. ASSUME NEW t \in Thread, Found(t)  PROVE TypeOK'
  <2>1. data[nxt[t]] \in Value
    BY <1>11 DEF Found
  <2>2. QED  BY <1>11, <2>1 DEF Found, Finish, See
<1>12. ASSUME NEW t \in Thread, Advance(t)  PROVE TypeOK'
  <2>1. nxt[t] \in InChain /\ nxt[t] \in Node
    BY <1>12, SeesNext DEF Advance
  <2>2. data[nxt[t]] \in Value
    BY <2>1 DEF ChainInv, InChain
  <2>3. seen' \in [Thread -> Seq(Value \cup BOOLEAN)] /\ ahead' \in [Thread -> SUBSET Node]
    BY <1>12, <2>1, <2>2 DEF Advance, See
  <2>4. mtx' \in [Cell -> Thread \cup {Null}]
    BY <1>12 DEF Advance
  <2>5. QED  BY <1>12, <2>1, <2>3, <2>4 DEF Advance
<1>13. ASSUME NEW t \in Thread, Unlink(t)  PROVE TypeOK'
  <2>1. nxt[t] \in InChain /\ nxt[t] \in Node
    BY <1>13, SeesNext DEF Unlink
  <2>2. Without(nxt[t]) \in Seq(Node)
    BY <2>1, Removal
  <2>3. seen' \in [Thread -> Seq(Value \cup BOOLEAN)] /\ ahead' \in [Thread -> SUBSET Node]
    <3>1. data[nxt[t]] \in Value
      BY <2>1 DEF ChainInv, InChain
    <3>2. QED  BY <1>13, <2>1, <3>1 DEF Unlink, See
  <2>4. next' \in [Cell -> Node \cup {Null}]
    <3>1. cur[t] \in Cell
      BY <1>13, SeesNext DEF Unlink, CallInv
    <3>2. QED  BY <1>13, <2>1, <3>1 DEF Unlink
  <2>5. QED  BY <1>13, <2>1, <2>2, <2>3, <2>4 DEF Unlink
<1>14. ASSUME NEW t \in Thread, UnlockDead(t)  PROVE TypeOK'
  BY <1>14 DEF UnlockDead
<1>15. ASSUME NEW t \in Thread, Delete(t)  PROVE TypeOK'
  BY <1>15 DEF Delete
<1>16. ASSUME NEW t \in Thread, Return(t)  PROVE TypeOK'
  BY <1>16 DEF Return
<1>17. CASE UNCHANGED vars
  BY <1>17 DEF vars, heap, history
<1>18. QED
  BY <1>1, <1>2, <1>3, <1>4, <1>5, <1>6, <1>7, <1>8, <1>9,
     <1>10, <1>11, <1>12, <1>13, <1>14, <1>15, <1>16, <1>17, Actions
  DEF Next

LEMMA CallStep == IInv /\ [Next]_vars => CallInv'
<1> SUFFICES ASSUME IInv, [Next]_vars  PROVE CallInv'
  OBVIOUS
<1> USE DEF IInv, TypeOK, Goto, CallInv, Traversing
<1>1. ASSUME NEW t \in Thread, NEW v \in Value, PushCall(t, v)  PROVE CallInv'
  BY <1>1 DEF PushCall
<1>2. ASSUME NEW t \in Thread, NEW o \in Op, NEW P \in SUBSET Value, Call(t, o, P)  PROVE CallInv'
  BY <1>2 DEF Call
<1>3. ASSUME NEW t \in Thread, LockFront(t)  PROVE CallInv'
  <2>1. op[t] \in Op
    BY <1>3 DEF LockFront
  <2>2. CASE op[t] \in {"find_first_if", "remove_if"}
    BY <1>3, <2>2 DEF LockFront
  <2>3. CASE op[t] \in {"push_front", "empty"}
    BY <1>3, <2>3 DEF LockFront
  <2>4. QED  BY <2>1, <2>2, <2>3 DEF Op
<1>4. ASSUME NEW t \in Thread, Link(t)  PROVE CallInv'
  BY <1>4 DEF Link
<1>5. ASSUME NEW t \in Thread, SetFront(t)  PROVE CallInv'
  BY <1>5 DEF SetFront, Finish
<1>6. ASSUME NEW t \in Thread, TestEmpty(t)  PROVE CallInv'
  BY <1>6 DEF TestEmpty, Finish
<1>7. ASSUME NEW t \in Thread, ReadNext(t)  PROVE CallInv'
  BY <1>7 DEF ReadNext
<1>8. ASSUME NEW t \in Thread, AtEnd(t)  PROVE CallInv'
  BY <1>8 DEF AtEnd, Finish
<1>9. ASSUME NEW t \in Thread, LockNext(t)  PROVE CallInv'
  BY <1>9 DEF LockNext
<1>10. ASSUME NEW t \in Thread, Unlock(t)  PROVE CallInv'
  BY <1>10 DEF Unlock
<1>11. ASSUME NEW t \in Thread, Found(t)  PROVE CallInv'
  BY <1>11 DEF Found, Finish
<1>12. ASSUME NEW t \in Thread, Advance(t)  PROVE CallInv'
  BY <1>12 DEF Advance
<1>13. ASSUME NEW t \in Thread, Unlink(t)  PROVE CallInv'
  BY <1>13 DEF Unlink
<1>14. ASSUME NEW t \in Thread, UnlockDead(t)  PROVE CallInv'
  BY <1>14 DEF UnlockDead
<1>15. ASSUME NEW t \in Thread, Delete(t)  PROVE CallInv'
  BY <1>15 DEF Delete
<1>16. ASSUME NEW t \in Thread, Return(t)  PROVE CallInv'
  BY <1>16 DEF Return
<1>17. CASE UNCHANGED vars
  BY <1>17 DEF vars, heap, history
<1>18. QED
  BY <1>1, <1>2, <1>3, <1>4, <1>5, <1>6, <1>7, <1>8, <1>9,
     <1>10, <1>11, <1>12, <1>13, <1>14, <1>15, <1>16, <1>17, Actions
  DEF Next

LEMMA LockStep == IInv /\ [Next]_vars => LockInv'
<1> SUFFICES ASSUME IInv, [Next]_vars  PROVE LockInv'
  OBVIOUS
<1> USE DEF IInv, TypeOK, Goto
<1>0. ASSUME NEW u \in Thread,
             pc'[u] = pc[u], op'[u] = op[u], cur'[u] = cur[u], nxt'[u] = nxt[u]
      PROVE  Held(u)' = Held(u)
  BY <1>0 DEF Held, LetGo
<1>1. ASSUME NEW t \in Thread, NEW v \in Value, PushCall(t, v)  PROVE LockInv'
  <2>1. \A u \in Thread : u # t => Held(u)' = Held(u)
    BY <1>0, <1>1 DEF PushCall
  <2>2. Held(t) = {} /\ Held(t)' = {}
    BY <1>1 DEF PushCall, Held, LetGo, CallInv, Op
  <2>3. mtx' = mtx
    BY <1>1, <2>2 DEF PushCall, LockInv
  <2>4. \A u \in Thread : Held(u)' = Held(u)
    BY <2>1, <2>2
  <2>5. QED  BY <2>3, <2>4 DEF LockInv
<1>2. ASSUME NEW t \in Thread, NEW o \in Op, NEW P \in SUBSET Value, Call(t, o, P)  PROVE LockInv'
  <2>1. \A u \in Thread : u # t => Held(u)' = Held(u)
    BY <1>0, <1>2 DEF Call
  <2>2. Held(t) = {} /\ Held(t)' = {}
    BY <1>2 DEF Call, Held, LetGo, CallInv, Op
  <2>3. mtx' = mtx
    BY <1>2, <2>2 DEF Call, LockInv
  <2>4. \A u \in Thread : Held(u)' = Held(u)
    BY <2>1, <2>2
  <2>5. QED  BY <2>3, <2>4 DEF LockInv
<1>3. ASSUME NEW t \in Thread, LockFront(t)  PROVE LockInv'
  <2>1. \A u \in Thread : u # t => Held(u)' = Held(u)
    BY <1>0, <1>3 DEF LockFront
  <2>2. Held(t) = {} /\ Held(t)' = {Front}
    BY <1>3 DEF LockFront, Held, LetGo, CallInv, Op
  <2>3. mtx[Front] = Null /\ mtx' = [mtx EXCEPT ![Front] = t]
    BY <1>3, <2>2 DEF LockFront, LockInv
  <2>4. QED  BY <2>1, <2>2, <2>3 DEF LockInv
<1>4. ASSUME NEW t \in Thread, Link(t)  PROVE LockInv'
  <2>1. \A u \in Thread : u # t => Held(u)' = Held(u)
    BY <1>0, <1>4 DEF Link
  <2>2. Held(t) = {Front} /\ Held(t)' = {Front}
    BY <1>4 DEF Link, Held, LetGo, CallInv, Op
  <2>3. mtx' = mtx
    BY <1>4, <2>2 DEF Link, LockInv
  <2>4. \A u \in Thread : Held(u)' = Held(u)
    BY <2>1, <2>2
  <2>5. QED  BY <2>3, <2>4 DEF LockInv
<1>5. ASSUME NEW t \in Thread, SetFront(t)  PROVE LockInv'
  <2>1. \A u \in Thread : u # t => Held(u)' = Held(u)
    BY <1>0, <1>5 DEF SetFront, Finish
  <2>2. Held(t) = {Front} /\ Held(t)' = {}
    BY <1>5 DEF SetFront, Finish, Held, LetGo, CallInv, Op
  <2>3. mtx' = [mtx EXCEPT ![Front] = Null]
    BY <1>5, <2>2 DEF SetFront, Finish, LockInv
  <2>4. QED  BY <2>1, <2>2, <2>3 DEF LockInv
<1>6. ASSUME NEW t \in Thread, TestEmpty(t)  PROVE LockInv'
  <2>1. \A u \in Thread : u # t => Held(u)' = Held(u)
    BY <1>0, <1>6 DEF TestEmpty, Finish
  <2>2. Held(t) = {Front} /\ Held(t)' = {}
    BY <1>6 DEF TestEmpty, Finish, Held, LetGo, CallInv, Op
  <2>3. mtx' = [mtx EXCEPT ![Front] = Null]
    BY <1>6, <2>2 DEF TestEmpty, Finish, LockInv
  <2>4. QED  BY <2>1, <2>2, <2>3 DEF LockInv
<1>7. ASSUME NEW t \in Thread, ReadNext(t)  PROVE LockInv'
  <2>1. \A u \in Thread : u # t => Held(u)' = Held(u)
    BY <1>0, <1>7 DEF ReadNext
  <2>2. Held(t) = {cur[t]} /\ Held(t)' = {cur[t]}
    BY <1>7 DEF ReadNext, Held, LetGo, CallInv, Op
  <2>3. mtx' = mtx
    BY <1>7, <2>2 DEF ReadNext, LockInv
  <2>4. \A u \in Thread : Held(u)' = Held(u)
    BY <2>1, <2>2
  <2>5. QED  BY <2>3, <2>4 DEF LockInv
<1>8. ASSUME NEW t \in Thread, AtEnd(t)  PROVE LockInv'
  <2>1. \A u \in Thread : u # t => Held(u)' = Held(u)
    BY <1>0, <1>8 DEF AtEnd, Finish
  <2>2. Held(t) = {cur[t]} /\ Held(t)' = {}
    BY <1>8 DEF AtEnd, Finish, Held, LetGo, CallInv, Op
  <2>3. mtx' = [mtx EXCEPT ![cur[t]] = Null]
    BY <1>8, <2>2 DEF AtEnd, Finish, LockInv
  <2>4. QED  BY <2>1, <2>2, <2>3 DEF LockInv
<1>9. ASSUME NEW t \in Thread, LockNext(t)  PROVE LockInv'
  <2>1. \A u \in Thread : u # t => Held(u)' = Held(u)
    BY <1>0, <1>9 DEF LockNext
  <2>2. Held(t) = {cur[t]} /\ Held(t)' = {cur[t], nxt[t]}
    BY <1>9 DEF LockNext, Held, LetGo, CallInv, Op
  <2>3. nxt[t] \in Cell /\ mtx[nxt[t]] = Null /\ mtx' = [mtx EXCEPT ![nxt[t]] = t]
    BY <1>9, <2>2 DEF LockNext, LockInv
  <2>4. QED  BY <2>1, <2>2, <2>3 DEF LockInv
<1>10. ASSUME NEW t \in Thread, Unlock(t)  PROVE LockInv'
  <2>1. \A u \in Thread : u # t => Held(u)' = Held(u)
    BY <1>0, <1>10 DEF Unlock
  <2>2. Held(t) = {cur[t], nxt[t]} /\ Held(t)' = {nxt[t]}
    BY <1>10 DEF Unlock, Held, LetGo, CallInv, Op
  <2>3. cur[t] # nxt[t] /\ mtx' = [mtx EXCEPT ![cur[t]] = Null]
    BY <1>10, <2>2, SeesNext DEF Unlock, LockInv, LetGo
  <2>4. QED  BY <2>1, <2>2, <2>3 DEF LockInv
<1>11. ASSUME NEW t \in Thread, Found(t)  PROVE LockInv'
  <2>1. \A u \in Thread : u # t => Held(u)' = Held(u)
    BY <1>0, <1>11 DEF Found, Finish
  <2>2. Held(t) = {nxt[t]} /\ Held(t)' = {}
    BY <1>11 DEF Found, Finish, Held, LetGo, CallInv, Op
  <2>3. mtx' = [mtx EXCEPT ![nxt[t]] = Null]
    BY <1>11, <2>2 DEF Found, Finish, LockInv
  <2>4. QED  BY <2>1, <2>2, <2>3 DEF LockInv
<1>12. ASSUME NEW t \in Thread, Advance(t)  PROVE LockInv'
  <2>1. \A u \in Thread : u # t => Held(u)' = Held(u)
    BY <1>0, <1>12 DEF Advance
  <2>2. Held(t)' = {nxt[t]}
    BY <1>12 DEF Advance, Held, LetGo
  <2>3. CASE LetGo(t)
    <3>1. Held(t) = {nxt[t]} /\ mtx' = mtx
      BY <1>12, <2>3 DEF Advance, Held, LetGo
    <3>2. \A u \in Thread : Held(u)' = Held(u)
      BY <2>1, <2>2, <3>1
    <3>3. QED  BY <3>1, <3>2 DEF LockInv
  <2>4. CASE ~LetGo(t)
    <3>1. Held(t) = {cur[t], nxt[t]} /\ cur[t] # nxt[t] /\ mtx' = [mtx EXCEPT ![cur[t]] = Null]
      BY <1>12, <2>4, SeesNext DEF Advance, Held, LetGo, CallInv, Traversing
    <3>2. QED  BY <2>1, <2>2, <3>1 DEF LockInv
  <2>5. QED  BY <2>3, <2>4
<1>13. ASSUME NEW t \in Thread, Unlink(t)  PROVE LockInv'
  <2>1. \A u \in Thread : u # t => Held(u)' = Held(u)
    BY <1>0, <1>13 DEF Unlink
  <2>2. Held(t) = {cur[t], nxt[t]} /\ Held(t)' = {cur[t], nxt[t]}
    BY <1>13 DEF Unlink, Held, LetGo, CallInv, Op
  <2>3. mtx' = mtx
    BY <1>13, <2>2 DEF Unlink, LockInv
  <2>4. \A u \in Thread : Held(u)' = Held(u)
    BY <2>1, <2>2
  <2>5. QED  BY <2>3, <2>4 DEF LockInv
<1>14. ASSUME NEW t \in Thread, UnlockDead(t)  PROVE LockInv'
  <2>1. \A u \in Thread : u # t => Held(u)' = Held(u)
    BY <1>0, <1>14 DEF UnlockDead
  <2>2. Held(t) = {cur[t], nxt[t]} /\ Held(t)' = {cur[t]}
    BY <1>14 DEF UnlockDead, Held, LetGo, CallInv, Op
  <2>3. cur[t] # nxt[t] /\ mtx' = [mtx EXCEPT ![nxt[t]] = Null]
    BY <1>14, <2>2, InFront, Places DEF UnlockDead, Traversing, LetGo, CallInv, OwnInv
  <2>4. QED  BY <2>1, <2>2, <2>3 DEF LockInv
<1>15. ASSUME NEW t \in Thread, Delete(t)  PROVE LockInv'
  <2>1. \A u \in Thread : u # t => Held(u)' = Held(u)
    BY <1>0, <1>15 DEF Delete
  <2>2. Held(t) = {cur[t]} /\ Held(t)' = {cur[t]}
    BY <1>15 DEF Delete, Held, LetGo, CallInv, Op
  <2>3. mtx' = mtx
    BY <1>15, <2>2 DEF Delete, LockInv
  <2>4. \A u \in Thread : Held(u)' = Held(u)
    BY <2>1, <2>2
  <2>5. QED  BY <2>3, <2>4 DEF LockInv
<1>16. ASSUME NEW t \in Thread, Return(t)  PROVE LockInv'
  <2>1. \A u \in Thread : u # t => Held(u)' = Held(u)
    BY <1>0, <1>16 DEF Return
  <2>2. Held(t) = {} /\ Held(t)' = {}
    BY <1>16 DEF Return, Held, LetGo, CallInv, Op
  <2>3. mtx' = mtx
    BY <1>16, <2>2 DEF Return, LockInv
  <2>4. \A u \in Thread : Held(u)' = Held(u)
    BY <2>1, <2>2
  <2>5. QED  BY <2>3, <2>4 DEF LockInv
<1>17. CASE UNCHANGED vars
  BY <1>0, <1>17 DEF vars, heap, LockInv
<1>18. QED
  BY <1>1, <1>2, <1>3, <1>4, <1>5, <1>6, <1>7, <1>8, <1>9,
     <1>10, <1>11, <1>12, <1>13, <1>14, <1>15, <1>16, <1>17, Actions
  DEF Next

\* Unlink takes one cell out of the list; the cells behind it move up.
LEMMA UnlinkedPlaces ==
  ASSUME IInv, NEW t \in Thread, pc[t] = "test", chain' = Without(nxt[t])
  PROVE  /\ nxt[t] \in InChain /\ Len(chain') = Len(chain) - 1 /\ chain' \in Seq(Node)
         /\ \A k \in 1..Len(chain) - 1 :
              chain'[k] = IF k < Place(nxt[t]) THEN chain[k] ELSE chain[k + 1]
         /\ \A k \in 1..Len(chain) : k # Place(nxt[t]) =>
              LET n == IF k < Place(nxt[t]) THEN k ELSE k - 1
              IN n \in 1..Len(chain) - 1 /\ chain'[n] = chain[k]
<1>1. nxt[t] \in InChain
  BY SeesNext
<1>2. Place(nxt[t]) \in 1..Len(chain) /\ Len(chain) \in Nat
  BY <1>1, Places DEF IInv, TypeOK
<1>3. /\ Len(chain') = Len(chain) - 1 /\ chain' \in Seq(Node)
      /\ \A k \in 1..Len(chain) - 1 :
           chain'[k] = IF k < Place(nxt[t]) THEN chain[k] ELSE chain[k + 1]
  BY <1>1, Removal DEF IInv
<1>4. ASSUME NEW k \in 1..Len(chain), k # Place(nxt[t])
      PROVE  LET n == IF k < Place(nxt[t]) THEN k ELSE k - 1
             IN n \in 1..Len(chain) - 1 /\ chain'[n] = chain[k]
  <2>1. CASE k < Place(nxt[t])
    BY <1>2, <1>3, <2>1
  <2>2. CASE k > Place(nxt[t])
    <3>1. k - 1 \in 1..Len(chain) - 1 /\ ~(k - 1 < Place(nxt[t])) /\ (k - 1) + 1 = k
      BY <1>2, <2>2
    <3>2. QED  BY <1>2, <1>3, <2>2, <3>1
  <2>3. QED  BY <1>2, <1>4, <2>1, <2>2
<1>5. QED  BY <1>1, <1>3, <1>4

LEMMA UnlinkedCells ==
  ASSUME IInv, NEW t \in Thread, pc[t] = "test", chain' = Without(nxt[t])
  PROVE  InChain' = InChain \ {nxt[t]}
<1> DEFINE q == Place(nxt[t])
<1>1. q \in DOMAIN chain /\ chain[q] = nxt[t] /\ Len(chain) \in Nat
  BY UnlinkedPlaces, Places DEF IInv, TypeOK
<1>2. ASSUME NEW k \in DOMAIN chain'  PROVE chain'[k] \in InChain \ {nxt[t]}
  <2>1. k \in 1..Len(chain) - 1
    BY <1>2, UnlinkedPlaces
  <2>2. chain'[k] = IF k < q THEN chain[k] ELSE chain[k + 1]
    BY <2>1, UnlinkedPlaces
  <2>3. k \in DOMAIN chain /\ k + 1 \in DOMAIN chain /\ k \in Nat
    BY <1>1, <2>1 DEF IInv, TypeOK
  <2>4. QED  BY <1>1, <2>2, <2>3 DEF InChain, IInv, ChainInv
<1>3. ASSUME NEW n \in InChain, n # nxt[t]  PROVE n \in InChain'
  <2>1. PICK k \in DOMAIN chain : chain[k] = n
    BY DEF InChain
  <2>2. k \in 1..Len(chain) /\ k # q
    BY <1>1, <1>3, <2>1 DEF IInv, TypeOK
  <2>3. PICK m \in 1..Len(chain) - 1 : chain'[m] = n
    BY <2>1, <2>2, UnlinkedPlaces
  <2>4. m \in DOMAIN chain'
    BY UnlinkedPlaces
  <2>5. QED  BY <2>3, <2>4 DEF InChain
<1>4. QED  BY <1>2, <1>3 DEF InChain

\* A traversal that does not move stays where it is if its cell is still there.
LEMMA StandKept ==
  ASSUME IInv, NEW u \in Thread, Traversing(u), Stand(u) \in InChain => Stand(u) \in InChain',
         pc'[u] = pc[u], op'[u] = op[u], cur'[u] = cur[u], nxt'[u] = nxt[u],
         cur[u] \in Held(u) => next'[cur[u]] = next[cur[u]]
  PROVE  /\ Stand(u)' \in InChain' \cup {Front}
         /\ (pc[u] \in {"lock_next", "unlock"} \/ (pc[u] = "test" /\ ~LetGo(u)))' =>
              nxt'[u] = next'[cur'[u]]
<1>1. Stand(u)' = Stand(u) /\ LetGo(u)' = LetGo(u)
  BY DEF Stand, LetGo
<1>2. pc[u] \in {"lock_next", "unlock"} \/ (pc[u] = "test" /\ ~LetGo(u)) => cur[u] \in Held(u)
  BY DEF Held
<1>3. QED  BY <1>1, <1>2 DEF IInv, StandInv

\* A cell another thread holds is neither held by t nor t's own.
LEMMA NotMine ==
  ASSUME IInv, NEW t \in Thread, NEW u \in Thread, t # u, Traversing(u)
  PROVE  /\ Stand(u) \in Held(u) /\ Stand(u) \in InChain \cup {Front} /\ Stand(u) \in Cell
         /\ Stand(u) \notin Held(t)
         /\ cur[u] \in Held(u) => cur[u] \notin Held(t) /\ cur[u] = Stand(u)
         /\ own[t] # Null => own[t] # Stand(u)
<1> USE DEF IInv
<1>1. Stand(u) \in Held(u) /\ Stand(u) \in InChain \cup {Front}
  BY DEF Stand, Held, LetGo, Traversing, StandInv
<1>2. Stand(u) \in Cell
  BY <1>1, Places
<1>3. Stand(u) \notin Held(t)
  BY <1>1, <1>2, Exclusive
<1>4. cur[u] \in Held(u) => cur[u] = Stand(u) \/ (LetGo(u) /\ cur[u] = nxt[u])
  BY DEF Stand, Held, LetGo, Traversing
<1>5. own[t] # Null => own[t] # Stand(u)
  BY <1>1 DEF OwnInv, TypeOK
<1>6. QED  BY <1>1, <1>2, <1>3, <1>4, <1>5 DEF Stand

LEMMA StandStep == IInv /\ [Next]_vars => StandInv'
<1> SUFFICES ASSUME IInv, [Next]_vars  PROVE StandInv'
  OBVIOUS
<1> USE DEF IInv, Goto, Traversing
<1>1. ASSUME NEW t \in Thread, NEW v \in Value, PushCall(t, v)  PROVE StandInv'
  <2>1. ASSUME NEW u \in Thread, u # t, Traversing(u)'
        PROVE  /\ Stand(u)' \in InChain' \cup {Front}
               /\ (pc[u] \in {"lock_next", "unlock"} \/ (pc[u] = "test" /\ ~LetGo(u)))' =>
                    nxt'[u] = next'[cur'[u]]
    <3>1. /\ pc'[u] = pc[u] /\ op'[u] = op[u] /\ cur'[u] = cur[u] /\ nxt'[u] = nxt[u]
          /\ Traversing(u)
      BY <1>1, <2>1 DEF PushCall, TypeOK
    <3>2. Stand(u) \in InChain => Stand(u) \in InChain'
      BY <1>1 DEF PushCall, InChain, history, heap
    <3>3. cur[u] \in Held(u) => next'[cur[u]] = next[cur[u]]
      BY <2>1, <3>1, <1>1, NotMine, Places DEF PushCall, OwnInv, TypeOK
    <3>4. QED  BY <3>1, <3>2, <3>3, StandKept
  <2>2. Traversing(t)' =>
          /\ Stand(t)' \in InChain' \cup {Front}
          /\ (pc[t] \in {"lock_next", "unlock"} \/ (pc[t] = "test" /\ ~LetGo(t)))' =>
               nxt'[t] = next'[cur'[t]]
    BY <1>1 DEF PushCall, TypeOK
  <2>3. QED  BY <2>1, <2>2 DEF StandInv
<1>2. ASSUME NEW t \in Thread, NEW o \in Op, NEW P \in SUBSET Value, Call(t, o, P)  PROVE StandInv'
  <2>1. ASSUME NEW u \in Thread, u # t, Traversing(u)'
        PROVE  /\ Stand(u)' \in InChain' \cup {Front}
               /\ (pc[u] \in {"lock_next", "unlock"} \/ (pc[u] = "test" /\ ~LetGo(u)))' =>
                    nxt'[u] = next'[cur'[u]]
    <3>1. /\ pc'[u] = pc[u] /\ op'[u] = op[u] /\ cur'[u] = cur[u] /\ nxt'[u] = nxt[u]
          /\ Traversing(u)
      BY <1>2, <2>1 DEF Call, TypeOK
    <3>2. Stand(u) \in InChain => Stand(u) \in InChain'
      BY <1>2 DEF Call, InChain, history, heap
    <3>3. cur[u] \in Held(u) => next'[cur[u]] = next[cur[u]]
      BY <1>2 DEF Call, heap
    <3>4. QED  BY <3>1, <3>2, <3>3, StandKept
  <2>2. Traversing(t)' =>
          /\ Stand(t)' \in InChain' \cup {Front}
          /\ (pc[t] \in {"lock_next", "unlock"} \/ (pc[t] = "test" /\ ~LetGo(t)))' =>
               nxt'[t] = next'[cur'[t]]
    BY <1>2 DEF Call, TypeOK
  <2>3. QED  BY <2>1, <2>2 DEF StandInv
<1>3. ASSUME NEW t \in Thread, LockFront(t)  PROVE StandInv'
  <2>1. ASSUME NEW u \in Thread, u # t, Traversing(u)'
        PROVE  /\ Stand(u)' \in InChain' \cup {Front}
               /\ (pc[u] \in {"lock_next", "unlock"} \/ (pc[u] = "test" /\ ~LetGo(u)))' =>
                    nxt'[u] = next'[cur'[u]]
    <3>1. /\ pc'[u] = pc[u] /\ op'[u] = op[u] /\ cur'[u] = cur[u] /\ nxt'[u] = nxt[u]
          /\ Traversing(u)
      BY <1>3, <2>1 DEF LockFront, TypeOK
    <3>2. Stand(u) \in InChain => Stand(u) \in InChain'
      BY <1>3 DEF LockFront, InChain
    <3>3. cur[u] \in Held(u) => next'[cur[u]] = next[cur[u]]
      BY <1>3 DEF LockFront, heap
    <3>4. QED  BY <3>1, <3>2, <3>3, StandKept
  <2>2. Traversing(t)' =>
          /\ Stand(t)' \in InChain' \cup {Front}
          /\ (pc[t] \in {"lock_next", "unlock"} \/ (pc[t] = "test" /\ ~LetGo(t)))' =>
               nxt'[t] = next'[cur'[t]]
    <3>1. Traversing(t)' => pc'[t] = "next" /\ cur'[t] = Front
      BY <1>3 DEF LockFront, TypeOK, CallInv, Op
    <3>2. QED  BY <3>1 DEF Stand, LetGo
  <2>3. QED  BY <2>1, <2>2 DEF StandInv
<1>4. ASSUME NEW t \in Thread, Link(t)  PROVE StandInv'
  <2>1. ASSUME NEW u \in Thread, u # t, Traversing(u)'
        PROVE  /\ Stand(u)' \in InChain' \cup {Front}
               /\ (pc[u] \in {"lock_next", "unlock"} \/ (pc[u] = "test" /\ ~LetGo(u)))' =>
                    nxt'[u] = next'[cur'[u]]
    <3>1. /\ pc'[u] = pc[u] /\ op'[u] = op[u] /\ cur'[u] = cur[u] /\ nxt'[u] = nxt[u]
          /\ Traversing(u)
      BY <1>4, <2>1 DEF Link, TypeOK
    <3>2. Stand(u) \in InChain => Stand(u) \in InChain'
      BY <1>4 DEF Link, InChain, history, heap
    <3>3. cur[u] \in Held(u) => next'[cur[u]] = next[cur[u]]
      <4>1. Front \in Held(t) /\ own[t] # Null
        BY <1>4 DEF Link, Held, CallInv
      <4>2. cur[u] \in Held(u) => cur[u] \in Cell \ {Front, own[t]}
        BY <2>1, <3>1, <4>1, NotMine
      <4>3. next' = [next EXCEPT ![own[t]] = next[Front], ![Front] = Null]
        BY <1>4 DEF Link
      <4>4. ASSUME NEW n \in Cell \ {Front, own[t]}  PROVE next'[n] = next[n]
        BY <4>3 DEF TypeOK
      <4>5. QED  BY <4>2, <4>4
    <3>4. QED  BY <3>1, <3>2, <3>3, StandKept
  <2>2. Traversing(t)' =>
          /\ Stand(t)' \in InChain' \cup {Front}
          /\ (pc[t] \in {"lock_next", "unlock"} \/ (pc[t] = "test" /\ ~LetGo(t)))' =>
               nxt'[t] = next'[cur'[t]]
    BY <1>4 DEF Link, TypeOK
  <2>3. QED  BY <2>1, <2>2 DEF StandInv
<1>5. ASSUME NEW t \in Thread, SetFront(t)  PROVE StandInv'
  <2>1. ASSUME NEW u \in Thread, u # t, Traversing(u)'
        PROVE  /\ Stand(u)' \in InChain' \cup {Front}
               /\ (pc[u] \in {"lock_next", "unlock"} \/ (pc[u] = "test" /\ ~LetGo(u)))' =>
                    nxt'[u] = next'[cur'[u]]
    <3>1. /\ pc'[u] = pc[u] /\ op'[u] = op[u] /\ cur'[u] = cur[u] /\ nxt'[u] = nxt[u]
          /\ Traversing(u)
      BY <1>5, <2>1 DEF SetFront, Finish, TypeOK
    <3>2. Stand(u) \in InChain => Stand(u) \in InChain'
      <4>1. own[t] \in Node
        BY <1>5 DEF SetFront, Finish, CallInv, TypeOK
      <4>2. ASSUME NEW k \in DOMAIN chain  PROVE chain[k] = chain'[k + 1] /\ k + 1 \in DOMAIN chain'
        BY <1>5, <4>1 DEF SetFront, TypeOK
      <4>3. QED  BY <4>2 DEF InChain
    <3>3. cur[u] \in Held(u) => next'[cur[u]] = next[cur[u]]
      <4>1. Front \in Held(t)
        BY <1>5 DEF SetFront, Finish, Held
      <4>2. cur[u] \in Held(u) => cur[u] # Front
        BY <2>1, <3>1, <4>1, NotMine
      <4>3. next' = [next EXCEPT ![Front] = own[t]]
        BY <1>5 DEF SetFront
      <4>4. QED  BY <4>2, <4>3 DEF TypeOK
    <3>4. QED  BY <3>1, <3>2, <3>3, StandKept
  <2>2. Traversing(t)' =>
          /\ Stand(t)' \in InChain' \cup {Front}
          /\ (pc[t] \in {"lock_next", "unlock"} \/ (pc[t] = "test" /\ ~LetGo(t)))' =>
               nxt'[t] = next'[cur'[t]]
    BY <1>5 DEF SetFront, Finish, TypeOK
  <2>3. QED  BY <2>1, <2>2 DEF StandInv
<1>6. ASSUME NEW t \in Thread, TestEmpty(t)  PROVE StandInv'
  <2>1. ASSUME NEW u \in Thread, u # t, Traversing(u)'
        PROVE  /\ Stand(u)' \in InChain' \cup {Front}
               /\ (pc[u] \in {"lock_next", "unlock"} \/ (pc[u] = "test" /\ ~LetGo(u)))' =>
                    nxt'[u] = next'[cur'[u]]
    <3>1. /\ pc'[u] = pc[u] /\ op'[u] = op[u] /\ cur'[u] = cur[u] /\ nxt'[u] = nxt[u]
          /\ Traversing(u)
      BY <1>6, <2>1 DEF TestEmpty, Finish, TypeOK
    <3>2. Stand(u) \in InChain => Stand(u) \in InChain'
      BY <1>6 DEF TestEmpty, Finish, InChain, history, heap
    <3>3. cur[u] \in Held(u) => next'[cur[u]] = next[cur[u]]
      BY <1>6 DEF TestEmpty, Finish, heap
    <3>4. QED  BY <3>1, <3>2, <3>3, StandKept
  <2>2. Traversing(t)' =>
          /\ Stand(t)' \in InChain' \cup {Front}
          /\ (pc[t] \in {"lock_next", "unlock"} \/ (pc[t] = "test" /\ ~LetGo(t)))' =>
               nxt'[t] = next'[cur'[t]]
    BY <1>6 DEF TestEmpty, Finish, TypeOK
  <2>3. QED  BY <2>1, <2>2 DEF StandInv
<1>7. ASSUME NEW t \in Thread, ReadNext(t)  PROVE StandInv'
  <2>1. ASSUME NEW u \in Thread, u # t, Traversing(u)'
        PROVE  /\ Stand(u)' \in InChain' \cup {Front}
               /\ (pc[u] \in {"lock_next", "unlock"} \/ (pc[u] = "test" /\ ~LetGo(u)))' =>
                    nxt'[u] = next'[cur'[u]]
    <3>1. /\ pc'[u] = pc[u] /\ op'[u] = op[u] /\ cur'[u] = cur[u] /\ nxt'[u] = nxt[u]
          /\ Traversing(u)
      BY <1>7, <2>1 DEF ReadNext, TypeOK
    <3>2. Stand(u) \in InChain => Stand(u) \in InChain'
      BY <1>7 DEF ReadNext, InChain, history, heap
    <3>3. cur[u] \in Held(u) => next'[cur[u]] = next[cur[u]]
      BY <1>7 DEF ReadNext, heap
    <3>4. QED  BY <3>1, <3>2, <3>3, StandKept
  <2>2. Traversing(t)' =>
          /\ Stand(t)' \in InChain' \cup {Front}
          /\ (pc[t] \in {"lock_next", "unlock"} \/ (pc[t] = "test" /\ ~LetGo(t)))' =>
               nxt'[t] = next'[cur'[t]]
    <3>1. Stand(t) = cur[t] /\ Stand(t)' = cur[t] /\ ~LetGo(t)' /\ ~LetGo(t)
      BY <1>7 DEF ReadNext, Stand, LetGo, TypeOK
    <3>2. nxt'[t] = next[cur[t]] /\ cur' = cur /\ next' = next /\ chain' = chain
      BY <1>7 DEF ReadNext, TypeOK, heap, history
    <3>3. QED  BY <1>7, <3>1, <3>2 DEF ReadNext, StandInv, InChain
  <2>3. QED  BY <2>1, <2>2 DEF StandInv
<1>8. ASSUME NEW t \in Thread, AtEnd(t)  PROVE StandInv'
  <2>1. ASSUME NEW u \in Thread, u # t, Traversing(u)'
        PROVE  /\ Stand(u)' \in InChain' \cup {Front}
               /\ (pc[u] \in {"lock_next", "unlock"} \/ (pc[u] = "test" /\ ~LetGo(u)))' =>
                    nxt'[u] = next'[cur'[u]]
    <3>1. /\ pc'[u] = pc[u] /\ op'[u] = op[u] /\ cur'[u] = cur[u] /\ nxt'[u] = nxt[u]
          /\ Traversing(u)
      BY <1>8, <2>1 DEF AtEnd, Finish, TypeOK
    <3>2. Stand(u) \in InChain => Stand(u) \in InChain'
      BY <1>8 DEF AtEnd, Finish, InChain, history, heap
    <3>3. cur[u] \in Held(u) => next'[cur[u]] = next[cur[u]]
      BY <1>8 DEF AtEnd, Finish, heap
    <3>4. QED  BY <3>1, <3>2, <3>3, StandKept
  <2>2. Traversing(t)' =>
          /\ Stand(t)' \in InChain' \cup {Front}
          /\ (pc[t] \in {"lock_next", "unlock"} \/ (pc[t] = "test" /\ ~LetGo(t)))' =>
               nxt'[t] = next'[cur'[t]]
    BY <1>8 DEF AtEnd, Finish, TypeOK
  <2>3. QED  BY <2>1, <2>2 DEF StandInv
<1>9. ASSUME NEW t \in Thread, LockNext(t)  PROVE StandInv'
  <2>1. ASSUME NEW u \in Thread, u # t, Traversing(u)'
        PROVE  /\ Stand(u)' \in InChain' \cup {Front}
               /\ (pc[u] \in {"lock_next", "unlock"} \/ (pc[u] = "test" /\ ~LetGo(u)))' =>
                    nxt'[u] = next'[cur'[u]]
    <3>1. /\ pc'[u] = pc[u] /\ op'[u] = op[u] /\ cur'[u] = cur[u] /\ nxt'[u] = nxt[u]
          /\ Traversing(u)
      BY <1>9, <2>1 DEF LockNext, TypeOK
    <3>2. Stand(u) \in InChain => Stand(u) \in InChain'
      BY <1>9 DEF LockNext, InChain, history, heap
    <3>3. cur[u] \in Held(u) => next'[cur[u]] = next[cur[u]]
      BY <1>9 DEF LockNext, heap
    <3>4. QED  BY <3>1, <3>2, <3>3, StandKept
  <2>2. Traversing(t)' =>
          /\ Stand(t)' \in InChain' \cup {Front}
          /\ (pc[t] \in {"lock_next", "unlock"} \/ (pc[t] = "test" /\ ~LetGo(t)))' =>
               nxt'[t] = next'[cur'[t]]
    <3>1. Stand(t) = cur[t] /\ Stand(t)' = cur[t]
      BY <1>9 DEF LockNext, Stand, LetGo, TypeOK
    <3>2. nxt' = nxt /\ cur' = cur /\ next' = next /\ chain' = chain
      BY <1>9 DEF LockNext, heap, history
    <3>3. QED  BY <1>9, <3>1, <3>2 DEF LockNext, StandInv, InChain
  <2>3. QED  BY <2>1, <2>2 DEF StandInv
<1>10. ASSUME NEW t \in Thread, Unlock(t)  PROVE StandInv'
  <2>1. ASSUME NEW u \in Thread, u # t, Traversing(u)'
        PROVE  /\ Stand(u)' \in InChain' \cup {Front}
               /\ (pc[u] \in {"lock_next", "unlock"} \/ (pc[u] = "test" /\ ~LetGo(u)))' =>
                    nxt'[u] = next'[cur'[u]]
    <3>1. /\ pc'[u] = pc[u] /\ op'[u] = op[u] /\ cur'[u] = cur[u] /\ nxt'[u] = nxt[u]
          /\ Traversing(u)
      BY <1>10, <2>1 DEF Unlock, TypeOK
    <3>2. Stand(u) \in InChain => Stand(u) \in InChain'
      BY <1>10 DEF Unlock, InChain, history, heap
    <3>3. cur[u] \in Held(u) => next'[cur[u]] = next[cur[u]]
      BY <1>10 DEF Unlock, heap
    <3>4. QED  BY <3>1, <3>2, <3>3, StandKept
  <2>2. Traversing(t)' =>
          /\ Stand(t)' \in InChain' \cup {Front}
          /\ (pc[t] \in {"lock_next", "unlock"} \/ (pc[t] = "test" /\ ~LetGo(t)))' =>
               nxt'[t] = next'[cur'[t]]
    <3>1. LetGo(t)' /\ Stand(t)' = nxt[t]
      BY <1>10 DEF Unlock, Stand, LetGo, TypeOK, CallInv
    <3>2. nxt[t] \in InChain /\ InChain' = InChain
      BY <1>10, SeesNext DEF Unlock, InChain, history
    <3>3. QED  BY <3>1, <3>2 DEF LetGo
  <2>3. QED  BY <2>1, <2>2 DEF StandInv
<1>11. ASSUME NEW t \in Thread, Found(t)  PROVE StandInv'
  <2>1. ASSUME NEW u \in Thread, u # t, Traversing(u)'
        PROVE  /\ Stand(u)' \in InChain' \cup {Front}
               /\ (pc[u] \in {"lock_next", "unlock"} \/ (pc[u] = "test" /\ ~LetGo(u)))' =>
                    nxt'[u] = next'[cur'[u]]
    <3>1. /\ pc'[u] = pc[u] /\ op'[u] = op[u] /\ cur'[u] = cur[u] /\ nxt'[u] = nxt[u]
          /\ Traversing(u)
      BY <1>11, <2>1 DEF Found, Finish, See, TypeOK
    <3>2. Stand(u) \in InChain => Stand(u) \in InChain'
      BY <1>11 DEF Found, Finish, See, InChain, history, heap
    <3>3. cur[u] \in Held(u) => next'[cur[u]] = next[cur[u]]
      BY <1>11 DEF Found, Finish, See, heap
    <3>4. QED  BY <3>1, <3>2, <3>3, StandKept
  <2>2. Traversing(t)' =>
          /\ Stand(t)' \in InChain' \cup {Front}
          /\ (pc[t] \in {"lock_next", "unlock"} \/ (pc[t] = "test" /\ ~LetGo(t)))' =>
               nxt'[t] = next'[cur'[t]]
    BY <1>11 DEF Found, Finish, See, TypeOK
  <2>3. QED  BY <2>1, <2>2 DEF StandInv
<1>12. ASSUME NEW t \in Thread, Advance(t)  PROVE StandInv'
  <2>1. ASSUME NEW u \in Thread, u # t, Traversing(u)'
        PROVE  /\ Stand(u)' \in InChain' \cup {Front}
               /\ (pc[u] \in {"lock_next", "unlock"} \/ (pc[u] = "test" /\ ~LetGo(u)))' =>
                    nxt'[u] = next'[cur'[u]]
    <3>1. /\ pc'[u] = pc[u] /\ op'[u] = op[u] /\ cur'[u] = cur[u] /\ nxt'[u] = nxt[u]
          /\ Traversing(u)
      BY <1>12, <2>1 DEF Advance, See, TypeOK
    <3>2. Stand(u) \in InChain => Stand(u) \in InChain'
      BY <1>12 DEF Advance, See, InChain, history, heap
    <3>3. cur[u] \in Held(u) => next'[cur[u]] = next[cur[u]]
      BY <1>12 DEF Advance, See, heap
    <3>4. QED  BY <3>1, <3>2, <3>3, StandKept
  <2>2. Traversing(t)' =>
          /\ Stand(t)' \in InChain' \cup {Front}
          /\ (pc[t] \in {"lock_next", "unlock"} \/ (pc[t] = "test" /\ ~LetGo(t)))' =>
               nxt'[t] = next'[cur'[t]]
    <3>1. pc'[t] = "next" /\ Stand(t)' = nxt[t]
      BY <1>12 DEF Advance, Stand, LetGo, TypeOK
    <3>2. nxt[t] \in InChain /\ InChain' = InChain
      BY <1>12, SeesNext DEF Advance, InChain
    <3>3. QED  BY <3>1, <3>2
  <2>3. QED  BY <2>1, <2>2 DEF StandInv
<1>13. ASSUME NEW t \in Thread, Unlink(t)  PROVE StandInv'
  <2>0. InChain' = InChain \ {nxt[t]}
    BY <1>13, UnlinkedCells DEF Unlink
  <2>1. ASSUME NEW u \in Thread, u # t, Traversing(u)'
        PROVE  /\ Stand(u)' \in InChain' \cup {Front}
               /\ (pc[u] \in {"lock_next", "unlock"} \/ (pc[u] = "test" /\ ~LetGo(u)))' =>
                    nxt'[u] = next'[cur'[u]]
    <3>1. /\ pc'[u] = pc[u] /\ op'[u] = op[u] /\ cur'[u] = cur[u] /\ nxt'[u] = nxt[u]
          /\ Traversing(u)
      BY <1>13, <2>1 DEF Unlink, See, TypeOK
    <3>2. Stand(u) \in InChain => Stand(u) \in InChain'
      <4>1. nxt[t] \in Held(t)
        BY <1>13 DEF Held, Unlink
      <4>2. Stand(u) # nxt[t]
        BY <2>1, <3>1, <4>1, NotMine
      <4>3. QED  BY <2>0, <4>2
    <3>3. cur[u] \in Held(u) => next'[cur[u]] = next[cur[u]]
      BY <2>1, <3>1, <1>13, NotMine DEF Held, Unlink, LetGo, TypeOK
    <3>4. QED  BY <3>1, <3>2, <3>3, StandKept
  <2>2. Traversing(t)' =>
          /\ Stand(t)' \in InChain' \cup {Front}
          /\ (pc[t] \in {"lock_next", "unlock"} \/ (pc[t] = "test" /\ ~LetGo(t)))' =>
               nxt'[t] = next'[cur'[t]]
    <3>1. pc'[t] = "unlock_dead" /\ Stand(t)' = cur[t] /\ ~LetGo(t)
      BY <1>13 DEF Unlink, Stand, LetGo, TypeOK
    <3>2. cur[t] \in InChain \cup {Front} /\ cur[t] # nxt[t]
      BY <3>1, <1>13, SeesNext, InFront DEF Unlink
    <3>3. QED  BY <2>0, <3>1, <3>2
  <2>3. QED  BY <2>1, <2>2 DEF StandInv
<1>14. ASSUME NEW t \in Thread, UnlockDead(t)  PROVE StandInv'
  <2>1. ASSUME NEW u \in Thread, u # t, Traversing(u)'
        PROVE  /\ Stand(u)' \in InChain' \cup {Front}
               /\ (pc[u] \in {"lock_next", "unlock"} \/ (pc[u] = "test" /\ ~LetGo(u)))' =>
                    nxt'[u] = next'[cur'[u]]
    <3>1. /\ pc'[u] = pc[u] /\ op'[u] = op[u] /\ cur'[u] = cur[u] /\ nxt'[u] = nxt[u]
          /\ Traversing(u)
      BY <1>14, <2>1 DEF UnlockDead, TypeOK
    <3>2. Stand(u) \in InChain => Stand(u) \in InChain'
      BY <1>14 DEF UnlockDead, InChain, history, heap
    <3>3. cur[u] \in Held(u) => next'[cur[u]] = next[cur[u]]
      BY <1>14 DEF UnlockDead, heap
    <3>4. QED  BY <3>1, <3>2, <3>3, StandKept
  <2>2. Traversing(t)' =>
          /\ Stand(t)' \in InChain' \cup {Front}
          /\ (pc[t] \in {"lock_next", "unlock"} \/ (pc[t] = "test" /\ ~LetGo(t)))' =>
               nxt'[t] = next'[cur'[t]]
    <3>1. Stand(t) = cur[t] /\ Stand(t)' = cur[t] /\ chain' = chain /\ pc'[t] = "delete"
      BY <1>14 DEF UnlockDead, Stand, LetGo, TypeOK, history
    <3>2. QED  BY <1>14, <3>1 DEF UnlockDead, StandInv, InChain
  <2>3. QED  BY <2>1, <2>2 DEF StandInv
<1>15. ASSUME NEW t \in Thread, Delete(t)  PROVE StandInv'
  <2>1. ASSUME NEW u \in Thread, u # t, Traversing(u)'
        PROVE  /\ Stand(u)' \in InChain' \cup {Front}
               /\ (pc[u] \in {"lock_next", "unlock"} \/ (pc[u] = "test" /\ ~LetGo(u)))' =>
                    nxt'[u] = next'[cur'[u]]
    <3>1. /\ pc'[u] = pc[u] /\ op'[u] = op[u] /\ cur'[u] = cur[u] /\ nxt'[u] = nxt[u]
          /\ Traversing(u)
      BY <1>15, <2>1 DEF Delete, TypeOK
    <3>2. Stand(u) \in InChain => Stand(u) \in InChain'
      BY <1>15 DEF Delete, InChain, history, heap
    <3>3. cur[u] \in Held(u) => next'[cur[u]] = next[cur[u]]
      BY <1>15 DEF Delete, heap
    <3>4. QED  BY <3>1, <3>2, <3>3, StandKept
  <2>2. Traversing(t)' =>
          /\ Stand(t)' \in InChain' \cup {Front}
          /\ (pc[t] \in {"lock_next", "unlock"} \/ (pc[t] = "test" /\ ~LetGo(t)))' =>
               nxt'[t] = next'[cur'[t]]
    <3>1. Stand(t) = cur[t] /\ Stand(t)' = cur[t] /\ chain' = chain /\ pc'[t] = "next"
      BY <1>15 DEF Delete, Stand, LetGo, TypeOK, history
    <3>2. QED  BY <1>15, <3>1 DEF Delete, StandInv, InChain
  <2>3. QED  BY <2>1, <2>2 DEF StandInv
<1>16. ASSUME NEW t \in Thread, Return(t)  PROVE StandInv'
  <2>1. ASSUME NEW u \in Thread, u # t, Traversing(u)'
        PROVE  /\ Stand(u)' \in InChain' \cup {Front}
               /\ (pc[u] \in {"lock_next", "unlock"} \/ (pc[u] = "test" /\ ~LetGo(u)))' =>
                    nxt'[u] = next'[cur'[u]]
    <3>1. /\ pc'[u] = pc[u] /\ op'[u] = op[u] /\ cur'[u] = cur[u] /\ nxt'[u] = nxt[u]
          /\ Traversing(u)
      BY <1>16, <2>1 DEF Return, TypeOK
    <3>2. Stand(u) \in InChain => Stand(u) \in InChain'
      BY <1>16 DEF Return, InChain, history, heap
    <3>3. cur[u] \in Held(u) => next'[cur[u]] = next[cur[u]]
      BY <1>16 DEF Return, heap
    <3>4. QED  BY <3>1, <3>2, <3>3, StandKept
  <2>2. Traversing(t)' =>
          /\ Stand(t)' \in InChain' \cup {Front}
          /\ (pc[t] \in {"lock_next", "unlock"} \/ (pc[t] = "test" /\ ~LetGo(t)))' =>
               nxt'[t] = next'[cur'[t]]
    BY <1>16 DEF Return, TypeOK
  <2>3. QED  BY <2>1, <2>2 DEF StandInv
<1>17. CASE UNCHANGED vars
  BY <1>17 DEF vars, heap, history, StandInv, Stand, LetGo, InChain
<1>18. QED
  BY <1>1, <1>2, <1>3, <1>4, <1>5, <1>6, <1>7, <1>8, <1>9,
     <1>10, <1>11, <1>12, <1>13, <1>14, <1>15, <1>16, <1>17, Actions
  DEF Next

LEMMA ChainKept ==
  ASSUME IInv, chain' = chain, \A n \in InChain : next'[n] = next[n] /\ data'[n] = data[n],
         next'[Front] = next[Front],
         \A u \in Thread : pc'[u] = "set_front" <=> pc[u] = "set_front",
         \A u \in Thread : pc[u] = "set_front" => own'[u] = own[u] /\ next'[own[u]] = next[own[u]]
  PROVE  ChainInv'
<1>1. \A k : Behind(k)' = Behind(k)
  BY DEF Behind
<1>2. ASSUME NEW k \in DOMAIN chain'
      PROVE  next'[chain'[k]] = Behind(k)' /\ data'[chain'[k]] \in Value
  BY <1>1 DEF IInv, ChainInv, InChain
<1>3. QED  BY <1>1, <1>2 DEF IInv, ChainInv

LEMMA ChainStep == IInv /\ [Next]_vars => ChainInv'
<1> SUFFICES ASSUME IInv, [Next]_vars  PROVE ChainInv'
  OBVIOUS
<1> USE DEF Goto
<1>1. ASSUME NEW t \in Thread, NEW v \in Value, PushCall(t, v)  PROVE ChainInv'
  <2>1. PICK n \in Node \ live : next' = [next EXCEPT ![n] = Null] /\ data' = [data EXCEPT ![n] = v]
                                /\ own' = [own EXCEPT ![t] = n]
    BY <1>1 DEF PushCall
  <2>2. n \notin InChain /\ n # Front /\ \A u \in Thread : own[u] # n
    BY <2>1 DEF IInv, OwnInv
  <2>3. \A m \in InChain : next'[m] = next[m] /\ data'[m] = data[m]
    BY <2>1, <2>2, Places DEF IInv, TypeOK
  <2>4. \A u \in Thread : pc[u] = "set_front" => own'[u] = own[u] /\ next'[own[u]] = next[own[u]]
    <3>1. ASSUME NEW u \in Thread, pc[u] = "set_front"  PROVE u # t /\ own[u] \in Node
      BY <1>1, <3>1 DEF PushCall, IInv, CallInv, TypeOK
    <3>2. QED  BY <2>1, <2>2, <3>1 DEF IInv, TypeOK
  <2>5. QED  BY <1>1, <2>1, <2>2, <2>3, <2>4, ChainKept DEF PushCall, history, IInv, TypeOK
<1>2. ASSUME NEW t \in Thread, NEW o \in Op, NEW P \in SUBSET Value, Call(t, o, P)  PROVE ChainInv'
  BY <1>2, ChainKept DEF Call, heap, history, IInv, TypeOK
<1>3. ASSUME NEW t \in Thread, LockFront(t)  PROVE ChainInv'
  <2>1. \A u \in Thread : pc'[u] = "set_front" <=> pc[u] = "set_front"
    BY <1>3 DEF LockFront, IInv, TypeOK
  <2>2. QED  BY <1>3, <2>1, ChainKept DEF LockFront, heap
<1>4. ASSUME NEW t \in Thread, Link(t)  PROVE ChainInv'
  <2>1. /\ own[t] \in Node /\ own[t] \notin InChain /\ next' = [next EXCEPT ![own[t]] = next[Front], ![Front] = Null]
        /\ pc[t] = "link" /\ pc' = [pc EXCEPT ![t] = "set_front"] /\ chain' = chain /\ data' = data /\ own' = own
    BY <1>4 DEF Link, IInv, CallInv, TypeOK, OwnInv, heap, history
  <2>2. ASSUME NEW u \in Thread, pc[u] = "set_front"  PROVE FALSE
    BY <2>1, <2>2, Exclusive DEF Held, IInv
  <2>3. next[Front] = Behind(0)
    BY <2>2 DEF IInv, ChainInv
  <2>4. \A k : Behind(k)' = Behind(k)
    BY <2>1 DEF Behind
  <2>5. \A n \in InChain : next'[n] = next[n]
    BY <2>1, Places DEF IInv, TypeOK
  <2>6. next'[own[t]] = Behind(0)
    BY <2>1, <2>3 DEF IInv, TypeOK
  <2>7. \A u \in Thread : pc'[u] = "set_front" <=> u = t
    BY <2>1, <2>2 DEF IInv, TypeOK
  <2>8. ASSUME NEW k \in DOMAIN chain'  PROVE next'[chain'[k]] = Behind(k)' /\ data'[chain'[k]] \in Value
    BY <2>1, <2>4, <2>5 DEF IInv, ChainInv, InChain
  <2>9. QED  BY <2>1, <2>4, <2>6, <2>7, <2>8 DEF IInv, ChainInv
<1>5. ASSUME NEW t \in Thread, SetFront(t)  PROVE ChainInv'
  <2>1. /\ own[t] \in Node /\ own[t] \notin InChain /\ next' = [next EXCEPT ![Front] = own[t]]
        /\ pc[t] = "set_front" /\ pc' = [pc EXCEPT ![t] = "return"] /\ data' = data
        /\ chain' = <<own[t]>> \o chain /\ data[own[t]] \in Value
    BY <1>5 DEF SetFront, Finish, IInv, CallInv, TypeOK, OwnInv
  <2>2. chain \in Seq(Node) /\ Len(chain) \in Nat
    BY DEF IInv, TypeOK
  <2>3. /\ DOMAIN chain' = 1..Len(chain) + 1 /\ Len(chain') = Len(chain) + 1 /\ chain'[1] = own[t]
        /\ \A k \in DOMAIN chain : k + 1 \in DOMAIN chain' /\ chain'[k + 1] = chain[k]
        /\ \A k \in DOMAIN chain' : k # 1 => k - 1 \in DOMAIN chain /\ chain'[k] = chain[k - 1]
    BY <2>1, <2>2
  <2>4. ASSUME NEW u \in Thread, pc'[u] = "set_front"  PROVE FALSE
    <3>1. u # t /\ pc[u] = "set_front"
      BY <2>1, <2>4 DEF IInv, TypeOK
    <3>2. QED  BY <2>1, <3>1, Exclusive DEF Held, IInv
  <2>5. \A k \in Nat : Behind(k + 1)' = Behind(k)
    BY <2>2, <2>3 DEF Behind
  <2>6. next'[Front] = own[t] /\ Behind(0)' = own[t]
    BY <2>1, <2>2, <2>3 DEF Behind, IInv, TypeOK
  <2>7. ASSUME NEW k \in DOMAIN chain'  PROVE next'[chain'[k]] = Behind(k)' /\ data'[chain'[k]] \in Value
    <3>1. \A n \in Node : next'[n] = next[n]
      BY <2>1 DEF IInv, TypeOK
    <3>2. CASE k = 1
      <4>1. next'[chain'[k]] = Behind(0) /\ Behind(1)' = Behind(0)
        BY <2>1, <2>3, <2>5, <3>1, <3>2 DEF IInv, ChainInv
      <4>2. QED  BY <2>1, <2>3, <3>2, <4>1
    <3>3. CASE k # 1
      <4>1. /\ k - 1 \in DOMAIN chain /\ chain'[k] = chain[k - 1] /\ k - 1 \in Nat /\ (k - 1) + 1 = k
            /\ chain[k - 1] \in Node
        BY <2>2, <2>3, <3>3
      <4>2. next[chain[k - 1]] = Behind(k - 1) /\ Behind(k)' = Behind(k - 1)
        BY <2>5, <4>1 DEF IInv, ChainInv
      <4>3. QED  BY <2>1, <3>1, <4>1, <4>2 DEF IInv, ChainInv
    <3>4. QED  BY <3>2, <3>3
  <2>8. ASSUME NEW k \in DOMAIN chain', NEW n \in DOMAIN chain', chain'[k] = chain'[n]  PROVE k = n
    <3>1. \A m \in DOMAIN chain : chain[m] # own[t]
      BY <2>1 DEF InChain
    <3>2. CASE k = 1 \/ n = 1
      BY <2>3, <2>8, <3>1, <3>2
    <3>3. CASE k # 1 /\ n # 1
      <4>1. k - 1 = n - 1
        BY <2>3, <2>8, <3>3 DEF IInv, ChainInv
      <4>2. k \in Nat /\ n \in Nat
        BY <2>2, <2>3
      <4>3. QED  BY <4>1, <4>2
    <3>4. QED  BY <3>2, <3>3
  <2>9. QED  BY <2>4, <2>6, <2>7, <2>8 DEF ChainInv
<1>6. ASSUME NEW t \in Thread, TestEmpty(t)  PROVE ChainInv'
  BY <1>6, ChainKept DEF TestEmpty, Finish, heap, history, IInv, TypeOK
<1>7. ASSUME NEW t \in Thread, ReadNext(t)  PROVE ChainInv'
  BY <1>7, ChainKept DEF ReadNext, heap, history, IInv, TypeOK
<1>8. ASSUME NEW t \in Thread, AtEnd(t)  PROVE ChainInv'
  BY <1>8, ChainKept DEF AtEnd, Finish, heap, history, IInv, TypeOK
<1>9. ASSUME NEW t \in Thread, LockNext(t)  PROVE ChainInv'
  BY <1>9, ChainKept DEF LockNext, heap, history, IInv, TypeOK
<1>10. ASSUME NEW t \in Thread, Unlock(t)  PROVE ChainInv'
  BY <1>10, ChainKept DEF Unlock, heap, history, IInv, TypeOK
<1>11. ASSUME NEW t \in Thread, Found(t)  PROVE ChainInv'
  BY <1>11, ChainKept DEF Found, Finish, heap, history, IInv, TypeOK
<1>12. ASSUME NEW t \in Thread, Advance(t)  PROVE ChainInv'
  BY <1>12, ChainKept DEF Advance, See, heap, history, IInv, TypeOK
<1>13. ASSUME NEW t \in Thread, Unlink(t)  PROVE ChainInv'
  <2> DEFINE q == Place(nxt[t])
             p == Place(cur[t])
  <2>1. /\ pc[t] = "test" /\ op[t] = "remove_if" /\ ~LetGo(t) /\ Traversing(t) /\ chain' = Without(nxt[t])
        /\ next' = [next EXCEPT ![cur[t]] = next[nxt[t]], ![nxt[t]] = Null] /\ data' = data
        /\ pc' = [pc EXCEPT ![t] = "unlock_dead"] /\ own' = [own EXCEPT ![t] = nxt[t]]
    BY <1>13 DEF Unlink, LetGo, Traversing
  <2>2. /\ nxt[t] \in InChain /\ nxt[t] \in Node /\ q = p + 1 /\ nxt[t] # cur[t]
        /\ cur[t] \in InChain \cup {Front} /\ cur[t] \in Cell /\ cur[t] \in Held(t) /\ p \in 0..Len(chain)
    BY <2>1, SeesNext, InFront, Places DEF Pos, IInv
  <2>3. chain \in Seq(Node) /\ Len(chain) \in Nat /\ q \in 1..Len(chain) /\ chain[q] = nxt[t]
    BY <2>2, Places DEF IInv, TypeOK
  <2>4. DOMAIN chain' = 1..Len(chain) - 1 /\ Len(chain') = Len(chain) - 1
    BY <2>1, UnlinkedPlaces
  <2>5. \A k \in 1..Len(chain) - 1 : chain'[k] = IF k < q THEN chain[k] ELSE chain[k + 1]
    BY <2>1, UnlinkedPlaces
  <2>6. next[nxt[t]] = Behind(q) /\ next'[cur[t]] = Behind(q)
    BY <2>1, <2>2, <2>3 DEF IInv, ChainInv, TypeOK
  <2>7. \A n \in Cell : n # cur[t] /\ n # nxt[t] => next'[n] = next[n]
    BY <2>1, <2>2 DEF IInv, TypeOK
  <2>8. \A k \in 0..Len(chain) - 1 : Behind(k)' = IF k + 1 < q THEN Behind(k) ELSE Behind(k + 1)
    <3>1. ASSUME NEW k \in 0..Len(chain) - 1
          PROVE Behind(k)' = IF k + 1 < q THEN Behind(k) ELSE Behind(k + 1)
      <4>1. CASE k < Len(chain) - 1
        <5>1. k + 1 \in 1..Len(chain) - 1 /\ Behind(k)' = chain'[k + 1]
          BY <2>3, <2>4, <4>1 DEF Behind
        <5>2. QED  BY <2>3, <2>5, <4>1, <5>1 DEF Behind
      <4>2. CASE ~(k < Len(chain) - 1)
        BY <2>3, <2>4, <4>2 DEF Behind
      <4>3. QED  BY <4>1, <4>2
    <3>2. QED  BY <3>1
  <2> HIDE DEF q, p
  <2>9. ASSUME NEW k \in DOMAIN chain'  PROVE next'[chain'[k]] = Behind(k)' /\ data'[chain'[k]] \in Value
    <3>1. k \in 1..Len(chain) - 1 /\ k \in DOMAIN chain /\ k + 1 \in DOMAIN chain /\ k \in Nat
      BY <2>3, <2>4
    <3>2. data'[chain'[k]] \in Value
      BY <2>1, <2>5, <3>1 DEF IInv, ChainInv
    <3>3. CASE k = p
      <4>1. chain'[k] = cur[t]
        BY <2>2, <2>3, <2>5, <3>1, <3>3, Places DEF p, IInv
      <4>2. Behind(k)' = Behind(q)
        BY <2>2, <2>8, <3>1, <3>3
      <4>3. QED  BY <2>6, <3>2, <4>1, <4>2
    <3>4. CASE k < p
      <4>1. chain'[k] = chain[k] /\ Behind(k)' = Behind(k)
        BY <2>2, <2>5, <2>8, <3>1, <3>4
      <4>2. chain[k] \in Cell /\ chain[k] # cur[t] /\ chain[k] # nxt[t]
        BY <2>2, <2>3, <3>1, <3>4, Places DEF p, q, IInv
      <4>3. QED  BY <2>7, <3>1, <3>2, <4>1, <4>2 DEF IInv, ChainInv
    <3>5. CASE k > p
      <4>1. chain'[k] = chain[k + 1] /\ Behind(k)' = Behind(k + 1)
        BY <2>2, <2>5, <2>8, <3>1, <3>5
      <4>2. chain[k + 1] \in Cell /\ chain[k + 1] # cur[t] /\ chain[k + 1] # nxt[t]
        <5>1. Place(chain[k + 1]) = k + 1 /\ chain[k + 1] \in Cell
          BY <3>1, Places DEF IInv
        <5>2. k + 1 # q /\ k + 1 # p
          BY <2>2, <3>1, <3>5
        <5>3. QED  BY <5>1, <5>2 DEF p, q
      <4>3. QED  BY <2>7, <3>1, <3>2, <4>1, <4>2 DEF IInv, ChainInv
    <3>6. QED  BY <2>2, <3>1, <3>3, <3>4, <3>5
  <2>10. ASSUME NEW k \in DOMAIN chain', NEW n \in DOMAIN chain', chain'[k] = chain'[n]  PROVE k = n
    <3>1. /\ k \in 1..Len(chain) - 1 /\ k \in DOMAIN chain /\ k + 1 \in DOMAIN chain
          /\ n \in 1..Len(chain) - 1 /\ n \in DOMAIN chain /\ n + 1 \in DOMAIN chain
      BY <2>3, <2>4
    <3>2. (IF k < q THEN k ELSE k + 1) = (IF n < q THEN n ELSE n + 1)
      BY <2>5, <2>10, <3>1 DEF IInv, ChainInv
    <3>3. QED  BY <2>3, <3>1, <3>2
  <2>11. ASSUME NEW u \in Thread, pc'[u] = "set_front"
         PROVE  next'[own'[u]] = Behind(0)'
    <3>1. u # t /\ pc[u] = "set_front"
      BY <2>1, <2>11 DEF IInv, TypeOK
    <3>2. cur[t] # Front
      BY <2>2, <3>1, Exclusive DEF Held, IInv
    <3>3. p # 0 /\ Behind(0)' = Behind(0)
      <4>1. p \in 1..Len(chain)
        BY <2>2, <2>3, <3>2, Places DEF p, IInv
      <4>2. 0 \in 0..Len(chain) - 1 /\ 0 + 1 < q
        BY <2>2, <2>3, <4>1
      <4>3. QED  BY <2>8, <4>1, <4>2
    <3>4. own[u] \in Node /\ own[u] \notin InChain
      BY <3>1 DEF IInv, CallInv, TypeOK, OwnInv
    <3>5. next'[own[u]] = next[own[u]]
      BY <2>2, <2>7, <3>2, <3>4
    <3>6. own'[u] = own[u]
      BY <2>1, <3>1 DEF IInv, TypeOK
    <3>7. QED  BY <3>1, <3>3, <3>5, <3>6 DEF IInv, ChainInv
  <2>12. ASSUME \A u \in Thread : pc'[u] # "set_front"  PROVE next'[Front] = Behind(0)'
    <3>1. \A u \in Thread : pc[u] # "set_front"
      BY <2>1, <2>12 DEF IInv, TypeOK
    <3>2. CASE cur[t] = Front
      <4>1. p = 0
        BY <3>2, Places DEF p, IInv
      <4>2. QED  BY <2>2, <2>3, <2>6, <2>8, <3>2, <4>1
    <3>3. CASE cur[t] # Front
      <4>1. p # 0
        BY <2>2, <3>3, Places DEF p, IInv
      <4>2. Behind(0)' = Behind(0)
        BY <2>2, <2>3, <2>8, <4>1
      <4>3. next'[Front] = next[Front]
        BY <2>2, <2>7, <3>3
      <4>4. QED  BY <3>1, <4>2, <4>3 DEF IInv, ChainInv
    <3>4. QED  BY <3>2, <3>3
  <2>13. QED  BY <2>9, <2>10, <2>11, <2>12 DEF ChainInv
<1>14. ASSUME NEW t \in Thread, UnlockDead(t)  PROVE ChainInv'
  BY <1>14, ChainKept DEF UnlockDead, heap, history, IInv, TypeOK
<1>15. ASSUME NEW t \in Thread, Delete(t)  PROVE ChainInv'
  <2>1. own[t] # Null /\ own[t] \notin InChain
    BY <1>15 DEF Delete, IInv, CallInv, OwnInv
  <2>2. \A n \in InChain : data'[n] = data[n]
    BY <1>15, <2>1, Places DEF Delete, IInv, TypeOK
  <2>3. QED  BY <1>15, <2>2, ChainKept DEF Delete, history, IInv, TypeOK
<1>16. ASSUME NEW t \in Thread, Return(t)  PROVE ChainInv'
  BY <1>16, ChainKept DEF Return, heap, history, IInv, TypeOK
<1>17. CASE UNCHANGED vars
  BY <1>17, ChainKept DEF vars, heap, history
<1>18. QED
  BY <1>1, <1>2, <1>3, <1>4, <1>5, <1>6, <1>7, <1>8, <1>9,
     <1>10, <1>11, <1>12, <1>13, <1>14, <1>15, <1>16, <1>17, Actions
  DEF Next

LEMMA OwnStep == IInv /\ [Next]_vars => OwnInv'
<1> SUFFICES ASSUME IInv, [Next]_vars  PROVE OwnInv'
  OBVIOUS
<1> USE DEF Goto
<1>0. ASSUME chain' = chain, live' = live, data' = data, own' = own,
             \A u \in Thread : own[u] # Null => op'[u] = op[u] \/ op'[u] # "push_front"
      PROVE  OwnInv'
  <2>1. InChain' = InChain
    BY <1>0 DEF InChain
  <2>2. QED  BY <1>0, <2>1 DEF IInv, OwnInv
<1>1. ASSUME NEW t \in Thread, NEW v \in Value, PushCall(t, v)  PROVE OwnInv'
  <2>1. PICK n \in Node \ live : /\ data' = [data EXCEPT ![n] = v] /\ own' = [own EXCEPT ![t] = n]
                                /\ live' = live \cup {n}
    BY <1>1 DEF PushCall
  <2>2. /\ op' = [op EXCEPT ![t] = "push_front"] /\ InChain' = InChain
        /\ data'[n] = v /\ own'[t] = n
    BY <1>1, <2>1 DEF PushCall, history, InChain, IInv, TypeOK
  <2>3. n \notin InChain /\ \A u \in Thread : own[u] # n
    BY <2>1 DEF IInv, OwnInv
  <2>4. \A u \in Thread : u # t => own'[u] = own[u] /\ op'[u] = op[u]
    BY <2>1, <2>2 DEF IInv, TypeOK
  <2>5. \A m \in Node : m # n => data'[m] = data[m]
    BY <2>1 DEF IInv, TypeOK
  <2>6. ASSUME NEW m \in Node  PROVE m \in live' <=> m \in InChain' \/ \E u \in Thread : own'[u] = m
    <3>1. CASE m = n
      BY <2>1, <2>2, <3>1
    <3>2. CASE m # n
      <4>1. own[t] = Null
        BY <1>1 DEF PushCall, IInv, CallInv
      <4>2. \A u \in Thread : own'[u] = m <=> own[u] = m
        BY <2>2, <2>4, <3>2, <4>1
      <4>3. QED  BY <2>1, <2>2, <3>2, <4>2 DEF IInv, OwnInv
    <3>3. QED  BY <3>1, <3>2
  <2>7. ASSUME NEW u \in Thread, own'[u] # Null
        PROVE  /\ own'[u] \notin InChain' /\ \A w \in Thread : own'[u] = own'[w] => u = w
               /\ op'[u] = "push_front" => data'[own'[u]] \in Value
    <3>1. CASE u = t
      BY <2>2, <2>3, <2>4, <3>1
    <3>2. CASE u # t
      BY <2>2, <2>3, <2>4, <2>5, <2>7, <3>2 DEF IInv, OwnInv, TypeOK
    <3>3. QED  BY <3>1, <3>2
  <2>8. QED  BY <2>6, <2>7 DEF OwnInv
<1>2. ASSUME NEW t \in Thread, NEW o \in Op, NEW P \in SUBSET Value, Call(t, o, P)  PROVE OwnInv'
  BY <1>0, <1>2 DEF Call, heap, history, IInv, TypeOK, CallInv
<1>3. ASSUME NEW t \in Thread, LockFront(t)  PROVE OwnInv'
  BY <1>0, <1>3 DEF LockFront, heap, history, IInv, TypeOK, CallInv
<1>4. ASSUME NEW t \in Thread, Link(t)  PROVE OwnInv'
  BY <1>0, <1>4 DEF Link, heap, history, IInv, TypeOK, CallInv
<1>5. ASSUME NEW t \in Thread, SetFront(t)  PROVE OwnInv'
  <2>1. /\ own[t] \in Node /\ own[t] \notin InChain /\ data' = data /\ live' = live /\ op' = op
        /\ own' = [own EXCEPT ![t] = Null] /\ chain' = <<own[t]>> \o chain
    BY <1>5 DEF SetFront, Finish, IInv, CallInv, TypeOK, OwnInv
  <2>2. InChain' = InChain \cup {own[t]}
    <3>1. /\ \A k \in DOMAIN chain : k + 1 \in DOMAIN chain' /\ chain'[k + 1] = chain[k]
          /\ \A k \in DOMAIN chain' : IF k = 1 THEN chain'[k] = own[t]
                                      ELSE k - 1 \in DOMAIN chain /\ chain'[k] = chain[k - 1]
          /\ 1 \in DOMAIN chain'
      BY <2>1 DEF IInv, TypeOK
    <3>2. \A n : n \in InChain' <=> n \in InChain \/ n = own[t]
      BY <3>1 DEF InChain
    <3>3. QED  BY <3>2
  <2>3. own'[t] = Null /\ \A u \in Thread : u # t => own'[u] = own[u] /\ own'[u] # own[t]
    BY <2>1 DEF IInv, TypeOK, OwnInv
  <2>4. ASSUME NEW m \in Node  PROVE m \in live' <=> m \in InChain' \/ \E u \in Thread : own'[u] = m
    <3>1. CASE m = own[t]
      BY <2>1, <2>2, <3>1 DEF IInv, OwnInv
    <3>2. CASE m # own[t]
      BY <2>1, <2>2, <2>3, <3>2 DEF IInv, OwnInv
    <3>3. QED  BY <3>1, <3>2
  <2>5. ASSUME NEW u \in Thread, own'[u] # Null
        PROVE  /\ own'[u] \notin InChain' /\ \A w \in Thread : own'[u] = own'[w] => u = w
               /\ op'[u] = "push_front" => data'[own'[u]] \in Value
    BY <2>1, <2>2, <2>3, <2>5 DEF IInv, OwnInv
  <2>6. QED  BY <2>4, <2>5 DEF OwnInv
<1>6. ASSUME NEW t \in Thread, TestEmpty(t)  PROVE OwnInv'
  <2>1. own' = own
    BY <1>6 DEF TestEmpty, Finish, IInv, TypeOK, CallInv, Traversing
  <2>2. QED  BY <1>0, <1>6, <2>1 DEF TestEmpty, Finish, heap, history
<1>7. ASSUME NEW t \in Thread, ReadNext(t)  PROVE OwnInv'
  BY <1>0, <1>7 DEF ReadNext, heap, history, IInv, TypeOK, CallInv
<1>8. ASSUME NEW t \in Thread, AtEnd(t)  PROVE OwnInv'
  <2>1. own' = own
    <3>1. own[t] = Null /\ own' = [own EXCEPT ![t] = Null]
      BY <1>8 DEF AtEnd, Finish, IInv, CallInv
    <3>2. QED  BY <3>1 DEF IInv, TypeOK
  <2>2. QED  BY <1>0, <1>8, <2>1 DEF AtEnd, Finish, heap, history
<1>9. ASSUME NEW t \in Thread, LockNext(t)  PROVE OwnInv'
  BY <1>0, <1>9 DEF LockNext, heap, history, IInv, TypeOK, CallInv
<1>10. ASSUME NEW t \in Thread, Unlock(t)  PROVE OwnInv'
  BY <1>0, <1>10 DEF Unlock, heap, history, IInv, TypeOK, CallInv
<1>11. ASSUME NEW t \in Thread, Found(t)  PROVE OwnInv'
  <2>1. own' = own
    BY <1>11 DEF Found, Finish, IInv, TypeOK, CallInv, Traversing
  <2>2. QED  BY <1>0, <1>11, <2>1 DEF Found, Finish, heap, history
<1>12. ASSUME NEW t \in Thread, Advance(t)  PROVE OwnInv'
  BY <1>0, <1>12 DEF Advance, See, heap, history, IInv, TypeOK, CallInv
<1>13. ASSUME NEW t \in Thread, Unlink(t)  PROVE OwnInv'
  <2>1. /\ data' = data /\ live' = live /\ op' = op /\ op[t] = "remove_if"
        /\ own' = [own EXCEPT ![t] = nxt[t]] /\ InChain' = InChain \ {nxt[t]} /\ own[t] = Null
    BY <1>13, UnlinkedCells DEF Unlink, heap, IInv, CallInv
  <2>2. nxt[t] \in InChain /\ nxt[t] \in Node
    BY <1>13, SeesNext DEF Unlink
  <2>3. /\ own'[t] = nxt[t]
        /\ \A u \in Thread : u # t => own'[u] = own[u] /\ (own'[u] # Null => own'[u] # nxt[t])
    BY <2>1, <2>2 DEF IInv, TypeOK, OwnInv
  <2>4. ASSUME NEW m \in Node  PROVE m \in live' <=> m \in InChain' \/ \E u \in Thread : own'[u] = m
    <3>1. CASE m = nxt[t]
      BY <2>1, <2>2, <2>3, <3>1 DEF IInv, OwnInv
    <3>2. CASE m # nxt[t]
      BY <2>1, <2>2, <2>3, <3>2 DEF IInv, OwnInv
    <3>3. QED  BY <3>1, <3>2
  <2>5. ASSUME NEW u \in Thread, own'[u] # Null
        PROVE  /\ own'[u] \notin InChain' /\ \A w \in Thread : own'[u] = own'[w] => u = w
               /\ op'[u] = "push_front" => data'[own'[u]] \in Value
    <3>1. CASE u = t
      BY <2>1, <2>2, <2>3, <3>1
    <3>2. CASE u # t
      BY <2>1, <2>2, <2>3, <2>5, <3>2 DEF IInv, OwnInv
    <3>3. QED  BY <3>1, <3>2
  <2>6. QED  BY <2>4, <2>5 DEF OwnInv
<1>14. ASSUME NEW t \in Thread, UnlockDead(t)  PROVE OwnInv'
  BY <1>0, <1>14 DEF UnlockDead, heap, history, IInv, TypeOK, CallInv
<1>15. ASSUME NEW t \in Thread, Delete(t)  PROVE OwnInv'
  <2>1. /\ data' = [data EXCEPT ![own[t]] = Null] /\ live' = live \ {own[t]} /\ op' = op
        /\ own' = [own EXCEPT ![t] = Null] /\ InChain' = InChain
        /\ own[t] \in Node /\ own[t] \notin InChain
    BY <1>15 DEF Delete, history, InChain, IInv, CallInv, TypeOK, OwnInv
  <2>2. own'[t] = Null /\ \A u \in Thread : u # t => own'[u] = own[u] /\ own'[u] # own[t]
    BY <2>1 DEF IInv, TypeOK, OwnInv
  <2>3. ASSUME NEW m \in Node  PROVE m \in live' <=> m \in InChain' \/ \E u \in Thread : own'[u] = m
    <3>1. CASE m = own[t]
      BY <2>1, <2>2, <3>1
    <3>2. CASE m # own[t]
      BY <2>1, <2>2, <3>2 DEF IInv, OwnInv
    <3>3. QED  BY <3>1, <3>2
  <2>4. ASSUME NEW u \in Thread, own'[u] # Null
        PROVE  /\ own'[u] \notin InChain' /\ \A w \in Thread : own'[u] = own'[w] => u = w
               /\ op'[u] = "push_front" => data'[own'[u]] \in Value
    <3>1. data'[own[u]] = data[own[u]]
      BY <2>1, <2>2, <2>4 DEF IInv, TypeOK
    <3>2. QED  BY <2>1, <2>2, <2>4, <3>1 DEF IInv, OwnInv
  <2>5. QED  BY <2>3, <2>4 DEF OwnInv
<1>16. ASSUME NEW t \in Thread, Return(t)  PROVE OwnInv'
  BY <1>0, <1>16 DEF Return, heap, history, IInv, TypeOK, CallInv
<1>17. CASE UNCHANGED vars
  BY <1>0, <1>17 DEF vars, heap, history
<1>18. QED
  BY <1>1, <1>2, <1>3, <1>4, <1>5, <1>6, <1>7, <1>8, <1>9,
     <1>10, <1>11, <1>12, <1>13, <1>14, <1>15, <1>16, <1>17, Actions
  DEF Next

-----------------------------------------------------------------------------
(* Places after a step *)

PlacesInv ==
  /\ Place(Front) = 0 /\ Front \notin InChain
  /\ \A k \in DOMAIN chain : chain[k] \in Node /\ chain[k] \in InChain /\ Place(chain[k]) = k
  /\ \A n \in InChain : n \in Node /\ Place(n) \in DOMAIN chain /\ chain[Place(n)] = n

LEMMA PlacesHold == TypeOK /\ ChainInv => PlacesInv
BY Places DEF PlacesInv

LEMMA PlacesNext == IInv /\ [Next]_vars => PlacesInv'
<1>1. IInv /\ [Next]_vars => TypeOK' /\ ChainInv'
  BY TypeStep, ChainStep
<1>2. TypeOK' /\ ChainInv' => PlacesInv'
  BY PlacesHold, PTL
<1>3. QED  BY <1>1, <1>2

LEMMA PosKept ==
  ASSUME chain' = chain, NEW u,
         pc'[u] = pc[u], op'[u] = op[u], cur'[u] = cur[u], nxt'[u] = nxt[u]
  PROVE  Pos(u)' = Pos(u) /\ Traversing(u)' = Traversing(u)
BY DEF Pos, Place, LetGo, Traversing

LEMMA PlaceKept ==
  ASSUME chain' = chain
  PROVE  InChain' = InChain /\ \A n : Place(n)' = Place(n)
BY DEF InChain, Place

\* push_front moves every cell, and everybody, one place on.
LEMMA PushedPlaces ==
  ASSUME IInv, [Next]_vars, NEW t \in Thread, SetFront(t)
  PROVE  /\ own[t] \notin InChain /\ InChain' = InChain \cup {own[t]}
         /\ \A n \in InChain' \ InChain : Place(n)' = 1
         /\ \A n \in InChain : Place(n)' = Place(n) + 1
         /\ \A u \in Thread : Traversing(u)' =>
              Traversing(u) /\ u # t /\ Pos(u) \in Nat /\ Pos(u)' = Pos(u) + 1
<1>1. own[t] \notin InChain /\ chain' = <<own[t]>> \o chain /\ chain \in Seq(Node)
  BY DEF SetFront, Finish, Goto, IInv, CallInv, OwnInv, TypeOK
<1>2. PlacesInv /\ PlacesInv'
  BY PlacesHold, PlacesNext DEF IInv
<1>3. /\ 1 \in DOMAIN chain' /\ chain'[1] = own[t]
      /\ \A k \in DOMAIN chain : k + 1 \in DOMAIN chain' /\ chain'[k + 1] = chain[k]
      /\ \A k \in DOMAIN chain' : k # 1 => k - 1 \in DOMAIN chain /\ chain'[k] = chain[k - 1]
  BY <1>1
<1>4. own[t] \in InChain' /\ \A n : n = own[t] => Place(n)' = 1
  BY <1>2, <1>3 DEF PlacesInv
<1>5. ASSUME NEW n \in InChain  PROVE Place(n)' = Place(n) + 1 /\ n \in InChain'
  <2>1. Place(n) \in DOMAIN chain /\ chain[Place(n)] = n
    BY <1>2 DEF PlacesInv
  <2>2. Place(n) + 1 \in DOMAIN chain' /\ chain'[Place(n) + 1] = n
    BY <1>3, <2>1
  <2>3. QED  BY <1>2, <2>2 DEF PlacesInv
<1>6. ASSUME NEW n \in InChain'  PROVE n \in InChain \/ n = own[t]
  <2>1. Place(n)' \in DOMAIN chain' /\ chain'[Place(n)'] = n
    BY <1>2 DEF PlacesInv
  <2>2. QED  BY <1>3, <2>1 DEF InChain
<1>7. ASSUME NEW u \in Thread, Traversing(u)'
      PROVE  Traversing(u) /\ u # t /\ Pos(u) \in Nat /\ Pos(u)' = Pos(u) + 1
  <2>1. u # t /\ pc'[u] = pc[u] /\ op'[u] = op[u] /\ cur'[u] = cur[u] /\ nxt'[u] = nxt[u]
    BY <1>7 DEF SetFront, Finish, Goto, Traversing, IInv, TypeOK
  <2>2. Traversing(u) /\ Stand(u)' = Stand(u) /\ LetGo(u)' = LetGo(u)
    BY <1>7, <2>1 DEF Traversing, Stand, LetGo
  <2>3. Front \in Held(t)
    BY DEF SetFront, Finish, Goto, Held
  <2>4. Stand(u) \in InChain
    BY <2>1, <2>2, <2>3, NotMine
  <2>5. Place(Stand(u))' = Place(Stand(u)) + 1 /\ Place(Stand(u)) \in 1..Len(chain)
    <3>1. PICK n \in InChain : n = Stand(u)
      BY <2>4
    <3>2. Place(Stand(u))' = Place(n)' /\ Place(Stand(u)) = Place(n)
      BY <2>2, <3>1
    <3>3. QED  BY <1>1, <1>2, <1>5, <3>2 DEF PlacesInv
  <2>6. Pos(u) = IF LetGo(u) THEN Place(Stand(u)) - 1 ELSE Place(Stand(u))
    BY DEF Pos, Stand
  <2>7. Pos(u)' = IF LetGo(u)' THEN Place(Stand(u))' - 1 ELSE Place(Stand(u))'
    BY DEF Pos, Stand
  <2>8. Place(Stand(u)) \in Nat /\ Place(Stand(u)) >= 1
    BY <1>1, <2>5
  <2>9. QED  BY <2>1, <2>2, <2>5, <2>6, <2>7, <2>8
<1>8. QED  BY <1>1, <1>4, <1>5, <1>6, <1>7

\* Unlink moves the cells behind the one it takes out one place back.
LEMMA UnlinkMoves ==
  ASSUME IInv, [Next]_vars, NEW t \in Thread, Unlink(t)
  PROVE  /\ nxt[t] \in InChain /\ InChain' = InChain \ {nxt[t]} /\ Pos(t) \in Nat
         /\ Place(nxt[t]) = Pos(t) + 1
         /\ \A n \in InChain' : /\ Place(n) \in Nat /\ Place(n) # Pos(t) + 1
                                /\ Place(n)' = IF Place(n) <= Pos(t) THEN Place(n) ELSE Place(n) - 1
         /\ Traversing(t) /\ ~LetGo(t) /\ Traversing(t)' /\ Pos(t)' = Pos(t)
         /\ \A u \in Thread : u # t /\ Traversing(u)' =>
              /\ Traversing(u) /\ Pos(u) \in Nat
              /\ ~LetGo(u) => Pos(u) # Pos(t) /\ Pos(u) # Pos(t) + 1
              /\ LetGo(u) => Pos(u) # Pos(t)
              /\ Pos(u)' = IF Pos(u) <= Pos(t) THEN Pos(u) ELSE Pos(u) - 1
<1>1. /\ pc[t] = "test" /\ chain' = Without(nxt[t]) /\ op[t] = "remove_if"
      /\ pc' = [pc EXCEPT ![t] = "unlock_dead"] /\ UNCHANGED <<op, cur, nxt>>
  BY DEF Unlink, Goto
<1>2. /\ nxt[t] \in InChain /\ Pos(t) \in Nat /\ Place(nxt[t]) = Pos(t) + 1 /\ InChain' = InChain \ {nxt[t]}
      /\ Traversing(t) /\ ~LetGo(t) /\ nxt[t] # cur[t] /\ Pos(t) = Place(cur[t])
  BY <1>1, SeesNext, UnlinkedCells DEF LetGo, Pos
<1>3. PlacesInv /\ PlacesInv'
  BY PlacesHold, PlacesNext DEF IInv
<1>4. ASSUME NEW n \in InChain'
      PROVE  /\ Place(n) \in Nat /\ Place(n) # Pos(t) + 1
             /\ Place(n)' = IF Place(n) <= Pos(t) THEN Place(n) ELSE Place(n) - 1
  <2>1. Place(n) \in 1..Len(chain) /\ chain[Place(n)] = n /\ n # nxt[t]
    BY <1>2, <1>3, <1>4 DEF PlacesInv, IInv, TypeOK
  <2>2. Place(n) # Place(nxt[t]) /\ Place(n) \in Nat
    BY <1>2, <1>3, <2>1 DEF PlacesInv
  <2>3. PICK m \in 1..Len(chain) - 1 :
          m = (IF Place(n) < Place(nxt[t]) THEN Place(n) ELSE Place(n) - 1) /\ chain'[m] = n
    BY <1>1, <2>1, <2>2, UnlinkedPlaces
  <2>4. m \in DOMAIN chain'
    BY <1>1, <2>3, UnlinkedPlaces
  <2>5. Place(n)' = m
    BY <1>3, <2>3, <2>4 DEF PlacesInv
  <2>6. QED  BY <1>2, <2>2, <2>3, <2>5
<1>5. Traversing(t)' /\ Pos(t)' = Pos(t)
  <2>1. pc'[t] = "unlock_dead" /\ cur'[t] = cur[t]
    BY <1>1 DEF IInv, TypeOK
  <2>2. Traversing(t)' /\ Pos(t)' = Place(cur[t])'
    BY <2>1 DEF Traversing, Pos, LetGo, Place
  <2>3. cur[t] \in InChain \cup {Front}
    BY <1>2, InFront
  <2>4. CASE cur[t] = Front
    BY <1>2, <2>1, <2>2, <2>4 DEF Place
  <2>5. CASE cur[t] # Front
    <3>1. PICK n \in InChain' : n = cur[t]
      BY <1>2, <2>3, <2>5
    <3>2. Place(cur[t])' = Place(n)'
      BY <2>1, <3>1
    <3>3. QED  BY <1>2, <1>4, <2>2, <3>1, <3>2
  <2>6. QED  BY <2>4, <2>5
<1>6. ASSUME NEW u \in Thread, u # t, Traversing(u)'
      PROVE  /\ Traversing(u) /\ Pos(u) \in Nat
             /\ ~LetGo(u) => Pos(u) # Pos(t) /\ Pos(u) # Pos(t) + 1
             /\ LetGo(u) => Pos(u) # Pos(t)
             /\ Pos(u)' = IF Pos(u) <= Pos(t) THEN Pos(u) ELSE Pos(u) - 1
  <2>1. pc'[u] = pc[u] /\ op'[u] = op[u] /\ cur'[u] = cur[u] /\ nxt'[u] = nxt[u]
    BY <1>1, <1>6 DEF IInv, TypeOK
  <2>2. Traversing(u) /\ Stand(u)' = Stand(u) /\ LetGo(u)' = LetGo(u)
    BY <1>6, <2>1 DEF Traversing, Stand, LetGo
  <2>3. Pos(u) \in Nat
    BY <2>2, Positions DEF IInv, TypeOK
  <2>4. /\ ~LetGo(u) => Pos(u) # Pos(t) /\ Pos(u) # Pos(t) + 1
        /\ LetGo(u) => Pos(u) # Pos(t)
    BY <1>1, <1>2, <1>6, <2>2, Distances
  <2>5. Stand(u) \in InChain \cup {Front} /\ Stand(u) # nxt[t]
    <3>1. nxt[t] \in Held(t)
      BY <1>1 DEF Held
    <3>2. QED  BY <1>6, <2>2, <3>1, NotMine
  <2>6. Pos(u) = IF LetGo(u) THEN Place(Stand(u)) - 1 ELSE Place(Stand(u))
    BY DEF Pos, Stand
  <2>7. Pos(u)' = IF LetGo(u) THEN Place(Stand(u))' - 1 ELSE Place(Stand(u))'
    BY <2>2 DEF Pos, Stand
  <2>8. CASE Stand(u) = Front
    <3>1. Place(Stand(u))' = 0 /\ Place(Stand(u)) = 0
      BY <1>3, <2>2, <2>8 DEF PlacesInv
    <3>2. QED  BY <1>2, <2>2, <2>3, <2>4, <2>6, <2>7, <3>1
  <2>9. CASE Stand(u) # Front
    <3>1. PICK n \in InChain' : n = Stand(u)
      BY <1>2, <2>5, <2>9
    <3>2. /\ Place(Stand(u)) \in Nat /\ Place(Stand(u)) # Pos(t) + 1
          /\ Place(Stand(u))' = IF Place(Stand(u)) <= Pos(t) THEN Place(Stand(u)) ELSE Place(Stand(u)) - 1
      <4>1. Place(Stand(u))' = Place(n)' /\ Place(Stand(u)) = Place(n)
        BY <2>2, <3>1
      <4>2. QED  BY <1>4, <4>1
    <3>3. QED  BY <1>2, <2>2, <2>3, <2>4, <2>6, <2>7, <3>2
  <2>10. QED  BY <2>8, <2>9
<1>7. QED  BY <1>2, <1>4, <1>5, <1>6

\* What a removal unlinks, no other traversal is to see.
LEMMA Unlinks ==
  ASSUME IInv, NEW t \in Thread, pc[t] = "test", op[t] = "remove_if", data[nxt[t]] \in arg[t],
         NEW u \in Thread, u # t, Traversing(u)
  PROVE  nxt[t] \notin ahead[u]
<1>1. /\ Traversing(t) /\ ~LetGo(t) /\ nxt[t] \in ahead[t] /\ nxt[t] \in Node
      /\ Place(nxt[t]) = Pos(t) + 1 /\ Pos(t) \in Nat /\ Pos(u) \in Nat
  BY SeesNext, Positions DEF Traversing, LetGo, IInv, TypeOK
<1>2. CASE Pos(u) < Pos(t)
  <2>1. Follows(u, t) /\ Dooms(t, nxt[t])
    BY <1>1, <1>2 DEF Follows, Dooms
  <2>2. QED  BY <1>1, <2>1 DEF IInv, AheadInv
<1>3. CASE ~(Pos(u) < Pos(t))
  <2>1. Pos(u) # Pos(t)
    BY <1>1, Distances
  <2>2. ~(Pos(u) < Place(nxt[t]))
    BY <1>1, <1>3, <2>1
  <2>3. QED  BY <2>2 DEF IInv, AheadInv, ToCome
<1>4. QED  BY <1>2, <1>3

\* AheadInv survives a step in which no traversal begins, nobody overtakes, nobody
\* loses sight of a cell but the one it has just seen, and no removal gives up.
LEMMA AheadKept ==
  ASSUME IInv,
         \A u \in Thread : ~Traversing(u)' =>
           ahead'[u] = {} \/ (pc'[u] = "return" /\ op'[u] = "find_first_if"),
         \A u \in Thread : Traversing(u)' => Traversing(u) /\ op'[u] = op[u] /\ arg'[u] = arg[u],
         \A n \in InChain : data'[n] = data[n],
         \A u \in Thread : Traversing(u)' => ahead'[u] \subseteq ahead[u] \cap ToCome(u)',
         \A u \in Thread : Traversing(u)' => ToCome(u)' \ ahead'[u] \subseteq ToCome(u) \ ahead[u],
         \A u \in Thread, n \in InChain' : Traversing(u) /\ Dooms(u, n) =>
           Traversing(u)' /\ n \in ahead'[u],
         \A u, w \in Thread : /\ u # w /\ op[w] = "remove_if"
                             /\ Traversing(u)' /\ Traversing(w)'
                             => (Follows(u, w)' <=> Follows(u, w))
  PROVE  AheadInv'
<1> USE DEF IInv
<1>1. ASSUME NEW u \in Thread, Traversing(u)', NEW n \in ToCome(u)' \ ahead'[u]
      PROVE  \E w \in Thread : Follows(u, w)' /\ Dooms(w, n)'
  <2>1. Traversing(u) /\ n \in ToCome(u) \ ahead[u]
    BY <1>1
  <2>2. PICK w \in Thread : Follows(u, w) /\ Dooms(w, n)
    BY <2>1 DEF AheadInv
  <2>3. Traversing(w) /\ op[w] = "remove_if" /\ u # w
    BY <2>1, <2>2 DEF Follows, Dooms
  <2>4. n \in InChain /\ n \in InChain'
    BY <1>1, <2>1 DEF ToCome
  <2>5. Traversing(w)' /\ n \in ahead'[w]
    BY <2>2, <2>3, <2>4
  <2>6. Dooms(w, n)'
    BY <2>2, <2>4, <2>5 DEF Dooms
  <2>7. QED  BY <1>1, <2>2, <2>3, <2>5, <2>6
<1>2. ASSUME NEW u \in Thread, NEW w \in Thread, Follows(u, w)', NEW n \in Node, Dooms(w, n)'
      PROVE  n \notin ahead'[u]
  <2>1. Traversing(u)' /\ Traversing(w)' /\ op[w] = "remove_if" /\ n \in ahead[w] /\ Traversing(w) /\ Traversing(u)
    BY <1>2 DEF Follows, Dooms
  <2>2. n \in InChain
    BY <2>1 DEF AheadInv, ToCome
  <2>3. Dooms(w, n)
    BY <1>2, <2>1, <2>2 DEF Dooms
  <2>4. u # w
    BY <1>2 DEF Follows
  <2>5. QED  BY <1>2, <2>1, <2>3, <2>4 DEF AheadInv
<1>3. QED  BY <1>1, <1>2 DEF AheadInv

\* In particular a step in which no traversal moves: t works behind its place, is not
\* traversing, or ends a traversal that has nothing more to see or removes nothing.
LEMMA AheadKeptStill ==
  ASSUME IInv, NEW t \in Thread, chain' = chain,
         \A n \in InChain : data'[n] = data[n],
         \A u \in Thread : u # t =>
           /\ pc'[u] = pc[u] /\ op'[u] = op[u] /\ arg'[u] = arg[u]
           /\ cur'[u] = cur[u] /\ nxt'[u] = nxt[u] /\ ahead'[u] = ahead[u],
         \/ ~Traversing(t)' /\ ahead'[t] = {} /\ (Traversing(t) => ahead[t] = {})
         \/ pc'[t] = "return" /\ op'[t] = "find_first_if" /\ op[t] = "find_first_if"
         \/ /\ Traversing(t) /\ Traversing(t)' /\ Pos(t)' = Pos(t)
            /\ op'[t] = op[t] /\ arg'[t] = arg[t] /\ ahead'[t] = ahead[t]
  PROVE  AheadInv'
<1> USE DEF IInv
<1>1. \A u \in Thread : u # t => Pos(u)' = Pos(u) /\ Traversing(u)' = Traversing(u)
  BY PosKept
<1>2. InChain' = InChain /\ \A n : Place(n)' = Place(n)
  BY PlaceKept
<1>3. ASSUME NEW u \in Thread, Traversing(u)'
      PROVE  /\ Traversing(u) /\ op'[u] = op[u] /\ arg'[u] = arg[u] /\ ahead'[u] = ahead[u]
             /\ Pos(u)' = Pos(u) /\ ToCome(u)' = ToCome(u)
  <2>1. /\ Traversing(u) /\ op'[u] = op[u] /\ arg'[u] = arg[u] /\ ahead'[u] = ahead[u]
        /\ Pos(u)' = Pos(u)
    <3>1. CASE u = t
      BY <1>3, <3>1 DEF Traversing
    <3>2. CASE u # t
      BY <1>1, <1>3, <3>2
    <3>3. QED  BY <3>1, <3>2
  <2>2. ToCome(u)' = ToCome(u)
    BY <1>2, <2>1 DEF ToCome
  <2>3. QED  BY <2>1, <2>2
<1>4. ASSUME NEW u \in Thread, NEW n \in InChain', Traversing(u), Dooms(u, n)
      PROVE  Traversing(u)' /\ n \in ahead'[u]
  <2>1. CASE u = t
    BY <1>3, <1>4, <2>1 DEF Dooms
  <2>2. CASE u # t
    BY <1>1, <1>4, <2>2 DEF Dooms
  <2>3. QED  BY <2>1, <2>2
<1>5. ASSUME NEW u \in Thread, ~Traversing(u)'
      PROVE  ahead'[u] = {} \/ (pc'[u] = "return" /\ op'[u] = "find_first_if")
  <2>1. CASE u = t
    BY <1>5, <2>1
  <2>2. CASE u # t
    BY <1>1, <1>5, <2>2 DEF AheadInv
  <2>3. QED  BY <2>1, <2>2
<1>6. \A u \in Thread : Traversing(u)' => ahead'[u] \subseteq ahead[u] \cap ToCome(u)'
  BY <1>3 DEF AheadInv
<1>7. \A u \in Thread : Traversing(u)' => ToCome(u)' \ ahead'[u] \subseteq ToCome(u) \ ahead[u]
  BY <1>3
<1>8. \A u, w \in Thread : Traversing(u)' /\ Traversing(w)' => (Follows(u, w)' <=> Follows(u, w))
  BY <1>3 DEF Follows
<1>9. \A u \in Thread : Traversing(u)' => Traversing(u) /\ op'[u] = op[u] /\ arg'[u] = arg[u]
  BY <1>3
<1>10. QED  BY <1>4, <1>5, <1>6, <1>7, <1>8, <1>9, AheadKept

LEMMA AheadStep == IInv /\ [Next]_vars => AheadInv'
<1> SUFFICES ASSUME IInv, [Next]_vars  PROVE AheadInv'
  OBVIOUS
<1> USE DEF Goto
<1>1. ASSUME NEW t \in Thread, NEW v \in Value, PushCall(t, v)  PROVE AheadInv'
  <2>1. \A u \in Thread : u # t =>
          /\ pc'[u] = pc[u] /\ op'[u] = op[u] /\ arg'[u] = arg[u]
          /\ cur'[u] = cur[u] /\ nxt'[u] = nxt[u] /\ ahead'[u] = ahead[u]
    BY <1>1 DEF PushCall, history, IInv, TypeOK
  <2>2. chain' = chain /\ \A n \in InChain : data'[n] = data[n]
    <3>1. PICK n \in Node \ live : data' = [data EXCEPT ![n] = v]
      BY <1>1 DEF PushCall
    <3>2. n \notin InChain
      BY <3>1 DEF IInv, OwnInv
    <3>3. QED  BY <1>1, <3>1, <3>2, Places DEF PushCall, history, IInv, TypeOK
  <2>3. ~Traversing(t)' /\ ahead'[t] = {} /\ (Traversing(t) => ahead[t] = {})
    BY <1>1 DEF PushCall, Traversing, history, IInv, TypeOK, AheadInv
  <2>4. QED  BY <2>1, <2>2, <2>3, AheadKeptStill
<1>2. ASSUME NEW t \in Thread, NEW o \in Op, NEW P \in SUBSET Value, Call(t, o, P)  PROVE AheadInv'
  <2>1. \A u \in Thread : u # t =>
          /\ pc'[u] = pc[u] /\ op'[u] = op[u] /\ arg'[u] = arg[u]
          /\ cur'[u] = cur[u] /\ nxt'[u] = nxt[u] /\ ahead'[u] = ahead[u]
    BY <1>2 DEF Call, history, IInv, TypeOK
  <2>2. chain' = chain /\ \A n \in InChain : data'[n] = data[n]
    BY <1>2 DEF Call, heap, history
  <2>3. ~Traversing(t)' /\ ahead'[t] = {} /\ (Traversing(t) => ahead[t] = {})
    BY <1>2 DEF Call, Traversing, history, IInv, TypeOK, AheadInv
  <2>4. QED  BY <2>1, <2>2, <2>3, AheadKeptStill
<1>3. ASSUME NEW t \in Thread, LockFront(t)  PROVE AheadInv'
  <2>1. CASE op[t] \notin {"find_first_if", "remove_if"}
    <3>1. \A u \in Thread : u # t =>
            /\ pc'[u] = pc[u] /\ op'[u] = op[u] /\ arg'[u] = arg[u]
            /\ cur'[u] = cur[u] /\ nxt'[u] = nxt[u] /\ ahead'[u] = ahead[u]
      BY <1>3, <2>1 DEF LockFront, IInv, TypeOK
    <3>2. chain' = chain /\ data' = data /\ ahead' = ahead
      BY <1>3, <2>1 DEF LockFront, heap
    <3>3. ~Traversing(t) /\ ~Traversing(t)' /\ ahead[t] = {}
      BY <1>3, <2>1 DEF LockFront, Traversing, IInv, TypeOK, CallInv, AheadInv, Op
    <3>4. QED  BY <3>1, <3>2, <3>3, AheadKeptStill
  <2>2. CASE op[t] \in {"find_first_if", "remove_if"}
    <3>1. /\ pc[t] = "lock_front" /\ mtx[Front] = Null
          /\ pc' = [pc EXCEPT ![t] = "next"] /\ cur' = [cur EXCEPT ![t] = Front]
          /\ ahead' = [ahead EXCEPT ![t] = Contents] /\ UNCHANGED <<op, arg, nxt, chain, data>>
      BY <1>3, <2>2 DEF LockFront, heap
    <3>2. ~Traversing(t) /\ ahead[t] = {}
      BY <3>1 DEF Traversing, IInv, AheadInv
    <3>3. ahead'[t] = Contents /\ Traversing(t)' /\ Pos(t)' = 0
      BY <3>1 DEF IInv, TypeOK, Traversing, Pos, LetGo, Place
    <3>4. InChain' = InChain /\ \A n : Place(n)' = Place(n)
      BY <3>1, PlaceKept
    <3>5. ASSUME NEW u \in Thread, u # t
          PROVE  /\ Traversing(u)' = Traversing(u) /\ Pos(u)' = Pos(u) /\ ahead'[u] = ahead[u]
                 /\ ToCome(u)' = ToCome(u) /\ \A n : Dooms(u, n)' = Dooms(u, n)
                 /\ pc'[u] = pc[u] /\ op'[u] = op[u]
      <4>1. /\ pc'[u] = pc[u] /\ op'[u] = op[u] /\ cur'[u] = cur[u] /\ nxt'[u] = nxt[u]
            /\ ahead'[u] = ahead[u]
        BY <3>1, <3>5 DEF IInv, TypeOK
      <4>2. Traversing(u)' = Traversing(u) /\ Pos(u)' = Pos(u)
        BY <3>1, <4>1, PosKept
      <4>3. ToCome(u)' = ToCome(u)
        BY <3>4, <4>2 DEF ToCome
      <4>4. QED  BY <3>1, <4>1, <4>2, <4>3 DEF Dooms
    <3>6. ASSUME NEW u \in Thread, Traversing(u), op[u] = "remove_if"  PROVE u # t /\ 0 < Pos(u)
      <4>1. u # t /\ ~LetGo(u)
        BY <3>2, <3>6 DEF LetGo
      <4>2. cur[u] \in Held(u) /\ cur[u] \in InChain \cup {Front} /\ Pos(u) = Place(cur[u])
        BY <3>6, <4>1, InFront DEF Pos
      <4>3. cur[u] # Front
        BY <3>1, <4>2 DEF IInv, LockInv
      <4>4. Place(cur[u]) \in 1..Len(chain)
        BY <4>2, <4>3, Places DEF IInv, TypeOK
      <4>5. QED  BY <4>1, <4>2, <4>4 DEF IInv, TypeOK
    <3>7. Contents \subseteq ToCome(t)'
      <4>1. ASSUME NEW n \in InChain  PROVE 0 < Place(n)
        <5>1. Place(n) \in 1..Len(chain)
          BY Places DEF IInv, TypeOK
        <5>2. QED  BY <5>1 DEF IInv, TypeOK
      <4>2. QED  BY <3>3, <3>4, <4>1 DEF ToCome, Contents
    <3>8. ASSUME NEW n \in ToCome(t)' \ Contents
          PROVE  \E w \in Thread : Follows(t, w)' /\ Dooms(w, n)'
      <4>1. n \in Doomed
        BY <3>4, <3>8 DEF ToCome, Contents
      <4>2. PICK w \in Thread : Dooms(w, n)
        BY <4>1 DEF Doomed, Dooms
      <4>3. Traversing(w)
        BY <4>2 DEF Dooms, IInv, AheadInv
      <4>4. w # t /\ 0 < Pos(w)
        BY <4>2, <4>3, <3>6 DEF Dooms
      <4>5. QED  BY <3>3, <3>5, <4>2, <4>3, <4>4 DEF Follows
    <3>9. ASSUME NEW n \in Node, NEW w \in Thread, Follows(t, w)', Dooms(w, n)'  PROVE n \notin ahead'[t]
      <4>1. w # t /\ Dooms(w, n)
        BY <3>5, <3>9 DEF Follows
      <4>2. n \in Doomed
        BY <3>9, <4>1 DEF Dooms, Doomed
      <4>3. QED  BY <3>3, <4>2 DEF Contents
    <3>10. ASSUME NEW n \in Node, NEW u \in Thread, NEW w \in Thread, u # t, Follows(u, w)', Dooms(w, n)'
           PROVE  n \notin ahead'[u]
      <4>1. CASE w = t
        <5>1. Pos(u) \in 0..Len(chain) /\ Pos(u) < 0
          BY <3>3, <3>5, <3>10, <4>1, Positions DEF Follows
        <5>2. QED  BY <5>1 DEF IInv, TypeOK
      <4>2. CASE w # t
        BY <3>5, <3>10, <4>2 DEF Follows, IInv, AheadInv
      <4>3. QED  BY <4>1, <4>2
    <3>11. ASSUME NEW u \in Thread, u # t
           PROVE  /\ ~Traversing(u)' => ahead'[u] = {} \/ (pc'[u] = "return" /\ op'[u] = "find_first_if")
                  /\ Traversing(u)' => ahead'[u] \subseteq ToCome(u)'
                  /\ Traversing(u)' =>
                       \A n \in ToCome(u)' \ ahead'[u] : \E w \in Thread : Follows(u, w)' /\ Dooms(w, n)'
      <4>1. ASSUME Traversing(u)', NEW n \in ToCome(u)' \ ahead'[u]
            PROVE \E w \in Thread : Follows(u, w)' /\ Dooms(w, n)'
        <5>1. PICK w \in Thread : Follows(u, w) /\ Dooms(w, n)
          BY <3>5, <3>11, <4>1 DEF IInv, AheadInv
        <5>2. w # t
          BY <3>2, <5>1 DEF Dooms
        <5>3. QED  BY <3>5, <3>11, <5>1, <5>2 DEF Follows
      <4>2. QED  BY <3>5, <3>11, <4>1 DEF IInv, AheadInv
    <3>12. QED  BY <3>3, <3>7, <3>8, <3>9, <3>10, <3>11 DEF AheadInv
  <2>3. QED  BY <2>1, <2>2
<1>4. ASSUME NEW t \in Thread, Link(t)  PROVE AheadInv'
  <2>1. \A u \in Thread : u # t =>
          /\ pc'[u] = pc[u] /\ op'[u] = op[u] /\ arg'[u] = arg[u]
          /\ cur'[u] = cur[u] /\ nxt'[u] = nxt[u] /\ ahead'[u] = ahead[u]
    BY <1>4 DEF Link, history, IInv, TypeOK
  <2>2. chain' = chain /\ \A n \in InChain : data'[n] = data[n]
    BY <1>4 DEF Link, heap, history
  <2>3. ~Traversing(t)' /\ ahead'[t] = {} /\ (Traversing(t) => ahead[t] = {})
    BY <1>4 DEF Link, Traversing, history, IInv, TypeOK, AheadInv
  <2>4. QED  BY <2>1, <2>2, <2>3, AheadKeptStill
<1>5. ASSUME NEW t \in Thread, SetFront(t)  PROVE AheadInv'
  <2>1. /\ own[t] \notin InChain /\ InChain' = InChain \cup {own[t]}
        /\ \A n \in InChain' \ InChain : Place(n)' = 1
        /\ \A n \in InChain : Place(n)' = Place(n) + 1
        /\ \A u \in Thread : Traversing(u)' =>
             Traversing(u) /\ u # t /\ Pos(u) \in Nat /\ Pos(u)' = Pos(u) + 1
    BY <1>5, PushedPlaces
  <2>2. /\ pc' = [pc EXCEPT ![t] = "return"] /\ pc[t] = "set_front" /\ UNCHANGED <<op, arg, ahead, data>>
    BY <1>5 DEF SetFront, Finish
  <2>3. ~Traversing(t) /\ ahead[t] = {} /\ \A u \in Thread : u # t => pc'[u] = pc[u]
    BY <2>2 DEF IInv, TypeOK, AheadInv, Traversing
  <2>4. \A n \in InChain : Place(n) \in Nat
    BY Places DEF IInv, TypeOK
  <2>5. ASSUME NEW u \in Thread, Traversing(u)'  PROVE ToCome(u)' = ToCome(u)
    BY <2>1, <2>4, <2>5 DEF ToCome
  <2>6. \A u \in Thread : ~Traversing(u)' =>
          ahead'[u] = {} \/ (pc'[u] = "return" /\ op'[u] = "find_first_if")
    BY <2>2, <2>3 DEF IInv, AheadInv, Traversing
  <2>7. \A u \in Thread : Traversing(u)' => ahead'[u] \subseteq ahead[u] \cap ToCome(u)'
    BY <2>1, <2>2, <2>5 DEF IInv, AheadInv
  <2>8. \A u \in Thread : Traversing(u)' => ToCome(u)' \ ahead'[u] \subseteq ToCome(u) \ ahead[u]
    BY <2>2, <2>5
  <2>9. \A u \in Thread, n \in InChain' : Traversing(u) /\ Dooms(u, n) => Traversing(u)' /\ n \in ahead'[u]
    BY <2>2, <2>3 DEF Dooms, Traversing
  <2>10. \A u, w \in Thread : Traversing(u)' /\ Traversing(w)' => (Follows(u, w)' <=> Follows(u, w))
    BY <2>1 DEF Follows
  <2>11. QED  BY <2>1, <2>2, <2>6, <2>7, <2>8, <2>9, <2>10, AheadKept
<1>6. ASSUME NEW t \in Thread, TestEmpty(t)  PROVE AheadInv'
  <2>1. \A u \in Thread : u # t =>
          /\ pc'[u] = pc[u] /\ op'[u] = op[u] /\ arg'[u] = arg[u]
          /\ cur'[u] = cur[u] /\ nxt'[u] = nxt[u] /\ ahead'[u] = ahead[u]
    BY <1>6 DEF TestEmpty, Finish, history, IInv, TypeOK
  <2>2. chain' = chain /\ \A n \in InChain : data'[n] = data[n]
    BY <1>6 DEF TestEmpty, Finish, heap, history
  <2>3. ~Traversing(t)' /\ ahead'[t] = {} /\ (Traversing(t) => ahead[t] = {})
    BY <1>6 DEF TestEmpty, Finish, Traversing, history, IInv, TypeOK, AheadInv
  <2>4. QED  BY <2>1, <2>2, <2>3, AheadKeptStill
<1>7. ASSUME NEW t \in Thread, ReadNext(t)  PROVE AheadInv'
  <2>1. \A u \in Thread : u # t =>
          /\ pc'[u] = pc[u] /\ op'[u] = op[u] /\ arg'[u] = arg[u]
          /\ cur'[u] = cur[u] /\ nxt'[u] = nxt[u] /\ ahead'[u] = ahead[u]
    BY <1>7 DEF ReadNext, history, IInv, TypeOK
  <2>2. chain' = chain /\ \A n \in InChain : data'[n] = data[n]
    BY <1>7 DEF ReadNext, heap, history
  <2>3. /\ Traversing(t) /\ Traversing(t)' /\ Pos(t)' = Pos(t)
        /\ op'[t] = op[t] /\ arg'[t] = arg[t] /\ ahead'[t] = ahead[t]
    BY <1>7, PlaceKept DEF ReadNext, Traversing, Pos, LetGo, history, heap, IInv, TypeOK, CallInv
  <2>4. QED  BY <2>1, <2>2, <2>3, AheadKeptStill
<1>8. ASSUME NEW t \in Thread, AtEnd(t)  PROVE AheadInv'
  <2>1. \A u \in Thread : u # t =>
          /\ pc'[u] = pc[u] /\ op'[u] = op[u] /\ arg'[u] = arg[u]
          /\ cur'[u] = cur[u] /\ nxt'[u] = nxt[u] /\ ahead'[u] = ahead[u]
    BY <1>8 DEF AtEnd, Finish, history, IInv, TypeOK
  <2>2. chain' = chain /\ \A n \in InChain : data'[n] = data[n]
    BY <1>8 DEF AtEnd, Finish, heap, history
  <2>3. ~Traversing(t)' /\ ahead'[t] = {} /\ (Traversing(t) => ahead[t] = {})
    <3>1. Traversing(t) /\ ~LetGo(t) /\ next[cur[t]] = Null
      BY <1>8 DEF AtEnd, Finish, Traversing, LetGo
    <3>2. ASSUME NEW n \in ahead[t]  PROVE FALSE
      <4>1. n \in InChain /\ Pos(t) < Place(n)
        BY <3>1, <3>2 DEF IInv, AheadInv, ToCome
      <4>2. Place(n) \in 1..Len(chain) /\ Len(chain) \in Nat
        BY <4>1, Places DEF IInv, TypeOK
      <4>3. Pos(t) = Place(cur[t]) /\ Pos(t) \in 0..Len(chain) /\ Behind(Pos(t)) = Null
        BY <3>1, InFront DEF Pos
      <4>4. Behind(Pos(t)) = chain[Pos(t) + 1] /\ Pos(t) + 1 \in DOMAIN chain
        BY <4>1, <4>2, <4>3 DEF Behind, IInv, TypeOK
      <4>5. QED  BY <4>3, <4>4, Places DEF IInv
    <3>3. ~Traversing(t)' /\ ahead'[t] = ahead[t]
      BY <1>8 DEF AtEnd, Finish, Traversing, history, IInv, TypeOK
    <3>4. QED  BY <3>2, <3>3
  <2>4. QED  BY <2>1, <2>2, <2>3, AheadKeptStill
<1>9. ASSUME NEW t \in Thread, LockNext(t)  PROVE AheadInv'
  <2>1. \A u \in Thread : u # t =>
          /\ pc'[u] = pc[u] /\ op'[u] = op[u] /\ arg'[u] = arg[u]
          /\ cur'[u] = cur[u] /\ nxt'[u] = nxt[u] /\ ahead'[u] = ahead[u]
    BY <1>9 DEF LockNext, history, IInv, TypeOK
  <2>2. chain' = chain /\ \A n \in InChain : data'[n] = data[n]
    BY <1>9 DEF LockNext, heap, history
  <2>3. /\ Traversing(t) /\ Traversing(t)' /\ Pos(t)' = Pos(t)
        /\ op'[t] = op[t] /\ arg'[t] = arg[t] /\ ahead'[t] = ahead[t]
    BY <1>9, PlaceKept DEF LockNext, Traversing, Pos, LetGo, history, heap, IInv, TypeOK, CallInv
  <2>4. QED  BY <2>1, <2>2, <2>3, AheadKeptStill
<1>10. ASSUME NEW t \in Thread, Unlock(t)  PROVE AheadInv'
  <2>1. \A u \in Thread : u # t =>
          /\ pc'[u] = pc[u] /\ op'[u] = op[u] /\ arg'[u] = arg[u]
          /\ cur'[u] = cur[u] /\ nxt'[u] = nxt[u] /\ ahead'[u] = ahead[u]
    BY <1>10 DEF Unlock, history, IInv, TypeOK
  <2>2. chain' = chain /\ \A n \in InChain : data'[n] = data[n]
    BY <1>10 DEF Unlock, heap, history
  <2>3. /\ Traversing(t) /\ Traversing(t)' /\ Pos(t)' = Pos(t)
        /\ op'[t] = op[t] /\ arg'[t] = arg[t] /\ ahead'[t] = ahead[t]
    <3>1. Place(nxt[t]) = Pos(t) + 1 /\ Pos(t) \in Nat
      BY <1>10, SeesNext DEF Unlock
    <3>2. Pos(t)' = Place(nxt[t]) - 1
      BY <1>10 DEF Unlock, Pos, LetGo, Place, history, IInv, TypeOK, CallInv
    <3>3. QED  BY <1>10, <3>1, <3>2 DEF Unlock, Traversing, history, IInv, TypeOK
  <2>4. QED  BY <2>1, <2>2, <2>3, AheadKeptStill
<1>11. ASSUME NEW t \in Thread, Found(t)  PROVE AheadInv'
  <2>1. \A u \in Thread : u # t =>
          /\ pc'[u] = pc[u] /\ op'[u] = op[u] /\ arg'[u] = arg[u]
          /\ cur'[u] = cur[u] /\ nxt'[u] = nxt[u] /\ ahead'[u] = ahead[u]
    BY <1>11 DEF Found, Finish, See, history, IInv, TypeOK
  <2>2. chain' = chain /\ \A n \in InChain : data'[n] = data[n]
    BY <1>11 DEF Found, Finish, See, heap, history
  <2>3. pc'[t] = "return" /\ op'[t] = "find_first_if" /\ op[t] = "find_first_if"
    BY <1>11 DEF Found, Finish, IInv, TypeOK
  <2>4. QED  BY <2>1, <2>2, <2>3, AheadKeptStill
<1>12. ASSUME NEW t \in Thread, Advance(t)  PROVE AheadInv'
  <2>1. /\ pc[t] = "test" /\ data[nxt[t]] \notin arg[t] /\ pc' = [pc EXCEPT ![t] = "next"]
        /\ cur' = [cur EXCEPT ![t] = nxt[t]] /\ nxt' = [nxt EXCEPT ![t] = Null]
        /\ ahead' = [ahead EXCEPT ![t] = ahead[t] \ {nxt[t]}] /\ UNCHANGED <<op, arg, chain, data>>
    BY <1>12 DEF Advance, See, heap
  <2>2. /\ Traversing(t) /\ nxt[t] \in InChain /\ Pos(t) \in Nat /\ Place(nxt[t]) = Pos(t) + 1
    BY <2>1, SeesNext
  <2>3. InChain' = InChain /\ \A n : Place(n)' = Place(n)
    BY <2>1, PlaceKept
  <2>4. Traversing(t)' /\ Pos(t)' = Pos(t) + 1 /\ ahead'[t] = ahead[t] \ {nxt[t]}
    <3>1. pc'[t] = "next" /\ cur'[t] = nxt[t] /\ ahead'[t] = ahead[t] \ {nxt[t]}
      BY <2>1 DEF IInv, TypeOK
    <3>2. Pos(t)' = Place(cur[t])'
      BY <3>1 DEF Pos, LetGo
    <3>3. Place(cur[t])' = Place(nxt[t])
      <4>1. PICK n : n = nxt[t]
        OBVIOUS
      <4>2. Place(cur[t])' = Place(n)'
        BY <3>1, <4>1
      <4>3. QED  BY <2>3, <4>1, <4>2
    <3>4. QED  BY <2>2, <3>1, <3>2, <3>3 DEF Traversing
  <2>5. ASSUME NEW u \in Thread, u # t
        PROVE  /\ Traversing(u)' = Traversing(u) /\ Pos(u)' = Pos(u) /\ ahead'[u] = ahead[u]
               /\ ToCome(u)' = ToCome(u) /\ pc'[u] = pc[u]
    <3>1. /\ pc'[u] = pc[u] /\ op'[u] = op[u] /\ cur'[u] = cur[u] /\ nxt'[u] = nxt[u]
          /\ ahead'[u] = ahead[u]
      BY <2>1, <2>5 DEF IInv, TypeOK
    <3>2. Traversing(u)' = Traversing(u) /\ Pos(u)' = Pos(u)
      BY <2>1, <3>1, PosKept
    <3>3. QED  BY <2>3, <3>1, <3>2 DEF ToCome
  <2>6. \A n \in InChain : n # nxt[t] => Place(n) \in Nat /\ Place(n) # Pos(t) + 1
    BY <2>2, Places DEF IInv, TypeOK
  <2>7. ToCome(t)' = ToCome(t) \ {nxt[t]}
    BY <2>2, <2>3, <2>4, <2>6 DEF ToCome
  <2>8. \A u \in Thread : Traversing(u)' => ahead'[u] \subseteq ahead[u] \cap ToCome(u)'
    <3>1. \A u \in Thread : Traversing(u) => ahead[u] \subseteq ToCome(u)
      BY DEF IInv, AheadInv
    <3>2. QED  BY <2>2, <2>4, <2>5, <2>7, <3>1
  <2>9. \A u \in Thread : Traversing(u)' => ToCome(u)' \ ahead'[u] \subseteq ToCome(u) \ ahead[u]
    BY <2>4, <2>5, <2>7
  <2>10. ASSUME NEW u \in Thread, NEW n \in InChain', Traversing(u), Dooms(u, n)
         PROVE  Traversing(u)' /\ n \in ahead'[u]
    <3>1. CASE u = t
      BY <2>1, <2>4, <2>10, <3>1 DEF Dooms
    <3>2. CASE u # t
      BY <2>5, <2>10, <3>2 DEF Dooms
    <3>3. QED  BY <3>1, <3>2
  <2>11. ASSUME NEW u \in Thread, NEW w \in Thread, u # w, op[w] = "remove_if", Traversing(u)', Traversing(w)'
         PROVE  Follows(u, w)' <=> Follows(u, w)
    <3>1. Traversing(u) /\ Traversing(w)
      BY <2>2, <2>5, <2>11
    <3>2. Pos(u) \in Nat /\ Pos(w) \in Nat
      BY <3>1, Positions DEF IInv, TypeOK
    <3>3. CASE u = t
      <4>1. ~LetGo(w)
        BY <2>11 DEF LetGo
      <4>2. Pos(w) # Pos(t) + 1
        BY <2>1, <2>2, <2>11, <3>1, <3>3, <4>1, Distances
      <4>3. QED  BY <2>4, <2>5, <2>11, <3>1, <3>2, <3>3, <4>2 DEF Follows
    <3>4. CASE w = t
      <4>1. ~LetGo(t)
        BY <2>11, <3>4 DEF LetGo
      <4>2. Pos(u) # Pos(t)
        BY <2>1, <2>2, <2>11, <3>1, <3>4, <4>1, Distances
      <4>3. QED  BY <2>4, <2>5, <2>11, <3>1, <3>2, <3>4, <4>2 DEF Follows
    <3>5. CASE u # t /\ w # t
      BY <2>5, <2>11, <3>1, <3>5 DEF Follows
    <3>6. QED  BY <3>3, <3>4, <3>5
  <2>12. \A u \in Thread : ~Traversing(u)' =>
           ahead'[u] = {} \/ (pc'[u] = "return" /\ op'[u] = "find_first_if")
    BY <2>1, <2>4, <2>5 DEF IInv, AheadInv
  <2>13. \A u \in Thread : Traversing(u)' => Traversing(u) /\ op'[u] = op[u] /\ arg'[u] = arg[u]
    BY <2>1, <2>2, <2>5
  <2>14. QED  BY <2>1, <2>8, <2>9, <2>10, <2>11, <2>12, <2>13, AheadKept
<1>13. ASSUME NEW t \in Thread, Unlink(t)  PROVE AheadInv'
  <2>1. /\ pc[t] = "test" /\ op[t] = "remove_if" /\ data[nxt[t]] \in arg[t]
        /\ pc' = [pc EXCEPT ![t] = "unlock_dead"]
        /\ ahead' = [ahead EXCEPT ![t] = ahead[t] \ {nxt[t]}] /\ UNCHANGED <<op, arg, data>>
    BY <1>13 DEF Unlink, See
  <2>2. /\ nxt[t] \in InChain /\ InChain' = InChain \ {nxt[t]} /\ Pos(t) \in Nat
        /\ Place(nxt[t]) = Pos(t) + 1
        /\ \A n \in InChain' : /\ Place(n) \in Nat /\ Place(n) # Pos(t) + 1
                               /\ Place(n)' = IF Place(n) <= Pos(t) THEN Place(n) ELSE Place(n) - 1
        /\ Traversing(t) /\ ~LetGo(t) /\ Traversing(t)' /\ Pos(t)' = Pos(t)
    BY <1>13, UnlinkMoves
  <2>3. \A u \in Thread : u # t /\ Traversing(u)' =>
          /\ Traversing(u) /\ Pos(u) \in Nat
          /\ ~LetGo(u) => Pos(u) # Pos(t) /\ Pos(u) # Pos(t) + 1
          /\ LetGo(u) => Pos(u) # Pos(t)
          /\ Pos(u)' = IF Pos(u) <= Pos(t) THEN Pos(u) ELSE Pos(u) - 1
    BY <1>13, UnlinkMoves
  <2>4. /\ nxt[t] \in ahead[t] /\ nxt[t] \in Node /\ ahead'[t] = ahead[t] \ {nxt[t]}
        /\ \A u \in Thread : u # t => ahead'[u] = ahead[u] /\ pc'[u] = pc[u]
    BY <2>1, SeesNext DEF IInv, TypeOK
  <2>5. ASSUME NEW u \in Thread, Traversing(u)', u # t  PROVE nxt[t] \notin ahead[u]
    BY <2>1, <2>3, <2>5, Unlinks
  <2>6. ASSUME NEW u \in Thread, Traversing(u)'
        PROVE  Traversing(u) /\ ToCome(u)' = ToCome(u) \ {nxt[t]}
    <3>1. Traversing(u) /\ Pos(u) \in Nat
      BY <2>2, <2>3, <2>6
    <3>2. Pos(u)' = IF Pos(u) <= Pos(t) THEN Pos(u) ELSE Pos(u) - 1
      BY <2>2, <2>3, <2>6
    <3>3. ASSUME NEW n \in InChain'  PROVE Pos(u)' < Place(n)' <=> Pos(u) < Place(n)
      BY <2>2, <3>1, <3>2
    <3>4. QED  BY <2>2, <3>1, <3>3 DEF ToCome
  <2>7. \A u \in Thread : Traversing(u)' => ahead'[u] = ahead[u] \ {nxt[t]}
    BY <2>4, <2>5
  <2>8. \A u \in Thread : Traversing(u)' => ahead'[u] \subseteq ahead[u] \cap ToCome(u)'
    BY <2>6, <2>7 DEF IInv, AheadInv
  <2>9. \A u \in Thread : Traversing(u)' => ToCome(u)' \ ahead'[u] \subseteq ToCome(u) \ ahead[u]
    BY <2>6, <2>7
  <2>10. ASSUME NEW u \in Thread, NEW n \in InChain', Traversing(u), Dooms(u, n)
         PROVE  Traversing(u)' /\ n \in ahead'[u]
    BY <2>2, <2>4, <2>7, <2>10 DEF Dooms, Traversing
  <2>11. ASSUME NEW u \in Thread, NEW w \in Thread, u # w, op[w] = "remove_if", Traversing(u)', Traversing(w)'
         PROVE  Follows(u, w)' <=> Follows(u, w)
    <3>1. Traversing(u) /\ Traversing(w) /\ Pos(u) \in Nat /\ Pos(w) \in Nat /\ ~LetGo(w)
      BY <2>2, <2>3, <2>11 DEF LetGo
    <3>2. /\ Pos(u)' = IF Pos(u) <= Pos(t) THEN Pos(u) ELSE Pos(u) - 1
          /\ Pos(w)' = IF Pos(w) <= Pos(t) THEN Pos(w) ELSE Pos(w) - 1
      BY <2>2, <2>3, <2>11
    <3>3. Pos(w) # Pos(t) + 1
      BY <2>2, <2>3, <2>11, <3>1
    <3>4. Pos(u)' < Pos(w)' <=> Pos(u) < Pos(w)
      BY <2>2, <3>1, <3>2, <3>3
    <3>5. QED  BY <2>11, <3>1, <3>4 DEF Follows
  <2>12. \A u \in Thread : ~Traversing(u)' =>
           ahead'[u] = {} \/ (pc'[u] = "return" /\ op'[u] = "find_first_if")
    BY <2>1, <2>2, <2>4 DEF IInv, AheadInv, Traversing
  <2>13. \A u \in Thread : Traversing(u)' => Traversing(u) /\ op'[u] = op[u] /\ arg'[u] = arg[u]
    BY <2>1, <2>6
  <2>14. QED  BY <2>1, <2>8, <2>9, <2>10, <2>11, <2>12, <2>13, AheadKept
<1>14. ASSUME NEW t \in Thread, UnlockDead(t)  PROVE AheadInv'
  <2>1. \A u \in Thread : u # t =>
          /\ pc'[u] = pc[u] /\ op'[u] = op[u] /\ arg'[u] = arg[u]
          /\ cur'[u] = cur[u] /\ nxt'[u] = nxt[u] /\ ahead'[u] = ahead[u]
    BY <1>14 DEF UnlockDead, history, IInv, TypeOK
  <2>2. chain' = chain /\ \A n \in InChain : data'[n] = data[n]
    BY <1>14 DEF UnlockDead, heap, history
  <2>3. /\ Traversing(t) /\ Traversing(t)' /\ Pos(t)' = Pos(t)
        /\ op'[t] = op[t] /\ arg'[t] = arg[t] /\ ahead'[t] = ahead[t]
    BY <1>14, PlaceKept DEF UnlockDead, Traversing, Pos, LetGo, history, heap, IInv, TypeOK, CallInv
  <2>4. QED  BY <2>1, <2>2, <2>3, AheadKeptStill
<1>15. ASSUME NEW t \in Thread, Delete(t)  PROVE AheadInv'
  <2>1. \A u \in Thread : u # t =>
          /\ pc'[u] = pc[u] /\ op'[u] = op[u] /\ arg'[u] = arg[u]
          /\ cur'[u] = cur[u] /\ nxt'[u] = nxt[u] /\ ahead'[u] = ahead[u]
    BY <1>15 DEF Delete, history, IInv, TypeOK
  <2>2. chain' = chain /\ \A n \in InChain : data'[n] = data[n]
    <3>1. own[t] # Null /\ own[t] \notin InChain
      BY <1>15 DEF Delete, IInv, CallInv, OwnInv
    <3>2. QED  BY <1>15, <3>1, Places DEF Delete, history, IInv, TypeOK
  <2>3. /\ Traversing(t) /\ Traversing(t)' /\ Pos(t)' = Pos(t)
        /\ op'[t] = op[t] /\ arg'[t] = arg[t] /\ ahead'[t] = ahead[t]
    BY <1>15, PlaceKept DEF Delete, Traversing, Pos, LetGo, history, heap, IInv, TypeOK, CallInv
  <2>4. QED  BY <2>1, <2>2, <2>3, AheadKeptStill
<1>16. ASSUME NEW t \in Thread, Return(t)  PROVE AheadInv'
  <2>1. \A u \in Thread : u # t =>
          /\ pc'[u] = pc[u] /\ op'[u] = op[u] /\ arg'[u] = arg[u]
          /\ cur'[u] = cur[u] /\ nxt'[u] = nxt[u] /\ ahead'[u] = ahead[u]
    BY <1>16 DEF Return, history, IInv, TypeOK
  <2>2. chain' = chain /\ \A n \in InChain : data'[n] = data[n]
    BY <1>16 DEF Return, heap, history
  <2>3. ~Traversing(t)' /\ ahead'[t] = {} /\ (Traversing(t) => ahead[t] = {})
    BY <1>16 DEF Return, Traversing, history, IInv, TypeOK, AheadInv
  <2>4. QED  BY <2>1, <2>2, <2>3, AheadKeptStill
<1>17. CASE UNCHANGED vars
  <2>1. UNCHANGED <<chain, data, ahead, op, arg, pc, cur, nxt>>
    BY <1>17 DEF vars, heap, history
  <2>2. InChain' = InChain /\ \A n : Place(n)' = Place(n)
    BY <2>1, PlaceKept
  <2>3. \A u \in Thread : /\ Pos(u)' = Pos(u) /\ Traversing(u)' = Traversing(u)
                         /\ \A n : Dooms(u, n)' = Dooms(u, n)
    BY <2>1, PosKept DEF Dooms
  <2>4. \A u \in Thread : ToCome(u)' = ToCome(u)
    BY <2>2, <2>3 DEF ToCome
  <2>5. \A u, w \in Thread : Follows(u, w)' = Follows(u, w)
    BY <2>3 DEF Follows
  <2>6. QED  BY <2>1, <2>3, <2>4, <2>5 DEF IInv, AheadInv
<1>18. QED
  BY <1>1, <1>2, <1>3, <1>4, <1>5, <1>6, <1>7, <1>8, <1>9,
     <1>10, <1>11, <1>12, <1>13, <1>14, <1>15, <1>16, <1>17, Actions
  DEF Next

LEMMA InitIInv == Init => IInv
<1> SUFFICES ASSUME Init  PROVE IInv
  OBVIOUS
<1> USE DEF Init
<1>1. TypeOK
  BY DEF TypeOK, PcLabel
<1>2. CallInv /\ StandInv
  BY DEF CallInv, StandInv, Traversing
<1>3. LockInv
  BY DEF LockInv, Held
<1>4. ChainInv /\ OwnInv
  BY DEF ChainInv, OwnInv, Behind, InChain
<1>5. AheadInv
  BY DEF AheadInv, Traversing, Follows
<1>6. QED  BY <1>1, <1>2, <1>3, <1>4, <1>5 DEF IInv

LEMMA IInvStep == IInv /\ [Next]_vars => IInv'
BY TypeStep, CallStep, LockStep, StandStep, ChainStep, OwnStep, AheadStep DEF IInv

\* The invariant holds in every state.
THEOREM Inductive == Spec => []IInv
BY InitIInv, IInvStep, PTL DEF Spec

-----------------------------------------------------------------------------
(* What follows from it *)

LEMMA PathIntact ==
  ASSUME IInv, NEW k \in DOMAIN Path
  PROVE  next[Path[k]] = IF k < Len(Path) THEN Path[k + 1] ELSE Null
<1> USE DEF IInv
<1>1. chain \in Seq(Node) /\ Len(chain) \in Nat
  BY DEF TypeOK
<1>2. next[First] = Behind(0)
  <2> DEFINE P == {t \in Thread : pc[t] = "set_front"}
  <2>1. CASE P = {}
    BY <2>1 DEF First, ChainInv
  <2>2. CASE P # {}
    <3>1. (CHOOSE t \in P : TRUE) \in P
      BY <2>2
    <3>2. First = own[CHOOSE t \in P : TRUE]
      BY <2>2 DEF First
    <3>3. QED  BY <3>1, <3>2 DEF ChainInv
  <2>3. QED  BY <2>1, <2>2
<1> HIDE DEF IInv
<1>3. /\ DOMAIN Path = 1..Len(chain) + 1 /\ Len(Path) = Len(chain) + 1 /\ Path[1] = First
      /\ \A m \in 1..Len(chain) : Path[m + 1] = chain[m]
  BY <1>1 DEF Path
<1>4. CASE k = 1
  BY <1>1, <1>2, <1>3, <1>4 DEF Behind
<1>5. CASE k # 1
  <2>1. k - 1 \in 1..Len(chain) /\ k - 1 \in DOMAIN chain /\ (k - 1) + 1 = k /\ k \in Nat
    BY <1>1, <1>3, <1>5
  <2>2. Path[k] = chain[k - 1] /\ next[Path[k]] = Behind(k - 1)
    BY <1>3, <2>1 DEF IInv, ChainInv
  <2>3. CASE k < Len(Path)
    <3>1. k \in 1..Len(chain)
      BY <1>1, <1>3, <2>1, <2>3
    <3>2. QED  BY <1>1, <1>3, <2>1, <2>2, <2>3, <3>1 DEF Behind
  <2>4. CASE ~(k < Len(Path))
    BY <1>1, <1>3, <2>1, <2>2, <2>4 DEF Behind
  <2>5. QED  BY <2>3, <2>4
<1>6. QED  BY <1>4, <1>5

\* In every state the pointers lead from head_ through the list to its end, and
\* every allocated node is in the list or belongs to one thread.
THEOREM ListAlwaysIntact == Spec => []ListIntact
<1>1. IInv => ListIntact
  <2> SUFFICES ASSUME IInv  PROVE ListIntact
    OBVIOUS
  <2>1. \A k \in DOMAIN Path : next[Path[k]] = IF k < Len(Path) THEN Path[k + 1] ELSE Null
    BY PathIntact
  <2>2. InChain \subseteq Node /\ \A t \in Thread : own[t] # Null => own[t] \in Node
    BY Places DEF IInv, TypeOK
  <2>3. live = InChain \cup {own[t] : t \in {u \in Thread : own[u] # Null}}
    BY <2>2 DEF IInv, TypeOK, OwnInv
  <2>4. QED  BY <2>1, <2>3 DEF ListIntact, IInv, ChainInv, OwnInv
<1>2. QED  BY <1>1, Inductive, PTL

\* When remove_if deletes a node, no thread holds or waits for its mutex or is
\* going to access it.
THEOREM DeadAlwaysUnreachable == Spec => []DeadUnreachable
<1>1. IInv => DeadUnreachable
  <2> SUFFICES ASSUME IInv, NEW t \in Thread, NEW u \in Thread, pc[t] = "delete"
               PROVE  mtx[own[t]] = Null /\ (t # u => own[t] \notin Uses(u))
    BY DEF DeadUnreachable
  <2> USE DEF IInv
  <2>1. own[t] \in Node /\ own[t] \notin InChain /\ own[t] # Front /\ own[t] # Null
    BY DEF CallInv, OwnInv, TypeOK
  <2>2. ASSUME NEW w \in Thread
        PROVE  own[t] \notin Held(w) /\ (t # w => own[t] \notin Uses(w))
    <3>1. CASE pc[w] = "unlock_dead"
      <4>1. own[w] = nxt[w] /\ own[w] # Null /\ w # t /\ Traversing(w) /\ ~LetGo(w)
        BY <3>1 DEF CallInv, Traversing, LetGo
      <4>2. own[t] # own[w] /\ cur[w] \in InChain \cup {Front}
        BY <2>1, <4>1, InFront DEF OwnInv
      <4>3. Held(w) = {cur[w], nxt[w]} /\ Uses(w) = {cur[w], nxt[w]}
        BY <3>1 DEF Held, Uses
      <4>4. QED  BY <2>1, <4>1, <4>2, <4>3
    <3>2. CASE pc[w] = "delete"
      <4>1. Traversing(w) /\ ~LetGo(w) /\ own[w] = nxt[w] /\ own[w] # Null
        BY <3>2 DEF CallInv, Traversing, LetGo
      <4>2. cur[w] \in InChain \cup {Front} /\ Held(w) = {cur[w]} /\ Uses(w) = {cur[w], nxt[w]}
        BY <3>2, <4>1, InFront DEF Held, Uses
      <4>3. QED  BY <2>1, <4>1, <4>2 DEF OwnInv
    <3>3. CASE pc[w] \in {"lock_next", "unlock", "test"}
      <4>1. Traversing(w) /\ nxt[w] \in InChain
        BY <3>3, SeesNext
      <4>2. ~LetGo(w) => cur[w] \in InChain \cup {Front}
        BY <4>1, InFront
      <4>3. QED  BY <2>1, <3>3, <4>1, <4>2 DEF Held, Uses, LetGo
    <3>4. CASE pc[w] = "next"
      <4>1. Traversing(w) /\ ~LetGo(w) /\ nxt[w] = Null
        BY <3>4 DEF CallInv, Traversing, LetGo
      <4>2. cur[w] \in InChain \cup {Front} /\ Held(w) = {cur[w]} /\ Uses(w) = {cur[w], nxt[w]}
        BY <3>4, <4>1, InFront DEF Held, Uses
      <4>3. QED  BY <2>1, <4>1, <4>2
    <3>5. CASE ~Traversing(w)
      <4>1. cur[w] = Null /\ nxt[w] = Null /\ Held(w) \subseteq {Front} /\ Uses(w) = {Null}
        BY <3>5 DEF CallInv, Traversing, Held, Uses
      <4>2. QED  BY <2>1, <4>1
    <3>6. QED  BY <3>1, <3>2, <3>3, <3>4, <3>5 DEF Traversing
  <2>3. mtx[own[t]] = Null
    BY <2>1, <2>2 DEF LockInv, TypeOK
  <2>4. QED  BY <2>2, <2>3
<1>2. QED  BY <1>1, Inductive, PTL

LEMMA SnapshotSeen == IInv => SeesSnapshot
<1> SUFFICES ASSUME IInv, NEW t \in Thread
             PROVE  /\ ahead[t] \subseteq InChain \/ pc[t] = "return"
                    /\ pc[t] \in {"lock_next", "unlock", "test"} =>
                         nxt[t] \in ahead[t] /\ \A n \in ahead[t] : Place(nxt[t]) <= Place(n)
                    /\ pc[t] = "next" /\ next[cur[t]] = Null => ahead[t] = {}
  BY DEF SeesSnapshot
<1> USE DEF IInv
<1>1. ahead[t] \subseteq InChain \/ pc[t] = "return"
  BY DEF AheadInv, ToCome
<1>2. ASSUME Traversing(t), NEW n \in ahead[t]
      PROVE  Place(n) \in 1..Len(chain) /\ Place(n) >= Pos(t) + 1 /\ Pos(t) \in Nat
  <2>1. n \in InChain /\ Pos(t) < Place(n)
    BY <1>2 DEF AheadInv, ToCome
  <2>2. Place(n) \in 1..Len(chain) /\ Pos(t) \in 0..Len(chain) /\ Len(chain) \in Nat
    BY <1>2, <2>1, Places, Positions DEF TypeOK
  <2>3. QED  BY <2>1, <2>2
<1>3. ASSUME pc[t] \in {"lock_next", "unlock", "test"}
      PROVE  nxt[t] \in ahead[t] /\ \A n \in ahead[t] : Place(nxt[t]) <= Place(n)
  <2>1. Traversing(t) /\ nxt[t] \in ahead[t] /\ Place(nxt[t]) = Pos(t) + 1
    BY <1>3, SeesNext
  <2>2. QED  BY <1>2, <2>1
<1>4. ASSUME pc[t] = "next", next[cur[t]] = Null, NEW n \in ahead[t]  PROVE FALSE
  <2>1. Traversing(t) /\ ~LetGo(t)
    BY <1>4 DEF Traversing, LetGo
  <2>2. Pos(t) = Place(cur[t]) /\ Behind(Pos(t)) = Null
    BY <1>4, <2>1, InFront DEF Pos
  <2>3. Place(n) \in 1..Len(chain) /\ Place(n) >= Pos(t) + 1 /\ Pos(t) \in Nat
    BY <1>2, <1>4, <2>1
  <2>4. Len(chain) \in Nat /\ chain \in Seq(Node)
    BY DEF TypeOK
  <2>5. Pos(t) + 1 \in DOMAIN chain /\ Behind(Pos(t)) = chain[Pos(t) + 1]
    BY <2>3, <2>4 DEF Behind
  <2>6. QED  BY <2>2, <2>5, Places
<1>5. QED  BY <1>1, <1>3, <1>4

\* No traversal misses a cell that was in the list when it began, or sees one that
\* was doomed then.
THEOREM AlwaysSeesSnapshot == Spec => []SeesSnapshot
BY SnapshotSeen, Inductive, PTL

\* Whoever holds a mutex that another thread waits for waits, if at all, for a node
\* further down the list: no circle of waiting threads.
THEOREM NeverDeadlocked == Spec => []NoDeadlock
<1>1. IInv => NoDeadlock
  <2> SUFFICES ASSUME IInv, NEW t \in Thread, NEW u \in Thread, NEW n \in ToLock(t), mtx[n] = u
               PROVE  pc[u] \notin {"idle", "return"} /\ \A m \in ToLock(u) : Place(m) > Place(n)
    BY DEF NoDeadlock
  <2> USE DEF IInv
  <2>1. n \in Cell
    BY SeesNext DEF ToLock
  <2>2. n \in Held(u)
    BY <2>1 DEF LockInv
  <2>3. ASSUME NEW m \in ToLock(u)  PROVE Place(m) > Place(n)
    <3>1. pc[u] = "lock_next" /\ m = nxt[u] /\ n = cur[u] /\ Traversing(u) /\ ~LetGo(u)
      BY <2>2, <2>3 DEF ToLock, Held, Traversing, LetGo
    <3>2. Place(m) = Pos(u) + 1 /\ Pos(u) \in Nat /\ Pos(u) = Place(n)
      BY <3>1, SeesNext DEF Pos
    <3>3. QED  BY <3>2
  <2>4. QED  BY <2>2, <2>3 DEF Held
<1>2. QED  BY <1>1, Inductive, PTL

-----------------------------------------------------------------------------
(* The refinement of AtomicList *)

\* Before its effect an operation has shown nothing, and what it has been called
\* with is still in its locals.
RestInv ==
  \A t \in Thread :
    /\ pc[t] = "idle" => op[t] = "none"
    /\ pc[t] = "test_empty" => op[t] = "empty"
    /\ pc[t] \in {"idle", "lock_front", "link", "set_front", "test_empty"} => seen[t] = <<>>
    /\ pc[t] \in {"lock_front", "link", "set_front"} /\ op[t] = "push_front" =>
         arg[t] = {data[own[t]]}

LEMMA RestOthers ==
  ASSUME IInv, RestInv, NEW t \in Thread,
         \A u \in Thread : u # t => /\ pc'[u] = pc[u] /\ op'[u] = op[u] /\ arg'[u] = arg[u]
                                    /\ seen'[u] = seen[u] /\ own'[u] = own[u],
         \A u \in Thread : u # t /\ own[u] # Null => data'[own[u]] = data[own[u]],
         pc'[t] = "idle" => op'[t] = "none",
         pc'[t] = "test_empty" => op'[t] = "empty",
         pc'[t] \in {"idle", "lock_front", "link", "set_front", "test_empty"} => seen'[t] = <<>>,
         pc'[t] \in {"lock_front", "link", "set_front"} /\ op'[t] = "push_front" =>
           arg'[t] = {data'[own'[t]]}
  PROVE  RestInv'
<1> SUFFICES ASSUME NEW u \in Thread
             PROVE  /\ pc'[u] = "idle" => op'[u] = "none"
                    /\ pc'[u] = "test_empty" => op'[u] = "empty"
                    /\ pc'[u] \in {"idle", "lock_front", "link", "set_front", "test_empty"} =>
                         seen'[u] = <<>>
                    /\ pc'[u] \in {"lock_front", "link", "set_front"} /\ op'[u] = "push_front" =>
                         arg'[u] = {data'[own'[u]]}
  BY DEF RestInv
<1>1. CASE u = t
  BY <1>1
<1>2. CASE u # t
  <2>1. pc[u] \in {"lock_front", "link", "set_front"} /\ op[u] = "push_front" => own[u] # Null
    BY DEF IInv, CallInv
  <2>2. QED  BY <1>2, <2>1 DEF RestInv
<1>3. QED  BY <1>1, <1>2

LEMMA RestStep == IInv /\ RestInv /\ [Next]_vars => RestInv'
<1> SUFFICES ASSUME IInv, RestInv, [Next]_vars  PROVE RestInv'
  OBVIOUS
<1>1. ASSUME NEW t \in Thread, NEW v \in Value, PushCall(t, v)  PROVE RestInv'
  <2>1. PICK n \in Node \ live : data' = [data EXCEPT ![n] = v] /\ own' = [own EXCEPT ![t] = n]
    BY <1>1 DEF PushCall
  <2>2. \A u \in Thread : own[u] # Null => own[u] # n
    BY <2>1 DEF IInv, OwnInv
  <2>3. /\ data \in [Node -> Value \cup {Null}] /\ own \in [Thread -> Node \cup {Null}]
        /\ seen[t] = <<>>
    BY <1>1 DEF IInv, TypeOK, RestInv, PushCall, Goto
  <2>4. \A u \in Thread : u # t /\ own[u] # Null => data'[own[u]] = data[own[u]]
    BY <2>1, <2>2, <2>3
  <2>5. /\ pc'[t] = "lock_front" /\ op'[t] = "push_front" /\ arg'[t] = {v} /\ seen'[t] = <<>>
        /\ data'[own'[t]] = v
    BY <1>1, <2>1, <2>3 DEF PushCall, Goto, history, IInv, TypeOK
  <2>6. \A u \in Thread : u # t => /\ pc'[u] = pc[u] /\ op'[u] = op[u] /\ arg'[u] = arg[u]
                                   /\ seen'[u] = seen[u] /\ own'[u] = own[u]
    BY <1>1, <2>1, <2>3 DEF PushCall, Goto, history, IInv, TypeOK
  <2>7. QED  BY <2>4, <2>5, <2>6, RestOthers
<1>2. ASSUME NEW t \in Thread, NEW o \in Op, NEW P \in SUBSET Value, Call(t, o, P)  PROVE RestInv'
  BY <1>2, RestOthers DEF Call, Goto, heap, history, IInv, TypeOK, RestInv
<1>3. ASSUME NEW t \in Thread, LockFront(t)  PROVE RestInv'
  <2>1. op[t] \in Op
    BY <1>3 DEF LockFront, Goto, IInv, CallInv
  <2>2. pc'[t] = IF op[t] = "push_front" THEN "link" ELSE IF op[t] = "empty" THEN "test_empty" ELSE "next"
    BY <1>3, <2>1 DEF LockFront, Goto, IInv, TypeOK
  <2>3. QED  BY <1>3, <2>1, <2>2, RestOthers DEF LockFront, Goto, heap, IInv, TypeOK, RestInv
<1>4. ASSUME NEW t \in Thread, Link(t)  PROVE RestInv'
  BY <1>4, RestOthers DEF Link, Goto, history, IInv, TypeOK, RestInv
<1>5. ASSUME NEW t \in Thread, SetFront(t)  PROVE RestInv'
  BY <1>5, RestOthers DEF SetFront, Finish, Goto, IInv, TypeOK
<1>6. ASSUME NEW t \in Thread, TestEmpty(t)  PROVE RestInv'
  BY <1>6, RestOthers DEF TestEmpty, Finish, Goto, IInv, TypeOK
<1>7. ASSUME NEW t \in Thread, ReadNext(t)  PROVE RestInv'
  BY <1>7, RestOthers DEF ReadNext, Goto, heap, history, IInv, TypeOK
<1>8. ASSUME NEW t \in Thread, AtEnd(t)  PROVE RestInv'
  BY <1>8, RestOthers DEF AtEnd, Finish, Goto, history, IInv, TypeOK
<1>9. ASSUME NEW t \in Thread, LockNext(t)  PROVE RestInv'
  BY <1>9, RestOthers DEF LockNext, Goto, heap, history, IInv, TypeOK
<1>10. ASSUME NEW t \in Thread, Unlock(t)  PROVE RestInv'
  BY <1>10, RestOthers DEF Unlock, Goto, heap, history, IInv, TypeOK
<1>11. ASSUME NEW t \in Thread, Found(t)  PROVE RestInv'
  BY <1>11, RestOthers DEF Found, Finish, See, Goto, IInv, TypeOK
<1>12. ASSUME NEW t \in Thread, Advance(t)  PROVE RestInv'
  <2>1. /\ pc' = [pc EXCEPT ![t] = "next"] /\ seen' = [seen EXCEPT ![t] = Append(@, data[nxt[t]])]
        /\ UNCHANGED <<op, arg, data, own>>
    BY <1>12 DEF Advance, Goto, See, heap
  <2>2. QED  BY <2>1, RestOthers DEF IInv, TypeOK
<1>13. ASSUME NEW t \in Thread, Unlink(t)  PROVE RestInv'
  <2>1. /\ pc' = [pc EXCEPT ![t] = "unlock_dead"]
        /\ seen' = [seen EXCEPT ![t] = Append(@, data[nxt[t]])]
        /\ own' = [own EXCEPT ![t] = nxt[t]] /\ UNCHANGED <<op, arg, data>>
    BY <1>13 DEF Unlink, Goto, See
  <2>2. QED  BY <2>1, RestOthers DEF IInv, TypeOK
<1>14. ASSUME NEW t \in Thread, UnlockDead(t)  PROVE RestInv'
  BY <1>14, RestOthers DEF UnlockDead, Goto, heap, history, IInv, TypeOK
<1>15. ASSUME NEW t \in Thread, Delete(t)  PROVE RestInv'
  <2>1. \A u \in Thread : u # t /\ own[u] # Null => own[u] \in Node /\ own[u] # own[t]
    BY DEF IInv, OwnInv, TypeOK
  <2>2. \A u \in Thread : u # t /\ own[u] # Null => data'[own[u]] = data[own[u]]
    BY <1>15, <2>1 DEF Delete, IInv, TypeOK
  <2>3. QED  BY <1>15, <2>2, RestOthers DEF Delete, Goto, history, IInv, TypeOK
<1>16. ASSUME NEW t \in Thread, Return(t)  PROVE RestInv'
  BY <1>16, RestOthers DEF Return, Goto, heap, IInv, TypeOK
<1>17. CASE UNCHANGED vars
  BY <1>17 DEF vars, heap, history, RestInv
<1>18. QED
  BY <1>1, <1>2, <1>3, <1>4, <1>5, <1>6, <1>7, <1>8, <1>9,
     <1>10, <1>11, <1>12, <1>13, <1>14, <1>15, <1>16, <1>17, Actions
  DEF Next

\* An operation is past its effect when it is traversing or about to return.
LEMMA PastEffect ==
  ASSUME IInv, RestInv, NEW t \in Thread
  PROVE  InEffect(t) <=> pc[t] = "return" \/ Traversing(t)
<1>1. pc[t] \in PcLabel
  BY DEF IInv, TypeOK
<1>2. QED  BY <1>1 DEF InEffect, Traversing, PcLabel, IInv, CallInv, RestInv

\* What thread u's operation looks like from outside.
Outside(u) == <<absOp[u], absArg[u], absRes[u]>>

Look(u) ==
  IF Traversing(u)
  THEN <<"done", {}, seen[u] \o IF op[u] = "find_first_if"
                                THEN UpToFirst(Vals(chain, data, ahead[u]), arg[u])
                                ELSE Vals(chain, data, ahead[u])>>
  ELSE IF pc[u] = "return" THEN <<"done", {}, seen[u]>> ELSE <<op[u], arg[u], seen[u]>>

LEMMA OutsideIs == IInv /\ RestInv => \A u \in Thread : Outside(u) = Look(u)
<1> SUFFICES ASSUME IInv, RestInv, NEW u \in Thread  PROVE Outside(u) = Look(u)
  OBVIOUS
<1>1. ValuesOf(ahead[u]) = Vals(chain, data, ahead[u])
  BY DEF ValuesOf, Vals, Where
<1>2. Traversing(u) => pc[u] # "return"
  BY DEF Traversing
<1>3. InEffect(u) <=> pc[u] = "return" \/ Traversing(u)
  BY PastEffect
<1>4. CASE Traversing(u)
  BY <1>1, <1>2, <1>3, <1>4 DEF Outside, Look, absOp, absArg, absRes, ToShow
<1>5. CASE ~Traversing(u)
  BY <1>3, <1>5 DEF Outside, Look, absOp, absArg, absRes
<1>6. QED  BY <1>4, <1>5

LEMMA OutsideIsNext == (IInv /\ RestInv => \A u \in Thread : Outside(u) = Look(u))'
BY OutsideIs, PTL

\* What the list contains.
LEMMA ItemsAre ==
  IInv => /\ absItems = Vals(chain, data, Contents)
          /\ Contents = {n \in InChain : ~\E u \in Thread : Dooms(u, n)}
<1> SUFFICES ASSUME IInv
             PROVE  /\ absItems = Vals(chain, data, Contents)
                    /\ Contents = {n \in InChain : ~\E u \in Thread : Dooms(u, n)}
  OBVIOUS
<1>1. absItems = Vals(chain, data, Contents)
  BY DEF absItems, ValuesOf, Vals, Where
<1>2. InChain \subseteq Node
  BY Places DEF IInv
<1>3. QED  BY <1>1, <1>2 DEF Contents, Doomed, Dooms

LEMMA ItemsAreNext ==
  (IInv => /\ absItems = Vals(chain, data, Contents)
           /\ Contents = {n \in InChain : ~\E u \in Thread : Dooms(u, n)})'
BY ItemsAre, PTL

\* A step of t changes nothing in the list, and nothing of any other thread.
Alone(t) ==
  /\ chain' = chain /\ \A n \in InChain : data'[n] = data[n]
  /\ \A u \in Thread : u # t =>
       /\ pc'[u] = pc[u] /\ op'[u] = op[u] /\ arg'[u] = arg[u]
       /\ seen'[u] = seen[u] /\ ahead'[u] = ahead[u]

LEMMA ListSame ==
  ASSUME IInv, chain' = chain, \A n \in InChain : data'[n] = data[n], NEW S
  PROVE  Vals(chain', data', S) = Vals(chain, data, S)
<1>1. chain \in Seq(Node) /\ \A k \in DOMAIN chain : data'[chain[k]] = data[chain[k]]
  BY DEF IInv, TypeOK, InChain
<1>2. \A k \in Where(chain, S) : data'[chain[k]] = data[chain[k]]
  BY <1>1 DEF Where
<1>3. Vals(chain, data', S) = Vals(chain, data, S)
  BY <1>1, <1>2, ValsSame
<1>4. QED  BY <1>3

LEMMA OthersSame ==
  ASSUME IInv, RestInv, IInv', RestInv', NEW t \in Thread, Alone(t), NEW u \in Thread, u # t
  PROVE  Outside(u)' = Outside(u)
<1>1. /\ pc'[u] = pc[u] /\ op'[u] = op[u] /\ arg'[u] = arg[u]
      /\ seen'[u] = seen[u] /\ ahead'[u] = ahead[u]
  BY DEF Alone
<1>2. Traversing(u)' = Traversing(u)
  BY <1>1 DEF Traversing
<1>3. Vals(chain', data', ahead[u]) = Vals(chain, data, ahead[u])
  BY ListSame DEF Alone
<1>4. Look(u)' = Look(u)
  BY <1>1, <1>2, <1>3 DEF Look
<1>5. QED  BY <1>4, OutsideIs, OutsideIsNext

LEMMA ItemsSame ==
  ASSUME IInv, IInv', NEW t \in Thread, Alone(t),
         \A n \in InChain : Dooms(t, n)' = Dooms(t, n)
  PROVE  absItems' = absItems
<1>1. InChain' = InChain
  BY DEF InChain, Alone
<1>2. \A u \in Thread, n \in InChain : Dooms(u, n)' = Dooms(u, n)
  BY DEF Alone, Dooms
<1>3. Contents' = {n \in InChain' : ~\E u \in Thread : Dooms(u, n)'}
  BY ItemsAreNext
<1>4. Contents' = Contents
  BY <1>1, <1>2, <1>3, ItemsAre
<1>5. absItems' = Vals(chain', data', Contents')
  BY ItemsAreNext
<1>6. Vals(chain', data', Contents) = Vals(chain, data, Contents)
  BY ListSame DEF Alone
<1>7. QED  BY <1>4, <1>5, <1>6, ItemsAre

LEMMA Stutters ==
  ASSUME absItems' = absItems, \A u \in Thread : Outside(u)' = Outside(u)
  PROVE  UNCHANGED Atomic!vars
<1>1. absOp' = absOp /\ absArg' = absArg /\ absRes' = absRes
  <2>1. \A u \in Thread : absOp'[u] = absOp[u] /\ absArg'[u] = absArg[u] /\ absRes'[u] = absRes[u]
    BY DEF Outside
  <2>2. /\ absOp = [u \in Thread |-> absOp[u]] /\ absOp' = [u \in Thread |-> absOp'[u]]
        /\ absArg = [u \in Thread |-> absArg[u]] /\ absArg' = [u \in Thread |-> absArg'[u]]
        /\ absRes = [u \in Thread |-> absRes[u]] /\ absRes' = [u \in Thread |-> absRes'[u]]
    BY DEF absOp, absArg, absRes
  <2>3. QED  BY <2>1, <2>2
<1>2. QED  BY <1>1 DEF Atomic!vars

\* A step of t changes the abstract state of t alone.
LEMMA Moves ==
  ASSUME NEW t \in Thread, \A u \in Thread : u # t => Outside(u)' = Outside(u),
         NEW o, NEW P, NEW r, Outside(t)' = <<o, P, r>>
  PROVE  /\ absOp' = [absOp EXCEPT ![t] = o] /\ absArg' = [absArg EXCEPT ![t] = P]
         /\ absRes' = [absRes EXCEPT ![t] = r]
<1>1. \A u \in Thread : u # t =>
        absOp'[u] = absOp[u] /\ absArg'[u] = absArg[u] /\ absRes'[u] = absRes[u]
  BY DEF Outside
<1>2. absOp'[t] = o /\ absArg'[t] = P /\ absRes'[t] = r
  BY DEF Outside
<1>3. /\ absOp = [u \in Thread |-> absOp[u]] /\ absOp' = [u \in Thread |-> absOp'[u]]
      /\ absArg = [u \in Thread |-> absArg[u]] /\ absArg' = [u \in Thread |-> absArg'[u]]
      /\ absRes = [u \in Thread |-> absRes[u]] /\ absRes' = [u \in Thread |-> absRes'[u]]
  BY DEF absOp, absArg, absRes
<1>4. QED  BY <1>1, <1>2, <1>3

-----------------------------------------------------------------------------
(* The steps that change nothing outside *)

LEMMA Quiet ==
  ASSUME IInv, RestInv, IInv', RestInv', NEW t \in Thread, Alone(t),
         \A n \in InChain : Dooms(t, n)' = Dooms(t, n),
         Look(t)' = Look(t)
  PROVE  UNCHANGED Atomic!vars
<1>1. absItems' = absItems
  BY ItemsSame
<1>2. Outside(t)' = Outside(t)
  BY OutsideIs, OutsideIsNext
<1>3. QED  BY <1>1, <1>2, OthersSame, Stutters

\* While a traversal goes on to the next access, it looks the same.
LEMMA GoesOn ==
  ASSUME IInv, RestInv, IInv', RestInv', NEW t \in Thread, Alone(t),
         Traversing(t), Traversing(t)',
         op'[t] = op[t], arg'[t] = arg[t], seen'[t] = seen[t], ahead'[t] = ahead[t]
  PROVE  UNCHANGED Atomic!vars
<1>1. Vals(chain', data', ahead[t]) = Vals(chain, data, ahead[t])
  BY ListSame DEF Alone
<1>2. Look(t)' = Look(t)
  BY <1>1 DEF Look
<1>3. \A n \in InChain : Dooms(t, n)' = Dooms(t, n)
  BY DEF Alone, Dooms
<1>4. QED  BY <1>2, <1>3, Quiet

LEMMA WalkStutters ==
  ASSUME IInv, RestInv, IInv', RestInv', NEW t \in Thread,
         ReadNext(t) \/ LockNext(t) \/ Unlock(t) \/ UnlockDead(t) \/ Delete(t)
  PROVE  UNCHANGED Atomic!vars
<1> USE DEF Goto, heap, history
<1>1. CASE ReadNext(t)
  <2>1. Alone(t) /\ op' = op /\ arg' = arg /\ seen' = seen /\ ahead' = ahead
    BY <1>1 DEF ReadNext, Alone, IInv, TypeOK
  <2>2. Traversing(t) /\ Traversing(t)'
    BY <1>1 DEF ReadNext, Traversing, IInv, TypeOK
  <2>3. QED  BY <2>1, <2>2, GoesOn
<1>2. CASE LockNext(t)
  <2>1. Alone(t) /\ op' = op /\ arg' = arg /\ seen' = seen /\ ahead' = ahead
    BY <1>2 DEF LockNext, Alone, IInv, TypeOK
  <2>2. Traversing(t) /\ Traversing(t)'
    BY <1>2 DEF LockNext, Traversing, IInv, TypeOK
  <2>3. QED  BY <2>1, <2>2, GoesOn
<1>3. CASE Unlock(t)
  <2>1. Alone(t) /\ op' = op /\ arg' = arg /\ seen' = seen /\ ahead' = ahead
    BY <1>3 DEF Unlock, Alone, IInv, TypeOK
  <2>2. Traversing(t) /\ Traversing(t)'
    BY <1>3 DEF Unlock, Traversing, IInv, TypeOK
  <2>3. QED  BY <2>1, <2>2, GoesOn
<1>4. CASE UnlockDead(t)
  <2>1. Alone(t) /\ op' = op /\ arg' = arg /\ seen' = seen /\ ahead' = ahead
    BY <1>4 DEF UnlockDead, Alone, IInv, TypeOK
  <2>2. Traversing(t) /\ Traversing(t)'
    BY <1>4 DEF UnlockDead, Traversing, IInv, TypeOK
  <2>3. QED  BY <2>1, <2>2, GoesOn
<1>5. CASE Delete(t)
  <2>1. chain' = chain /\ op' = op /\ arg' = arg /\ seen' = seen /\ ahead' = ahead
    BY <1>5 DEF Delete
  <2>2. own[t] # Null /\ own[t] \notin InChain
    BY <1>5 DEF Delete, IInv, CallInv, OwnInv
  <2>3. Alone(t)
    BY <1>5, <2>1, <2>2, Places DEF Delete, Alone, IInv, TypeOK
  <2>4. Traversing(t) /\ Traversing(t)'
    BY <1>5 DEF Delete, Traversing, IInv, TypeOK
  <2>5. QED  BY <2>1, <2>3, <2>4, GoesOn
<1>6. QED  BY <1>1, <1>2, <1>3, <1>4, <1>5

LEMMA LinkStutters ==
  ASSUME IInv, RestInv, IInv', RestInv', NEW t \in Thread, Link(t)
  PROVE  UNCHANGED Atomic!vars
<1>1. /\ Alone(t) /\ op' = op /\ arg' = arg /\ seen' = seen /\ ahead' = ahead
      /\ pc[t] = "link" /\ pc'[t] = "set_front"
  BY DEF Link, Goto, Alone, history, IInv, TypeOK
<1>2. ~Traversing(t) /\ ~Traversing(t)' /\ Look(t)' = Look(t)
  BY <1>1 DEF Traversing, Look
<1>3. \A n \in InChain : Dooms(t, n)' = Dooms(t, n)
  BY <1>1 DEF Alone, Dooms
<1>4. QED  BY <1>1, <1>2, <1>3, Quiet

\* A traversal that stands at the end has shown everything.
LEMMA AtEndStutters ==
  ASSUME IInv, RestInv, IInv', RestInv', NEW t \in Thread, AtEnd(t)
  PROVE  UNCHANGED Atomic!vars
<1>1. /\ Alone(t) /\ op' = op /\ arg' = arg /\ seen' = seen /\ ahead' = ahead
      /\ pc[t] = "next" /\ pc'[t] = "return" /\ next[cur[t]] = Null
  BY DEF AtEnd, Finish, Goto, Alone, history, IInv, TypeOK
<1>2. Traversing(t) /\ ~Traversing(t)'
  BY <1>1 DEF Traversing
<1>3. ahead[t] = {}
  BY <1>1, SnapshotSeen DEF SeesSnapshot
<1>4. chain \in Seq(Node) /\ seen[t] \in Seq(Value \cup BOOLEAN)
  BY DEF IInv, TypeOK
<1>5. Vals(chain, data, ahead[t]) = <<>> /\ UpToFirst(<<>>, arg[t]) = <<>>
  BY <1>3, <1>4, NothingLeft
<1>6. Look(t) = <<"done", {}, seen[t] \o <<>> >>
  BY <1>2, <1>5 DEF Look
<1>7. seen[t] \o <<>> = seen[t]
  BY <1>4, ConcatEmptySeq
<1>8. Look(t)' = Look(t)
  BY <1>1, <1>2, <1>6, <1>7 DEF Look
<1>9. \A n \in InChain : Dooms(t, n)' = Dooms(t, n)
  BY <1>1 DEF Alone, Dooms
<1>10. QED  BY <1>1, <1>8, <1>9, Quiet

-----------------------------------------------------------------------------
(* The steps that show the next value *)

\* The next value a traversal shows is the first of those it is still to show.
LEMMA ShowsFirst ==
  ASSUME IInv, NEW t \in Thread, pc[t] = "test"
  PROVE  LET n == nxt[t]
             r == Vals(chain, data, ahead[t] \ {n})
         IN  /\ n \in ahead[t] /\ data[n] \in Value /\ r \in Seq(Value)
             /\ Vals(chain, data, ahead[t]) = Cons(data[n], r)
<1> DEFINE n == nxt[t]
           p == Place(n)
           A == ahead[t]
           B == ahead[t] \ {n}
<1>1. chain \in Seq(Node) /\ \A k \in DOMAIN chain : data[chain[k]] \in Value
  BY DEF IInv, TypeOK, ChainInv
<1>2. n \in ahead[t] /\ n \in InChain /\ \A m \in ahead[t] : Place(n) <= Place(m)
  BY SeesNext, SnapshotSeen DEF SeesSnapshot
<1>3. p \in DOMAIN chain /\ chain[p] = n /\ \A k \in DOMAIN chain : Place(chain[k]) = k
  BY <1>2, Places DEF IInv
<1> HIDE DEF n, p
<1>4. p \in Where(chain, A) /\ \A k \in Where(chain, A) : p <= k
  BY <1>2, <1>3 DEF Where, p
<1>5. \A k : k \in Where(chain, B) <=> k \in Where(chain, A) /\ k # p
  BY <1>3 DEF Where
<1>6. Vals(chain, data, A) = Cons(data[chain[p]], Vals(chain, data, B))
  <2>1. Splits(p, chain, A, B)
    BY <1>4, <1>5 DEF Splits
  <2> HIDE DEF A, B
  <2>2. QED  BY <1>1, <2>1, FirstValue
<1>7. \A k \in Where(chain, B) : data[chain[k]] \in Value
  BY <1>1 DEF Where
<1>8. Vals(chain, data, B) \in Seq(Value)
  <2> HIDE DEF B
  <2>1. QED  BY <1>1, <1>7, ValsType
<1>9. data[n] \in Value
  BY <1>1, <1>3
<1>10. QED  BY <1>2, <1>3, <1>6, <1>8, <1>9 DEF n

LEMMA FoundStutters ==
  ASSUME IInv, RestInv, IInv', RestInv', NEW t \in Thread, Found(t)
  PROVE  UNCHANGED Atomic!vars
<1> DEFINE d == data[nxt[t]]
           r == Vals(chain, data, ahead[t] \ {nxt[t]})
<1>1. /\ pc[t] = "test" /\ op[t] = "find_first_if" /\ d \in arg[t] /\ op'[t] = "find_first_if"
      /\ pc'[t] = "return" /\ seen'[t] = Append(seen[t], d)
  BY DEF Found, Finish, See, Goto, IInv, TypeOK
<1>2. Alone(t)
  BY DEF Found, Finish, See, Goto, Alone, IInv, TypeOK
<1>3. Traversing(t) /\ ~Traversing(t)'
  BY <1>1 DEF Traversing
<1>4. d \in Value /\ r \in Seq(Value) /\ Vals(chain, data, ahead[t]) = Cons(d, r)
  BY <1>1, ShowsFirst
<1>5. seen[t] \in Seq(Value \cup BOOLEAN) /\ d \in Value \cup BOOLEAN
  BY <1>4 DEF IInv, TypeOK
<1> HIDE DEF d, r
<1>6. UpToFirst(Cons(d, r), arg[t]) = <<d>>
  BY <1>1, <1>4, UpToFirstOfCons
<1>7. Append(seen[t], d) = seen[t] \o <<d>>
  BY <1>5, AppendIsConcat
<1>8. Look(t)' = Look(t)
  BY <1>1, <1>3, <1>4, <1>6, <1>7 DEF Look
<1>9. \A m \in InChain : Dooms(t, m)' = Dooms(t, m)
  BY <1>1 DEF Dooms
<1>10. QED  BY <1>2, <1>8, <1>9, Quiet

\* What a traversal that goes on behind its next cell is still to show.
LEMMA ShowsRest ==
  ASSUME IInv, NEW t \in Thread, pc[t] = "test",
         op[t] = "find_first_if" => data[nxt[t]] \notin arg[t]
  PROVE  LET d == data[nxt[t]]
             r == Vals(chain, data, ahead[t] \ {nxt[t]})
         IN  Look(t) = <<"done", {}, Append(seen[t], d) \o IF op[t] = "find_first_if"
                                                           THEN UpToFirst(r, arg[t]) ELSE r>>
<1> DEFINE d == data[nxt[t]]
           r == Vals(chain, data, ahead[t] \ {nxt[t]})
           W == Value \cup BOOLEAN
           s == seen[t]
<1>1. /\ d \in Value /\ r \in Seq(Value) /\ Vals(chain, data, ahead[t]) = Cons(d, r)
      /\ op[t] = "find_first_if" => d \notin arg[t]
  BY ShowsFirst
<1>2. s \in Seq(W) /\ d \in W
  BY <1>1 DEF IInv, TypeOK
<1>3. Traversing(t)
  BY DEF Traversing
<1> HIDE DEF d, r, s
<1>4. Look(t) = <<"done", {}, s \o IF op[t] = "find_first_if"
                                         THEN UpToFirst(Cons(d, r), arg[t]) ELSE Cons(d, r)>>
  BY <1>1, <1>3 DEF Look, s
<1>5. r \in Seq(W) /\ UpToFirst(r, arg[t]) \in Seq(W)
  <2>1. r \in Seq(W)
    BY <1>1, SeqMonotonic
  <2>2. QED  BY <2>1, UpToFirstType
<1> HIDE DEF W
<1>6. CASE op[t] = "find_first_if"
  <2>1. UpToFirst(Cons(d, r), arg[t]) = Cons(d, UpToFirst(r, arg[t]))
    BY <1>1, <1>6, UpToFirstOfCons
  <2>2. s \o Cons(d, UpToFirst(r, arg[t])) = Append(s, d) \o UpToFirst(r, arg[t])
    BY <1>2, <1>5, AppendThen
  <2>3. QED  BY <1>4, <1>6, <2>1, <2>2 DEF d, r, s
<1>7. CASE op[t] # "find_first_if"
  <2>1. s \o Cons(d, r) = Append(s, d) \o r
    BY <1>2, <1>5, AppendThen
  <2>2. QED  BY <1>4, <1>7, <2>1 DEF d, r, s
<1>8. QED  BY <1>6, <1>7

LEMMA AdvanceStutters ==
  ASSUME IInv, RestInv, IInv', RestInv', NEW t \in Thread, Advance(t)
  PROVE  UNCHANGED Atomic!vars
<1> DEFINE d == data[nxt[t]]
           r == Vals(chain, data, ahead[t] \ {nxt[t]})
<1>1. /\ pc[t] = "test" /\ d \notin arg[t] /\ pc' = [pc EXCEPT ![t] = "next"]
      /\ seen' = [seen EXCEPT ![t] = Append(@, data[nxt[t]])]
      /\ ahead' = [ahead EXCEPT ![t] = @ \ {nxt[t]}] /\ UNCHANGED <<op, arg, chain, data>>
  BY DEF Advance, See, Goto, heap
<1>2. Alone(t)
  BY <1>1 DEF Alone, IInv, TypeOK
<1>3. /\ pc'[t] = "next" /\ seen'[t] = Append(seen[t], d) /\ ahead'[t] = ahead[t] \ {nxt[t]}
      /\ op'[t] = op[t] /\ arg'[t] = arg[t]
  BY <1>1 DEF IInv, TypeOK
<1>4. Traversing(t)'
  BY <1>3 DEF Traversing
<1>5. Vals(chain', data', ahead'[t]) = r
  BY <1>1, <1>3
<1>6. Look(t) = <<"done", {}, Append(seen[t], d) \o IF op[t] = "find_first_if"
                                                    THEN UpToFirst(r, arg[t]) ELSE r>>
  BY <1>1, ShowsRest
<1> HIDE DEF d, r
<1>7. Look(t)' = Look(t)
  BY <1>3, <1>4, <1>5, <1>6 DEF Look
<1>8. \A m \in InChain : Dooms(t, m)' = Dooms(t, m)
  BY <1>1, <1>3 DEF Dooms, d
<1>9. QED  BY <1>2, <1>7, <1>8, Quiet

\* The list without a cell, seen through the others.
LEMMA UnlinkedSame ==
  ASSUME IInv, NEW n \in InChain, NEW S, n \notin S
  PROVE  Vals(Without(n), data, S) = Vals(chain, data, S)
<1> DEFINE c == Without(n)
           p == Place(n)
           e == [k \in Where(c, S) |-> IF k < p THEN k ELSE k + 1]
<1>1. chain \in Seq(Node) /\ p \in DOMAIN chain /\ chain[p] = n /\ Len(chain) \in Nat /\ p \in Nat
  BY Places DEF IInv, TypeOK
<1>2. /\ c \in Seq(Node) /\ Len(c) = Len(chain) - 1
      /\ \A k \in 1..Len(chain) - 1 : c[k] = IF k < p THEN chain[k] ELSE chain[k + 1]
  BY Removal DEF IInv
<1> HIDE DEF c, p
<1>3. \A k \in Where(c, S) : k \in 1..Len(chain) - 1 /\ c[k] \in S
  BY <1>1, <1>2 DEF Where
<1>4. ASSUME NEW k \in Where(c, S)
      PROVE  e[k] \in Where(chain, S) /\ chain[e[k]] = c[k]
  <2>1. k \in 1..Len(chain) - 1 /\ c[k] \in S /\ e[k] \in 1..Len(chain)
    BY <1>1, <1>3
  <2>2. chain[e[k]] = c[k]
    BY <1>2, <2>1
  <2>3. QED  BY <1>1, <2>1, <2>2 DEF Where
<1>5. \A k, l \in Where(c, S) : k < l => e[k] < e[l]
  BY <1>1, <1>3
<1>6. ASSUME NEW k \in Where(chain, S)  PROVE \E l \in Where(c, S) : e[l] = k
  <2>1. k \in 1..Len(chain) /\ chain[k] \in S /\ k # p
    BY <1>1 DEF Where
  <2>2. CASE k < p
    <3>1. k \in 1..Len(chain) - 1 /\ c[k] = chain[k]
      BY <1>1, <1>2, <2>1, <2>2
    <3>2. k \in Where(c, S)
      BY <1>1, <1>2, <2>1, <3>1 DEF Where
    <3>3. QED  BY <2>2, <3>2
  <2>3. CASE ~(k < p)
    <3>1. k - 1 \in 1..Len(chain) - 1 /\ ~(k - 1 < p) /\ (k - 1) + 1 = k
      BY <1>1, <2>1, <2>3
    <3>2. c[k - 1] = chain[k]
      BY <1>2, <3>1
    <3>3. k - 1 \in Where(c, S)
      BY <1>1, <1>2, <2>1, <3>1, <3>2 DEF Where
    <3>4. QED  BY <3>1, <3>3
  <2>4. QED  BY <2>2, <2>3
<1>7. e \in [Where(c, S) -> Where(chain, S)]
  BY <1>4
<1>8. \A k \in Where(c, S) : data[chain[e[k]]] = data[c[k]]
  BY <1>4
<1> HIDE DEF e
<1>9. Vals(chain, data, S) = Vals(c, data, S)
  BY <1>1, <1>2, <1>5, <1>6, <1>7, <1>8, Reindexed
<1>10. QED  BY <1>9 DEF c

LEMMA UnlinkStutters ==
  ASSUME IInv, RestInv, IInv', RestInv', NEW t \in Thread, Unlink(t)
  PROVE  UNCHANGED Atomic!vars
<1> DEFINE n == nxt[t]
           d == data[n]
           r == Vals(chain, data, ahead[t] \ {n})
<1>1. /\ pc[t] = "test" /\ op[t] = "remove_if" /\ d \in arg[t] /\ chain' = Without(n)
      /\ pc' = [pc EXCEPT ![t] = "unlock_dead"]
      /\ seen' = [seen EXCEPT ![t] = Append(@, d)]
      /\ ahead' = [ahead EXCEPT ![t] = @ \ {n}] /\ UNCHANGED <<op, arg, data>>
  BY DEF Unlink, See, Goto
<1>2. /\ pc'[t] = "unlock_dead" /\ seen'[t] = Append(seen[t], d) /\ ahead'[t] = ahead[t] \ {n}
      /\ op'[t] = op[t] /\ arg'[t] = arg[t]
      /\ \A u \in Thread : u # t => /\ pc'[u] = pc[u] /\ op'[u] = op[u] /\ arg'[u] = arg[u]
                                    /\ seen'[u] = seen[u] /\ ahead'[u] = ahead[u]
  BY <1>1 DEF IInv, TypeOK
<1>3. n \in InChain /\ n \in ahead[t] /\ InChain' = InChain \ {n}
  BY <1>1, SeesNext, UnlinkedCells DEF IInv
<1>4. \A S : n \notin S => Vals(chain', data', S) = Vals(chain, data, S)
  BY <1>1, <1>3, UnlinkedSame
<1> HIDE DEF n
<1>5. ASSUME NEW u \in Thread, u # t  PROVE Outside(u)' = Outside(u)
  <2>1. Traversing(u)' = Traversing(u)
    BY <1>2, <1>5 DEF Traversing
  <2>2. Traversing(u) => Vals(chain', data', ahead[u]) = Vals(chain, data, ahead[u])
    BY <1>1, <1>4, <1>5, Unlinks DEF n
  <2>3. Look(u)' = Look(u)
    BY <1>2, <1>5, <2>1, <2>2 DEF Look
  <2>4. QED  BY <2>3, OutsideIs, OutsideIsNext
<1>6. Outside(t)' = Outside(t)
  <2>1. Vals(chain', data', ahead'[t]) = r
    BY <1>2, <1>4
  <2>2. Traversing(t)'
    BY <1>2 DEF Traversing
  <2>3. Look(t) = <<"done", {}, Append(seen[t], d) \o r>>
    BY <1>1, ShowsRest DEF n
  <2> HIDE DEF d, r
  <2>4. op'[t] # "find_first_if"
    BY <1>1, <1>2
  <2>5. Look(t)' = <<"done", {}, seen'[t] \o r>>
    BY <2>1, <2>2, <2>4 DEF Look
  <2>6. Look(t)' = Look(t)
    BY <1>2, <2>3, <2>5
  <2>7. QED  BY <2>6, OutsideIs, OutsideIsNext
<1>7. absItems' = absItems
  <2>1. Dooms(t, n)
    BY <1>1, <1>3 DEF Dooms
  <2>2. \A u \in Thread, m \in InChain : m # n => Dooms(u, m)' = Dooms(u, m)
    BY <1>1, <1>2 DEF Dooms
  <2>3. Contents' = Contents /\ n \notin Contents
    BY <1>3, <2>1, <2>2, ItemsAre, ItemsAreNext
  <2>4. QED  BY <1>4, <2>3, ItemsAre, ItemsAreNext
<1>8. QED  BY <1>5, <1>6, <1>7, Stutters

-----------------------------------------------------------------------------
(* The calls, the returns and the effects *)

\* AtomicList selects as its implementation does.
LEMMA SameSelection ==
  ASSUME NEW s, NEW P
  PROVE  /\ Atomic!UpToFirst(s, P) = UpToFirst(s, P)
         /\ Atomic!Without(s, P) = Dropping(s, P)
<1>1. \A K : Atomic!Cardinality(K) = Cardinality(K)
  BY DEF Atomic!Cardinality, Cardinality
<1>2. \A K, i : Atomic!Nth(K, i) = Nth(K, i)
  BY <1>1 DEF Atomic!Nth, Nth
<1>3. Atomic!UpToFirst(s, P) = UpToFirst(s, P)
  BY <1>2 DEF Atomic!UpToFirst, UpToFirst
<1>4. \A K : Atomic!Select(s, K) = Select(s, K)
  BY <1>1, <1>2 DEF Atomic!Select, Select
<1>5. QED  BY <1>3, <1>4 DEF Atomic!Without, Dropping

\* A step of t with which its operation is called or returns.
LEMMA CallsOrReturns ==
  ASSUME IInv, RestInv, IInv', RestInv', NEW t \in Thread, Alone(t),
         \A n \in InChain : Dooms(t, n)' = Dooms(t, n),
         NEW o, NEW P, NEW r, Look(t)' = <<o, P, r>>
  PROVE  /\ absItems' = absItems /\ absOp' = [absOp EXCEPT ![t] = o]
         /\ absArg' = [absArg EXCEPT ![t] = P] /\ absRes' = [absRes EXCEPT ![t] = r]
<1>1. \A u \in Thread : u # t => Outside(u)' = Outside(u)
  BY OthersSame
<1>2. Outside(t)' = <<o, P, r>>
  BY OutsideIsNext
<1>3. absItems' = absItems
  BY ItemsSame
<1>4. QED  BY <1>1, <1>2, <1>3, Moves

LEMMA AbsFunctions ==
  /\ absOp = [u \in Thread |-> absOp[u]] /\ absArg = [u \in Thread |-> absArg[u]]
  /\ absRes = [u \in Thread |-> absRes[u]]
BY DEF absOp, absArg, absRes

LEMMA AtomicCall ==
  ASSUME IInv, RestInv, IInv', RestInv', NEW t \in Thread, Alone(t), NEW o, NEW P,
         pc[t] = "idle", pc'[t] = "lock_front", op'[t] = o, arg'[t] = P, ahead'[t] = ahead[t]
  PROVE  Atomic!Call(t, o, P)
<1>1. ~Traversing(t) /\ ~Traversing(t)' /\ seen[t] = <<>> /\ seen'[t] = <<>> /\ op[t] = "none"
  BY DEF Traversing, RestInv
<1>2. Look(t) = <<"none", arg[t], <<>> >> /\ Look(t)' = <<o, P, <<>> >>
  BY <1>1 DEF Look
<1>3. ahead[t] = {}
  BY <1>1 DEF IInv, AheadInv
<1>4. \A n \in InChain : Dooms(t, n)' = Dooms(t, n)
  BY <1>3 DEF Dooms
<1>5. /\ absItems' = absItems /\ absOp' = [absOp EXCEPT ![t] = o]
      /\ absArg' = [absArg EXCEPT ![t] = P] /\ absRes' = [absRes EXCEPT ![t] = <<>>]
  BY <1>2, <1>4, CallsOrReturns
<1>6. absOp[t] = "none" /\ absRes[t] = <<>>
  BY <1>2, OutsideIs DEF Outside
<1>7. absRes' = absRes
  BY <1>5, <1>6, AbsFunctions
<1>8. QED  BY <1>5, <1>6, <1>7 DEF Atomic!Call

LEMMA AtomicReturn ==
  ASSUME IInv, RestInv, IInv', RestInv', NEW t \in Thread, Return(t)
  PROVE  Atomic!Return(t)
<1>1. /\ Alone(t) /\ pc[t] = "return" /\ pc'[t] = "idle" /\ op'[t] = "none" /\ arg'[t] = {}
      /\ seen'[t] = <<>> /\ ahead'[t] = {}
  BY DEF Return, Goto, Alone, heap, IInv, TypeOK
<1>2. ~Traversing(t) /\ ~Traversing(t)'
  BY <1>1 DEF Traversing
<1>3. Look(t) = <<"done", {}, seen[t]>> /\ Look(t)' = <<"none", {}, <<>> >>
  BY <1>1, <1>2 DEF Look
<1>4. \A n \in InChain : ~Dooms(t, n) /\ ~Dooms(t, n)'
  BY <1>1, <1>2 DEF Dooms, IInv, AheadInv
<1>5. /\ absItems' = absItems /\ absOp' = [absOp EXCEPT ![t] = "none"]
      /\ absArg' = [absArg EXCEPT ![t] = {}] /\ absRes' = [absRes EXCEPT ![t] = <<>>]
  <2>1. \A n \in InChain : Dooms(t, n)' = Dooms(t, n)
    BY <1>4 DEF Dooms
  <2>2. QED  BY <1>1, <1>3, <2>1, CallsOrReturns
<1>6. absOp[t] = "done" /\ absArg[t] = {}
  BY <1>3, OutsideIs DEF Outside
<1>7. absArg' = absArg
  BY <1>5, <1>6, AbsFunctions
<1>8. QED  BY <1>5, <1>6, <1>7 DEF Atomic!Return

\* A step of t with which its operation takes effect.
LEMMA AtomicEffect ==
  ASSUME IInv, RestInv, IInv', RestInv', NEW t \in Thread, NEW o, NEW P, NEW r,
         \A u \in Thread : u # t => Outside(u)' = Outside(u),
         Look(t) = <<o, P, <<>> >>, Look(t)' = <<"done", {}, r>>
  PROVE  Atomic!Effect(t, o, r) /\ absArg[t] = P
<1>1. absOp[t] = o /\ absArg[t] = P
  BY OutsideIs DEF Outside
<1>2. Outside(t)' = <<"done", {}, r>>
  BY OutsideIsNext
<1>3. /\ absOp' = [absOp EXCEPT ![t] = "done"] /\ absArg' = [absArg EXCEPT ![t] = {}]
      /\ absRes' = [absRes EXCEPT ![t] = r]
  BY <1>2, Moves
<1>4. QED  BY <1>1, <1>3 DEF Atomic!Effect

\* The first lock: the traversals take effect, the others do not yet.
LEMMA LockFrontSteps ==
  ASSUME IInv, RestInv, IInv', RestInv', NEW t \in Thread, LockFront(t)
  PROVE  UNCHANGED Atomic!vars \/ Atomic!FindFirstIf(t) \/ Atomic!RemoveIf(t)
<1>1. /\ Alone(t) /\ pc[t] = "lock_front" /\ op'[t] = op[t] /\ arg'[t] = arg[t]
      /\ seen[t] = <<>> /\ seen'[t] = <<>> /\ chain' = chain /\ data' = data
      /\ op[t] \in {"push_front", "find_first_if", "remove_if", "empty"}
  BY DEF LockFront, Goto, Alone, heap, IInv, TypeOK, CallInv, RestInv, Op
<1>2. ~Traversing(t) /\ Look(t) = <<op[t], arg[t], <<>> >>
  BY <1>1 DEF Traversing, Look
<1>3. ahead[t] = {} /\ \A n \in InChain : ~Dooms(t, n)
  BY <1>1, <1>2 DEF IInv, AheadInv, Dooms
<1>4. \A u \in Thread : u # t => Outside(u)' = Outside(u)
  BY <1>1, OthersSame
<1>5. CASE op[t] \in {"push_front", "empty"}
  <2>1. pc'[t] \in {"link", "test_empty"} /\ ahead' = ahead
    BY <1>5 DEF LockFront, Goto, IInv, TypeOK
  <2>2. ~Traversing(t)' /\ Look(t)' = Look(t)
    BY <1>1, <1>2, <2>1 DEF Traversing, Look
  <2>3. \A n \in InChain : Dooms(t, n)' = Dooms(t, n)
    BY <1>1, <2>1 DEF Dooms
  <2>4. QED  BY <1>1, <2>2, <2>3, Quiet
<1>6. ASSUME op[t] \in {"find_first_if", "remove_if"}
      PROVE  /\ pc'[t] = "next" /\ Traversing(t)' /\ ahead'[t] = Contents
             /\ Vals(chain', data', ahead'[t]) = absItems /\ absItems \in Seq(Value)
  <2>1. pc'[t] = "next" /\ ahead'[t] = Contents
    BY <1>6 DEF LockFront, Goto, IInv, TypeOK
  <2>2. absItems = Vals(chain, data, Contents)
    BY ItemsAre
  <2>3. chain \in Seq(Node) /\ \A k \in Where(chain, Contents) : data[chain[k]] \in Value
    BY DEF IInv, TypeOK, ChainInv, Where
  <2>4. absItems \in Seq(Value)
    BY <2>2, <2>3, ValsType
  <2>5. QED  BY <1>1, <2>1, <2>2, <2>4 DEF Traversing
<1>7. CASE op[t] = "find_first_if"
  <2>1. /\ Traversing(t)' /\ Vals(chain', data', ahead'[t]) = absItems
        /\ UpToFirst(absItems, arg[t]) \in Seq(Value)
    BY <1>6, <1>7, UpToFirstType
  <2>2. <<>> \o UpToFirst(absItems, arg[t]) = UpToFirst(absItems, arg[t])
    BY <2>1, ConcatEmptySeq
  <2>3. Look(t)' = <<"done", {}, UpToFirst(absItems, arg[t])>>
    BY <1>1, <1>7, <2>1, <2>2 DEF Look
  <2>4. Atomic!Effect(t, "find_first_if", UpToFirst(absItems, arg[t])) /\ absArg[t] = arg[t]
    BY <1>2, <1>4, <1>7, <2>3, AtomicEffect
  <2>5. absItems' = absItems
    <3>1. \A n \in InChain : Dooms(t, n)' = Dooms(t, n)
      BY <1>1, <1>7 DEF Dooms
    <3>2. QED  BY <1>1, <3>1, ItemsSame
  <2>6. QED  BY <2>4, <2>5, SameSelection DEF Atomic!FindFirstIf
<1>8. CASE op[t] = "remove_if"
  <2>1. /\ Traversing(t)' /\ Vals(chain', data', ahead'[t]) = absItems
        /\ absItems \in Seq(Value) /\ ahead'[t] = Contents
    BY <1>6, <1>8
  <2>2. <<>> \o absItems = absItems
    BY <2>1, ConcatEmptySeq
  <2>3. Look(t)' = <<"done", {}, absItems>>
    BY <1>1, <1>8, <2>1, <2>2 DEF Look
  <2>4. Atomic!Effect(t, "remove_if", absItems) /\ absArg[t] = arg[t]
    BY <1>2, <1>4, <1>8, <2>3, AtomicEffect
  <2>5. \A n \in InChain : n \in Contents' <=> n \in Contents /\ data[n] \notin arg[t]
    <3>1. \A n \in InChain : Dooms(t, n)' <=> n \in Contents /\ data[n] \in arg[t]
      BY <1>1, <1>8, <2>1 DEF Dooms
    <3>2. \A u \in Thread, n \in InChain : u # t => Dooms(u, n)' = Dooms(u, n)
      BY <1>1 DEF Alone, Dooms
    <3>3. InChain' = InChain
      BY <1>1 DEF InChain
    <3>4. \A n \in InChain : n \in Contents' <=> ~\E u \in Thread : Dooms(u, n)'
      BY <3>3, ItemsAreNext
    <3>5. \A n \in InChain : n \in Contents <=> ~\E u \in Thread : Dooms(u, n)
      BY ItemsAre
    <3>6. QED  BY <1>3, <3>1, <3>2, <3>4, <3>5
  <2>6. absItems' = Atomic!Without(absItems, arg[t])
    <3>1. \A k \in DOMAIN chain : chain[k] \in Contents' <=>
            chain[k] \in Contents /\ data[chain[k]] \notin arg[t]
      BY <2>5 DEF InChain
    <3>2. absItems' = Vals(chain, data, Contents') /\ absItems = Vals(chain, data, Contents)
      BY <1>1, ItemsAre, ItemsAreNext
    <3>3. chain \in Seq(Node)
      BY DEF IInv, TypeOK
    <3> DEFINE S == Contents
               T == Contents'
    <3>4. \A k \in DOMAIN chain : chain[k] \in T <=> chain[k] \in S /\ data[chain[k]] \notin arg[t]
      BY <3>1
    <3> HIDE DEF S, T
    <3>5. Vals(chain, data, T) = Dropping(Vals(chain, data, S), arg[t])
      BY <3>3, <3>4, ValuesWithout
    <3>6. absItems' = Dropping(absItems, arg[t])
      BY <3>2, <3>5 DEF S, T
    <3>7. QED  BY <3>6, SameSelection
  <2>7. QED  BY <2>4, <2>6 DEF Atomic!RemoveIf
<1>9. QED  BY <1>1, <1>5, <1>7, <1>8

\* The list with a new cell in front, seen through the others.
LEMMA PushedSame ==
  ASSUME IInv, NEW n \in Node, NEW S, n \notin S
  PROVE  Vals(<<n>> \o chain, data, S) = Vals(chain, data, S)
<1> DEFINE c == <<n>> \o chain
           e == [k \in Where(chain, S) |-> k + 1]
<1>1. /\ chain \in Seq(Node) /\ Len(chain) \in Nat /\ c \in Seq(Node) /\ Len(c) = Len(chain) + 1
      /\ c[1] = n /\ \A k \in 1..Len(chain) : c[k + 1] = chain[k]
  BY DEF IInv, TypeOK
<1> HIDE DEF c
<1>2. \A k \in Where(chain, S) : k \in 1..Len(chain) /\ chain[k] \in S
  BY <1>1 DEF Where
<1>3. \A k \in Where(chain, S) : e[k] \in Where(c, S) /\ c[e[k]] = chain[k]
  BY <1>1, <1>2 DEF Where
<1>4. \A k, l \in Where(chain, S) : k < l => e[k] < e[l]
  BY <1>1, <1>2
<1>5. ASSUME NEW k \in Where(c, S)  PROVE \E l \in Where(chain, S) : e[l] = k
  <2>1. k \in 1..Len(chain) + 1 /\ c[k] \in S /\ k # 1
    BY <1>1 DEF Where
  <2>2. k - 1 \in 1..Len(chain) /\ (k - 1) + 1 = k
    BY <1>1, <2>1
  <2>3. chain[k - 1] = c[k]
    BY <1>1, <2>2
  <2>4. k - 1 \in Where(chain, S)
    BY <1>1, <2>1, <2>2, <2>3 DEF Where
  <2>5. QED  BY <2>2, <2>4
<1>6. e \in [Where(chain, S) -> Where(c, S)]
  BY <1>3
<1>7. \A k \in Where(chain, S) : data[c[e[k]]] = data[chain[k]]
  BY <1>3
<1> HIDE DEF e
<1>8. Vals(c, data, S) = Vals(chain, data, S)
  BY <1>1, <1>4, <1>5, <1>6, <1>7, Reindexed
<1>9. QED  BY <1>8 DEF c

\* ... and with it: T has the other cells of S.
LEMMA PushedFirst ==
  ASSUME IInv, NEW n \in Node, n \notin InChain, NEW S, n \in S, NEW T, n \notin T,
         \A m \in InChain : m \in T <=> m \in S
  PROVE  Vals(<<n>> \o chain, data, S) = Cons(data[n], Vals(chain, data, T))
<1> DEFINE c == <<n>> \o chain
<1>1. /\ chain \in Seq(Node) /\ Len(chain) \in Nat /\ c \in Seq(Node) /\ DOMAIN c = 1..Len(chain) + 1
      /\ c[1] = n /\ \A k \in DOMAIN c : k # 1 => k - 1 \in DOMAIN chain /\ c[k] = chain[k - 1]
  BY DEF IInv, TypeOK
<1>2. Vals(c, data, T) = Vals(chain, data, T)
  BY PushedSame
<1> HIDE DEF c
<1>3. \A k \in DOMAIN c : k # 1 => c[k] \in InChain
  BY <1>1 DEF InChain
<1>4. \A k \in DOMAIN c : c[k] \in T <=> c[k] \in S /\ k # 1
  BY <1>1, <1>3
<1>5. Splits(1, c, S, T)
  BY <1>1, <1>4 DEF Splits, Where
<1>6. Vals(c, data, S) = Cons(data[c[1]], Vals(c, data, T))
  BY <1>1, <1>5, FirstValue
<1>7. QED  BY <1>1, <1>2, <1>6 DEF c

LEMMA SetFrontPushes ==
  ASSUME IInv, RestInv, IInv', RestInv', NEW t \in Thread, SetFront(t)
  PROVE  Atomic!PushFront(t)
<1> DEFINE n == own[t]
<1>1. /\ pc[t] = "set_front" /\ pc'[t] = "return" /\ chain' = <<n>> \o chain
      /\ UNCHANGED <<data, op, arg, seen, ahead>>
      /\ \A u \in Thread : u # t => pc'[u] = pc[u]
  BY DEF SetFront, Finish, Goto, IInv, TypeOK
<1>2. op[t] = "push_front" /\ n \in Node /\ n \notin InChain
  BY <1>1 DEF IInv, TypeOK, CallInv, OwnInv
<1>3. seen[t] = <<>> /\ arg[t] = {data[n]}
  BY <1>1, <1>2 DEF RestInv
<1>4. InChain' = InChain \cup {n}
  <2>1. [Next]_vars
    BY DEF Next, Step
  <2>2. QED  BY <2>1, PushedPlaces
<1>5. \A u \in Thread : Traversing(u) => n \notin ahead[u]
  BY <1>2 DEF IInv, AheadInv, ToCome
<1>6. \A u \in Thread : ~Dooms(u, n)
  BY <1>5 DEF Dooms, IInv, AheadInv
<1> HIDE DEF n
<1>7. ASSUME NEW u \in Thread, u # t  PROVE Outside(u)' = Outside(u)
  <2>1. Traversing(u)' = Traversing(u)
    BY <1>1, <1>7 DEF Traversing
  <2>2. Traversing(u) => Vals(chain', data', ahead[u]) = Vals(chain, data, ahead[u])
    BY <1>1, <1>2, <1>5, PushedSame
  <2>3. Look(u)' = Look(u)
    BY <1>1, <1>7, <2>1, <2>2 DEF Look
  <2>4. QED  BY <2>3, OutsideIs, OutsideIsNext
<1>8. Atomic!Effect(t, "push_front", <<>>) /\ absArg[t] = {data[n]}
  <2>1. ~Traversing(t) /\ ~Traversing(t)'
    BY <1>1 DEF Traversing
  <2>2. Look(t) = <<"push_front", {data[n]}, <<>> >> /\ Look(t)' = <<"done", {}, <<>> >>
    BY <1>1, <1>2, <1>3, <2>1 DEF Look
  <2>3. QED  BY <1>7, <2>2, AtomicEffect
<1>9. absItems' = Cons(data[n], absItems)
  <2>1. \A u \in Thread, m \in Node : Dooms(u, m)' = Dooms(u, m)
    BY <1>1 DEF Dooms
  <2>2. /\ Contents = {m \in InChain : ~\E u \in Thread : Dooms(u, m)}
        /\ Contents' = {m \in InChain' : ~\E u \in Thread : Dooms(u, m)'}
        /\ \A m \in InChain : m \in Node
    BY ItemsAre, ItemsAreNext, Places DEF IInv
  <2>3. n \in Contents' /\ n \notin Contents /\ \A m \in InChain : m \in Contents <=> m \in Contents'
    BY <1>2, <1>4, <1>6, <2>1, <2>2
  <2>4. Vals(<<n>> \o chain, data, Contents') = Cons(data[n], Vals(chain, data, Contents))
    <3> DEFINE S == Contents'
               T == Contents
    <3>1. n \in S /\ n \notin T /\ \A m \in InChain : m \in T <=> m \in S
      BY <2>3
    <3> HIDE DEF S, T
    <3>2. Vals(<<n>> \o chain, data, S) = Cons(data[n], Vals(chain, data, T))
      BY <1>2, <3>1, PushedFirst
    <3>3. QED  BY <3>2 DEF S, T
  <2>5. absItems' = Vals(chain', data', Contents') /\ absItems = Vals(chain, data, Contents)
    BY ItemsAre, ItemsAreNext
  <2>6. QED  BY <1>1, <2>4, <2>5
<1>10. \E v \in absArg[t] : absItems' = <<v>> \o absItems
  <2>1. data[n] \in absArg[t] /\ absItems' = <<data[n]>> \o absItems
    BY <1>8, <1>9 DEF Cons
  <2>2. QED  BY <2>1
<1>11. QED  BY <1>8, <1>10 DEF Atomic!PushFront

\* head_.next tells whether the list is empty for whoever holds head_.mtx: a removal
\* that is going to unlink the first node holds it, too.
LEMMA EmptyTest ==
  ASSUME IInv, RestInv, NEW t \in Thread, pc[t] = "test_empty"
  PROVE  next[Front] = Null <=> absItems = <<>>
<1>1. Front \in Held(t) /\ ~Traversing(t)
  BY DEF Held, Traversing
<1>2. next[Front] = Behind(0)
  <2>1. ASSUME NEW u \in Thread, pc[u] = "set_front"  PROVE FALSE
    <3>1. Front \in Held(u)
      BY <2>1 DEF Held
    <3>2. QED  BY <1>1, <2>1, <3>1, Exclusive DEF IInv
  <2>2. QED  BY <2>1 DEF IInv, ChainInv
<1>3. chain \in Seq(Node) /\ Len(chain) \in Nat /\ absItems = Vals(chain, data, Contents)
  BY ItemsAre DEF IInv, TypeOK
<1>4. CASE Len(chain) = 0
  <2>1. next[Front] = Null
    BY <1>2, <1>4 DEF Behind
  <2>2. \A k \in Where(chain, Contents) : data[chain[k]] \in {}
    BY <1>3, <1>4 DEF Where
  <2>3. absItems \in Seq({})
    BY <1>3, <2>2, ValsType
  <2>4. Where(chain, Contents) = Where(chain, {})
    BY <1>3, <1>4 DEF Where
  <2>5. absItems = Vals(chain, data, {})
    BY <1>3, <2>4 DEF Vals
  <2>6. absItems = <<>>
    BY <1>3, <2>5, NothingLeft
  <2>7. QED  BY <2>1, <2>6
<1>5. CASE Len(chain) # 0
  <2> DEFINE n == chain[1]
  <2>1. 1 \in DOMAIN chain /\ next[Front] = n
    BY <1>2, <1>3, <1>5 DEF Behind
  <2>2. n \in Node /\ n \in InChain /\ Place(n) = 1 /\ n # Null
    BY <2>1, Places DEF IInv
  <2> HIDE DEF n
  <2>3. ASSUME NEW u \in Thread, Dooms(u, n)  PROVE FALSE
    <3>1. op[u] = "remove_if" /\ n \in ahead[u]
      BY <2>3 DEF Dooms
    <3>2. Traversing(u) /\ ~LetGo(u) /\ n \in ToCome(u)
      BY <3>1 DEF IInv, AheadInv, LetGo
    <3>3. Pos(u) \in Nat /\ Pos(u) < 1 /\ Pos(u) = Place(cur[u])
      BY <2>2, <3>2, Positions DEF ToCome, Pos
    <3>4. cur[u] \in Held(u) /\ cur[u] \in InChain \cup {Front}
      BY <3>2, InFront
    <3>5. \A m \in InChain : Place(m) \in 1..Len(chain)
      BY <1>3, Places DEF IInv
    <3>6. cur[u] = Front
      BY <1>3, <3>3, <3>4, <3>5
    <3>7. QED  BY <1>1, <3>2, <3>4, <3>6, Exclusive DEF IInv
  <2>4. n \in Contents
    BY <2>2, <2>3, ItemsAre
  <2>5. absItems # <<>>
    <3> DEFINE S == Contents
               T == S \ {n}
               r == Vals(chain, data, T)
    <3>1. Splits(1, chain, S, T)
      <4>1. \A k \in DOMAIN chain : chain[k] = n <=> k = 1
        BY <2>1 DEF n, IInv, ChainInv
      <4>2. 1 \in Where(chain, S) /\ \A k \in Where(chain, S) : 1 <= k
        BY <1>3, <2>1, <2>4 DEF Where, n
      <4>3. QED  BY <4>1, <4>2 DEF Splits, Where
    <3>2. r \in Seq(Value)
      <4>1. \A k \in Where(chain, T) : data[chain[k]] \in Value
        BY DEF Where, IInv, ChainInv
      <4> HIDE DEF T
      <4>2. QED  BY <1>3, <4>1, ValsType
    <3>3. data[chain[1]] \in Value
      BY <2>1 DEF IInv, ChainInv
    <3> HIDE DEF S, T
    <3>4. Vals(chain, data, S) = Cons(data[chain[1]], r)
      BY <1>3, <3>1, FirstValue
    <3> HIDE DEF r
    <3>5. Cons(data[chain[1]], r) # <<>>
      BY <3>2, <3>3 DEF Cons
    <3>6. QED  BY <1>3, <3>4, <3>5 DEF S
  <2>6. QED  BY <2>1, <2>2, <2>5
<1>6. QED  BY <1>4, <1>5

LEMMA TestEmptyTests ==
  ASSUME IInv, RestInv, IInv', RestInv', NEW t \in Thread, TestEmpty(t)
  PROVE  Atomic!Empty(t)
<1>1. /\ Alone(t) /\ pc[t] = "test_empty" /\ pc'[t] = "return" /\ op' = op /\ arg' = arg
      /\ ahead' = ahead /\ seen'[t] = << next[Front] = Null >>
  BY DEF TestEmpty, Finish, Goto, Alone, IInv, TypeOK
<1>2. op[t] = "empty" /\ seen[t] = <<>> /\ ~Traversing(t) /\ ~Traversing(t)'
  BY <1>1 DEF RestInv, Traversing
<1>3. (next[Front] = Null) = (absItems = <<>>)
  BY <1>1, EmptyTest
<1>4. seen'[t] = << absItems = <<>> >>
  BY <1>1, <1>3
<1>5. Look(t) = <<"empty", arg[t], <<>> >> /\ Look(t)' = <<"done", {}, seen'[t]>>
  BY <1>1, <1>2 DEF Look
<1>6. \A u \in Thread : u # t => Outside(u)' = Outside(u)
  BY <1>1, OthersSame
<1>7. Atomic!Effect(t, "empty", seen'[t])
  BY <1>5, <1>6, AtomicEffect
<1>8. absItems' = absItems
  <2>1. \A m \in InChain : Dooms(t, m)' = Dooms(t, m)
    BY <1>1 DEF Alone, Dooms
  <2>2. QED  BY <1>1, <2>1, ItemsSame
<1>9. QED  BY <1>4, <1>7, <1>8 DEF Atomic!Empty

LEMMA StartCalls ==
  ASSUME IInv, RestInv, IInv', RestInv', NEW t \in Thread, Start(t)
  PROVE  Atomic!Next
<1>1. ASSUME NEW v \in Value, PushCall(t, v)  PROVE Atomic!Call(t, "push_front", {v})
  <2>1. PICK n \in Node \ live : data' = [data EXCEPT ![n] = v]
    BY <1>1 DEF PushCall
  <2>2. \A m \in InChain : m \in Node /\ m # n
    BY <2>1, Places DEF IInv, OwnInv
  <2>3. \A m \in InChain : data'[m] = data[m]
    BY <2>1, <2>2 DEF IInv, TypeOK
  <2>4. /\ Alone(t) /\ pc[t] = "idle" /\ pc'[t] = "lock_front" /\ op'[t] = "push_front"
        /\ arg'[t] = {v} /\ ahead'[t] = ahead[t]
    BY <1>1, <2>3 DEF PushCall, Goto, Alone, history, IInv, TypeOK
  <2>5. QED  BY <2>4, AtomicCall
<1>2. ASSUME NEW o, NEW P, Call(t, o, P)  PROVE Atomic!Call(t, o, P)
  <2>1. /\ Alone(t) /\ pc[t] = "idle" /\ pc'[t] = "lock_front" /\ op'[t] = o
        /\ arg'[t] = P /\ ahead'[t] = ahead[t]
    BY <1>2 DEF Call, Goto, Alone, heap, history, IInv, TypeOK
  <2>2. QED  BY <2>1, AtomicCall
<1>3. CASE \E v \in Value : PushCall(t, v)
  BY <1>1, <1>3 DEF Atomic!Next
<1>4. CASE \E o \in {"find_first_if", "remove_if"}, P \in SUBSET Value : Call(t, o, P)
  BY <1>2, <1>4 DEF Atomic!Next
<1>5. CASE Call(t, "empty", {})
  BY <1>2, <1>5 DEF Atomic!Next
<1>6. QED  BY <1>3, <1>4, <1>5 DEF Start

LEMMA StepImplements ==
  ASSUME IInv, RestInv, IInv', RestInv', NEW t \in Thread, Step(t)
  PROVE  [Atomic!Next]_Atomic!vars
<1>1. CASE LockFront(t)
  BY <1>1, LockFrontSteps DEF Atomic!Next
<1>2. CASE Link(t)
  BY <1>2, LinkStutters
<1>3. CASE SetFront(t)
  BY <1>3, SetFrontPushes DEF Atomic!Next
<1>4. CASE TestEmpty(t)
  BY <1>4, TestEmptyTests DEF Atomic!Next
<1>5. CASE ReadNext(t) \/ LockNext(t) \/ Unlock(t) \/ UnlockDead(t) \/ Delete(t)
  BY <1>5, WalkStutters
<1>6. CASE AtEnd(t)
  BY <1>6, AtEndStutters
<1>7. CASE Found(t)
  BY <1>7, FoundStutters
<1>8. CASE Advance(t)
  BY <1>8, AdvanceStutters
<1>9. CASE Unlink(t)
  BY <1>9, UnlinkStutters
<1>10. CASE Return(t)
  BY <1>10, AtomicReturn DEF Atomic!Next
<1>11. QED
  BY <1>1, <1>2, <1>3, <1>4, <1>5, <1>6, <1>7, <1>8, <1>9, <1>10 DEF Step

LEMMA NextImplements ==
  IInv /\ RestInv /\ IInv' /\ RestInv' /\ [Next]_vars => [Atomic!Next]_Atomic!vars
<1> SUFFICES ASSUME IInv, RestInv, IInv', RestInv', [Next]_vars
             PROVE  [Atomic!Next]_Atomic!vars
  OBVIOUS
<1>1. ASSUME NEW t \in Thread, Start(t) \/ Step(t)  PROVE [Atomic!Next]_Atomic!vars
  BY <1>1, StartCalls, StepImplements
<1>2. CASE UNCHANGED vars
  <2>1. InChain' = InChain /\ Contents' = Contents
    BY <1>2 DEF vars, heap, history, InChain, Contents, Doomed
  <2>2. absItems' = absItems
    BY <1>2, <2>1 DEF vars, heap, history, absItems, ValuesOf
  <2>3. \A u \in Thread : Outside(u)' = Outside(u)
    <3> SUFFICES ASSUME NEW u \in Thread  PROVE Outside(u)' = Outside(u)
      OBVIOUS
    <3>1. Look(u)' = Look(u)
      BY <1>2 DEF vars, heap, history, Look, Traversing
    <3>2. QED  BY <3>1, OutsideIs, OutsideIsNext
  <2>4. QED  BY <2>2, <2>3, Stutters
<1>3. QED  BY <1>1, <1>2 DEF Next

LEMMA InitImplements == Init => RestInv /\ Atomic!Init
<1> SUFFICES ASSUME Init  PROVE RestInv /\ Atomic!Init
  OBVIOUS
<1>1. RestInv
  BY DEF Init, RestInv
<1>2. absItems = <<>>
  <2>1. chain = <<>> /\ chain \in Seq(Node) /\ \A S : \A k \in Where(chain, S) : data[chain[k]] \in {}
    BY DEF Init, Where
  <2>2. \A S : Where(chain, S) = Where(chain, {})
    BY <2>1 DEF Where
  <2>3. absItems = Vals(chain, data, Contents)
    BY DEF absItems, ValuesOf, Vals, Where
  <2>4. absItems = Vals(chain, data, {})
    BY <2>2, <2>3 DEF Vals
  <2>5. QED  BY <2>1, <2>4, NothingLeft
<1>3. /\ absOp = [t \in Thread |-> "none"] /\ absArg = [t \in Thread |-> {}]
      /\ absRes = [t \in Thread |-> <<>>]
  BY DEF Init, absOp, absArg, absRes, InEffect
<1>4. QED  BY <1>1, <1>2, <1>3 DEF Atomic!Init

\* threadsafe_list implements AtomicList: although no operation ever holds more than
\* two mutexes, what its callers see is a sequence on which push_front, for_each,
\* find_first_if, remove_if and empty each take effect at one instant.
THEOREM Refinement == Spec => ImplementsAtomicList
<1>1. Init => IInv /\ RestInv /\ Atomic!Init
  BY InitIInv, InitImplements
<1>2. IInv /\ RestInv /\ [Next]_vars => IInv' /\ RestInv'
  BY IInvStep, RestStep
<1>3. IInv /\ RestInv /\ IInv' /\ RestInv' /\ [Next]_vars => [Atomic!Next]_Atomic!vars
  BY NextImplements
<1>4. QED  BY <1>1, <1>2, <1>3, PTL DEF Spec, ImplementsAtomicList, Atomic!Spec
=============================================================================
