-------------------------- MODULE ContainersProofs --------------------------
(***************************************************************************)
(* Proofs about the three containers.  What they have in common are chains *)
(* of cells; every operation links a cell in, unlinks one, or leaves the   *)
(* chain alone.                                                            *)
(***************************************************************************)
EXTENDS MCContainers, SequenceLemmas

-----------------------------------------------------------------------------
(* Chains                                                                  *)

\* From h the pointers p lead to the k cells f[1], ..., f[k], which are those of
\* C, and from there to e.
Leads(f, k, p, h, e, C) ==
    /\ k \in Nat
    /\ f \in [0..k -> C \cup {h}]
    /\ f[0] = h
    /\ \A i \in 1..k : f[i] \in C
    /\ \A c \in C : \E i \in 1..k : f[i] = c
    /\ \A i, j \in 0..k : f[i] = f[j] => i = j
    /\ \A i \in 0..k : i < k => p[f[i]] = f[i + 1]
    /\ p[f[k]] = e

\* The cells are as many as the memory has at most.
LEMMA LeadsLength ==
    ASSUME NEW f, NEW k, NEW p, NEW h, NEW e, NEW C \in SUBSET Cells,
           Leads(f, k, p, h, e, C)
    PROVE  k \in Nat /\ Cardinality(Cells) \in Nat /\ k <= Cardinality(Cells) /\ Cardinality(C) = k
<1> DEFINE s == [i \in 1..k |-> f[i]]
<1>1. k \in Nat /\ s \in Seq(C) /\ Len(s) = k /\ DOMAIN s = 1..k
  BY DEF Leads
<1>2. IsInjective(s) /\ Range(s) = C
  <2>1. \A i, j \in 1..k : s[i] = s[j] => i = j
    BY <1>1 DEF Leads
  <2>2. \A c \in C : \E i \in 1..k : s[i] = c
    BY <1>1 DEF Leads
  <2> HIDE DEF s
  <2> QED BY <1>1, <2>1, <2>2 DEF IsInjective, Range
<1> HIDE DEF s
<1>3. Cardinality(C) = k
  BY <1>1, <1>2, DistinctLength
<1>4. IsFiniteSet(Cells)
  BY ContainerAssumption
<1> QED BY <1>1, <1>3, <1>4, FS_Subset, FS_CardinalityType

\* A non-empty set of numbers has a least one.
LEMMA LeastNumber ==
    ASSUME NEW S \in SUBSET Nat, S # {}
    PROVE  \E i \in S : \A j \in S : i <= j
<1> DEFINE below == OpToRel(<, Nat)
<1>1. IsWellFoundedOn(below, Nat)
  BY NatLessThanWellFounded
<1>2. \A i, j \in Nat : i < j => <<i, j>> \in below
  BY DEF OpToRel
<1> HIDE DEF below
<1>3. PICK i \in S : \A j \in S : ~ (<<j, i>> \in below)
  BY <1>1, WFMin
<1>4. ASSUME NEW j \in S PROVE i <= j
  <2>1. i \in Nat /\ j \in Nat /\ ~ (j < i)
    BY <1>2, <1>3
  <2> QED BY <2>1
<1> QED BY <1>4

\* The path from h is the chain, also along pointers q that differ elsewhere.
LEMMA PathOfChain ==
    ASSUME NEW f, NEW k, NEW p, NEW h, NEW e, NEW C \in SUBSET Cells,
           h \notin Cells, e \notin Cells, Leads(f, k, p, h, e, C),
           NEW q, \A i \in 1..k : q[f[i]] = p[f[i]]
    PROVE  Path(p[h], q) = [i \in 1..k |-> f[i]]
<1> DEFINE N == Cardinality(Cells)
           n == p[h]
           Visits(g) == g = [i \in 0..N |->
               IF i = 0 THEN n ELSE IF g[i - 1] \in Cells THEN q[g[i - 1]] ELSE Null]
           a == CHOOSE g : Visits(g)
           b == [i \in 0..N |-> IF i < k THEN f[i + 1] ELSE IF i = k THEN e ELSE Null]
<1>1. k \in Nat /\ N \in Nat /\ k <= N
  BY LeadsLength
<1>2. Null \notin Cells
  BY ContainerAssumption
<1>3. /\ \A i \in 0..N : i < k => b[i] = f[i + 1] /\ b[i] \in Cells
      /\ b[k] = e
      /\ \A i \in 0..N : k <= i => b[i] \notin Cells
      /\ \A i \in 0..N : k < i => b[i] = Null
  <2>1. \A i \in 1..k : f[i] \in Cells
    BY DEF Leads
  <2> QED BY <1>1, <1>2, <2>1
<1>4. Visits(b)
  <2>1. b[0] = n
    BY <1>1, <1>3 DEF Leads
  <2>2. ASSUME NEW i \in 0..N, i # 0
        PROVE  b[i] = IF b[i - 1] \in Cells THEN q[b[i - 1]] ELSE Null
    <3>1. i - 1 \in 0..N /\ i \in Nat /\ (i - 1) + 1 = i
      BY <1>1, <2>2
    <3>2. CASE i < k
      <4>1. b[i - 1] = f[i] /\ b[i - 1] \in Cells /\ b[i] = f[i + 1]
        BY <1>1, <1>3, <3>1, <3>2
      <4>2. i \in 1..k /\ i \in 0..k
        BY <1>1, <2>2, <3>1, <3>2
      <4>3. q[f[i]] = f[i + 1]
        BY <3>2, <4>2 DEF Leads
      <4> QED BY <4>1, <4>3
    <3>3. CASE i = k
      <4>1. b[i - 1] = f[i] /\ b[i - 1] \in Cells /\ b[i] = e
        BY <1>1, <1>3, <3>1, <3>3
      <4>2. i \in 1..k
        BY <1>1, <2>2, <3>1, <3>3
      <4>3. q[f[i]] = e
        BY <3>3, <4>2 DEF Leads
      <4> QED BY <4>1, <4>3
    <3>4. CASE k < i
      <4>1. b[i - 1] \notin Cells /\ b[i] = Null
        BY <1>1, <1>3, <3>1, <3>4
      <4> QED BY <4>1
    <3> QED BY <1>1, <3>1, <3>2, <3>3, <3>4
  <2>3. b = [i \in 0..N |->
               IF i = 0 THEN n ELSE IF b[i - 1] \in Cells THEN q[b[i - 1]] ELSE Null]
    <3> DEFINE c == [i \in 0..N |->
               IF i = 0 THEN n ELSE IF b[i - 1] \in Cells THEN q[b[i - 1]] ELSE Null]
    <3>1. \A i \in 0..N : b[i] = c[i]
      BY <2>1, <2>2
    <3>2. DOMAIN b = 0..N /\ DOMAIN c = 0..N /\ b = [i \in 0..N |-> b[i]] /\ c = [i \in 0..N |-> c[i]]
      OBVIOUS
    <3> HIDE DEF b, c
    <3>3. b = c
      BY <3>1, <3>2
    <3> QED BY <3>3 DEF c
  <2> QED BY <2>3
<1> HIDE DEF b
<1>5. Visits(a)
  <2> HIDE DEF Visits
  <2>1. \E g : Visits(g)
    BY <1>4
  <2> QED BY <2>1
<1> HIDE DEF a
<1>6. \A i \in 0..N : a[i] = b[i]
  <2> DEFINE S == {i \in 0..N : a[i] # b[i]}
  <2>1. SUFFICES ASSUME S # {} PROVE FALSE
    OBVIOUS
  <2>2. S \in SUBSET Nat
    BY <1>1
  <2> HIDE DEF S
  <2>3. PICK i \in S : \A j \in S : i <= j
    BY <2>1, <2>2, LeastNumber
  <2> USE DEF S
  <2>4. i \in 0..N /\ a[i] # b[i] /\ i \in Nat
    BY <1>1
  <2>5. /\ a[i] = IF i = 0 THEN n ELSE IF a[i - 1] \in Cells THEN q[a[i - 1]] ELSE Null
        /\ b[i] = IF i = 0 THEN n ELSE IF b[i - 1] \in Cells THEN q[b[i - 1]] ELSE Null
    <3> HIDE DEF n, N
    <3>1. a = [j \in 0..N |->
               IF j = 0 THEN n ELSE IF a[j - 1] \in Cells THEN q[a[j - 1]] ELSE Null]
      BY <1>5
    <3>2. b = [j \in 0..N |->
               IF j = 0 THEN n ELSE IF b[j - 1] \in Cells THEN q[b[j - 1]] ELSE Null]
      BY <1>4
    <3> QED BY <2>4, <3>1, <3>2
  <2>6. i # 0
    BY <2>4, <2>5
  <2>7. i - 1 \in 0..N /\ ~ (i <= i - 1)
    BY <1>1, <2>4, <2>6
  <2>8. a[i - 1] = b[i - 1]
    BY <2>3, <2>7
  <2> QED BY <2>4, <2>5, <2>6, <2>8
<1>7. DOMAIN a = 0..N
  BY <1>5
<1>8. {j \in DOMAIN a : a[j] \in Cells} = 0..(k - 1)
  BY <1>1, <1>3, <1>6, <1>7
<1>9. Cardinality({j \in DOMAIN a : a[j] \in Cells}) = k
  <2>1. 0 \in Int /\ k - 1 \in Int
    BY <1>1
  <2>2. Cardinality(0..(k - 1)) = IF 0 > k - 1 THEN 0 ELSE (k - 1) - 0 + 1
    BY <2>1, FS_Interval
  <2>3. Cardinality(0..(k - 1)) = k
    BY <1>1, <2>2
  <2> QED BY <1>8, <2>3
<1>10. Path(n, q) = [i \in 1..Cardinality({j \in DOMAIN a : a[j] \in Cells}) |-> a[i - 1]]
  BY DEF Path, a
<1>11. ASSUME NEW i \in 1..k PROVE a[i - 1] = f[i]
  <2>1. i - 1 \in 0..N /\ i - 1 < k /\ (i - 1) + 1 = i
    BY <1>1
  <2> QED BY <1>3, <1>6, <2>1
<1> QED BY <1>9, <1>10, <1>11

\* A cell linked in behind the r-th, and the r-th unlinked.
With(f, k, r, c) ==
    [i \in 0..(k + 1) |-> IF i <= r THEN f[i] ELSE IF i = r + 1 THEN c ELSE f[i - 1]]

Without(f, k, r) == [i \in 0..(k - 1) |-> IF i < r THEN f[i] ELSE f[i + 1]]

\* A chain into which a cell is linked is a chain with one cell more.
LEMMA Linked ==
    ASSUME NEW f, NEW k, NEW p, NEW h, NEW e, NEW C, Leads(f, k, p, h, e, C),
           NEW r \in 0..k, NEW c, c \notin C, c # h, NEW q,
           q[f[r]] = c, q[c] = p[f[r]], \A i \in 0..k : i # r => q[f[i]] = p[f[i]]
    PROVE  Leads(With(f, k, r, c), k + 1, q, h, e, C \cup {c})
<1> DEFINE g == With(f, k, r, c)
           D == C \cup {c}
<1>1. k \in Nat /\ r \in Nat /\ r <= k /\ k + 1 \in Nat
  BY DEF Leads
<1>2. /\ \A i \in 0..(k + 1) : i <= r => g[i] = f[i]
      /\ g[r + 1] = c
      /\ \A i \in 0..(k + 1) : r + 1 < i => g[i] = f[i - 1]
      /\ g = [i \in 0..(k + 1) |-> g[i]]
  BY <1>1 DEF With
<1> HIDE DEF g
<1>3. /\ f[0] = h /\ p[f[k]] = e
      /\ \A i \in 1..k : f[i] \in C
      /\ \A x \in C : \E i \in 1..k : f[i] = x
      /\ \A i, j \in 0..k : f[i] = f[j] => i = j
      /\ \A i \in 0..k : i < k => p[f[i]] = f[i + 1]
  BY DEF Leads
<1>4. \A i \in 0..k : f[i] # c
  <2> TAKE i \in 0..k
  <2>1. CASE i = 0
    BY <1>3, <2>1
  <2>2. CASE i # 0
    <3>1. i \in 1..k
      BY <1>1, <2>2
    <3> QED BY <1>3, <3>1
  <2> QED BY <2>1, <2>2
<1>5. g[0] = h
  BY <1>1, <1>2, <1>3
<1>6. \A i \in 1..(k + 1) : g[i] \in D
  <2> TAKE i \in 1..(k + 1)
  <2>1. CASE i <= r
    BY <1>1, <1>2, <1>3, <2>1
  <2>2. CASE i = r + 1
    BY <1>1, <1>2, <2>2
  <2>3. CASE r + 1 < i
    <3>1. i - 1 \in 1..k
      BY <1>1, <2>3
    <3> QED BY <1>1, <1>2, <1>3, <2>3, <3>1
  <2> QED BY <1>1, <2>1, <2>2, <2>3
<1>7. \A x \in D : \E i \in 1..(k + 1) : g[i] = x
  <2> TAKE x \in D
  <2>1. CASE x = c
    BY <1>1, <1>2, <2>1
  <2>2. CASE x \in C
    <3>1. PICK i \in 1..k : f[i] = x
      BY <1>3, <2>2
    <3>2. CASE i <= r
      <4>1. i \in 1..(k + 1) /\ i \in 0..(k + 1)
        BY <1>1
      <4> QED BY <1>2, <3>1, <3>2, <4>1
    <3>3. CASE r < i
      <4>1. i + 1 \in 1..(k + 1) /\ r + 1 < i + 1 /\ (i + 1) - 1 = i
        BY <1>1, <3>3
      <4> QED BY <1>1, <1>2, <3>1, <4>1
    <3> QED BY <1>1, <3>2, <3>3
  <2> QED BY <2>1, <2>2
<1>8. \A i, j \in 0..(k + 1) : i < j => g[i] # g[j]
  <2> TAKE i, j \in 0..(k + 1)
  <2> SUFFICES ASSUME i < j PROVE g[i] # g[j]
    OBVIOUS
  <2>1. CASE j <= r
    <3>1. i \in 0..k /\ j \in 0..k /\ i <= r /\ i # j
      BY <1>1, <2>1
    <3> QED BY <1>2, <1>3, <2>1, <3>1
  <2>2. CASE j = r + 1
    <3>1. i \in 0..k /\ i <= r
      BY <1>1, <2>2
    <3> QED BY <1>2, <1>4, <2>2, <3>1
  <2>3. CASE r + 1 < j
    <3>1. j - 1 \in 0..k /\ g[j] = f[j - 1]
      BY <1>1, <1>2, <2>3
    <3>2. CASE i <= r
      <4>1. i \in 0..k /\ i # j - 1
        BY <1>1, <2>3, <3>2
      <4> QED BY <1>2, <1>3, <3>1, <3>2, <4>1
    <3>3. CASE i = r + 1
      BY <1>2, <1>4, <3>1, <3>3
    <3>4. CASE r + 1 < i
      <4>1. i - 1 \in 0..k /\ i - 1 # j - 1
        BY <1>1, <3>4
      <4> QED BY <1>2, <1>3, <3>1, <3>4, <4>1
    <3> QED BY <1>1, <3>2, <3>3, <3>4
  <2> QED BY <1>1, <2>1, <2>2, <2>3
<1>9. \A i \in 0..(k + 1) : i < k + 1 => q[g[i]] = g[i + 1]
  <2> TAKE i \in 0..(k + 1)
  <2> SUFFICES ASSUME i < k + 1 PROVE q[g[i]] = g[i + 1]
    OBVIOUS
  <2>1. CASE i < r
    <3>1. i \in 0..k /\ i # r /\ i < k /\ i + 1 \in 0..(k + 1) /\ i + 1 <= r /\ i <= r
      BY <1>1, <2>1
    <3> QED BY <1>2, <1>3, <3>1
  <2>2. CASE i = r
    BY <1>1, <1>2, <2>2
  <2>3. CASE i = r + 1
    <3>1. r < k /\ r + 1 + 1 \in 0..(k + 1) /\ r + 1 < r + 1 + 1 /\ r + 1 + 1 - 1 = r + 1
      BY <1>1, <2>3
    <3>2. g[i] = c /\ g[i + 1] = f[r + 1]
      BY <1>2, <2>3, <3>1
    <3> QED BY <1>3, <3>1, <3>2
  <2>4. CASE r + 1 < i
    <3>1. /\ i - 1 \in 0..k /\ i - 1 < k /\ i - 1 # r /\ (i - 1) + 1 = i
          /\ i + 1 \in 0..(k + 1) /\ r + 1 < i + 1 /\ (i + 1) - 1 = i
      BY <1>1, <2>4
    <3>2. g[i] = f[i - 1] /\ g[i + 1] = f[i]
      BY <1>2, <2>4, <3>1
    <3> QED BY <1>3, <3>1, <3>2
  <2> QED BY <1>1, <2>1, <2>2, <2>3, <2>4
<1>10. q[g[k + 1]] = e
  <2>1. CASE r = k
    BY <1>1, <1>2, <1>3, <2>1
  <2>2. CASE r < k
    <3>1. k \in 0..k /\ k # r /\ k + 1 \in 0..(k + 1) /\ r + 1 < k + 1 /\ (k + 1) - 1 = k
      BY <1>1, <2>2
    <3> QED BY <1>2, <1>3, <3>1
  <2> QED BY <1>1, <2>1, <2>2
<1>11. \A i, j \in 0..(k + 1) : g[i] = g[j] => i = j
  <2> TAKE i, j \in 0..(k + 1)
  <2>1. i < j \/ j < i \/ i = j
    BY <1>1
  <2> QED BY <1>8, <2>1
<1>12. \A i \in 0..(k + 1) : g[i] \in D \cup {h}
  <2> TAKE i \in 0..(k + 1)
  <2>1. i = 0 \/ i \in 1..(k + 1)
    BY <1>1
  <2> QED BY <1>5, <1>6, <2>1
<1>13. g \in [0..(k + 1) -> D \cup {h}]
  BY <1>2, <1>12
<1> QED BY <1>1, <1>5, <1>6, <1>7, <1>9, <1>10, <1>11, <1>13 DEF Leads, g

\* A chain out of which a cell is unlinked is a chain without it.
LEMMA Unlinked ==
    ASSUME NEW f, NEW k, NEW p, NEW h, NEW e, NEW C, Leads(f, k, p, h, e, C), h \notin C,
           NEW r \in 1..k, NEW q, q[f[r - 1]] = p[f[r]],
           \A i \in 0..k : i \notin {r - 1, r} => q[f[i]] = p[f[i]]
    PROVE  Leads(Without(f, k, r), k - 1, q, h, e, C \ {f[r]})
<1> DEFINE g == Without(f, k, r)
           D == C \ {f[r]}
<1>1. k \in Nat /\ r \in Nat /\ 1 <= r /\ r <= k /\ k - 1 \in Nat /\ r \in 0..k
  BY DEF Leads
<1>2. /\ \A i \in 0..(k - 1) : i < r => g[i] = f[i]
      /\ \A i \in 0..(k - 1) : r <= i => g[i] = f[i + 1]
      /\ g = [i \in 0..(k - 1) |-> g[i]]
  BY <1>1 DEF Without
<1> HIDE DEF g
<1>3. /\ f[0] = h /\ p[f[k]] = e
      /\ \A i \in 1..k : f[i] \in C
      /\ \A x \in C : \E i \in 1..k : f[i] = x
      /\ \A i, j \in 0..k : f[i] = f[j] => i = j
      /\ \A i \in 0..k : i < k => p[f[i]] = f[i + 1]
  BY DEF Leads
<1>4. \A i \in 0..(k - 1) : \E j \in 0..k : j # r /\ g[i] = f[j] /\ (i # 0 => j # 0)
  <2> TAKE i \in 0..(k - 1)
  <2>1. CASE i < r
    <3>1. i \in 0..k /\ i # r
      BY <1>1, <2>1
    <3> QED BY <1>2, <2>1, <3>1
  <2>2. CASE r <= i
    <3>1. i + 1 \in 0..k /\ i + 1 # r /\ i + 1 # 0
      BY <1>1, <2>2
    <3> QED BY <1>2, <2>2, <3>1
  <2> QED BY <1>1, <2>1, <2>2
<1>5. g[0] = h
  BY <1>1, <1>2, <1>3
<1>6. \A i \in 1..(k - 1) : g[i] \in D
  <2> TAKE i \in 1..(k - 1)
  <2>1. i \in 0..(k - 1) /\ i # 0
    BY <1>1
  <2>2. PICK j \in 0..k : j # r /\ g[i] = f[j] /\ j # 0
    BY <1>4, <2>1
  <2>3. j \in 1..k
    BY <1>1, <2>2
  <2>4. f[j] # f[r]
    BY <1>1, <1>3, <2>2
  <2> QED BY <1>3, <2>2, <2>3, <2>4
<1>7. \A x \in D : \E i \in 1..(k - 1) : g[i] = x
  <2> TAKE x \in D
  <2>1. PICK i \in 1..k : f[i] = x
    BY <1>3
  <2>2. i # r
    BY <2>1
  <2>3. CASE i < r
    <3>1. i \in 1..(k - 1) /\ i \in 0..(k - 1)
      BY <1>1, <2>3
    <3> QED BY <1>2, <2>1, <2>3, <3>1
  <2>4. CASE r < i
    <3>1. i - 1 \in 1..(k - 1) /\ i - 1 \in 0..(k - 1) /\ r <= i - 1 /\ (i - 1) + 1 = i
      BY <1>1, <2>4
    <3> QED BY <1>2, <2>1, <3>1
  <2> QED BY <1>1, <2>2, <2>3, <2>4
<1>8. \A i, j \in 0..(k - 1) : i < j => g[i] # g[j]
  <2> TAKE i, j \in 0..(k - 1)
  <2> SUFFICES ASSUME i < j PROVE g[i] # g[j]
    OBVIOUS
  <2>1. i \in 0..k /\ i + 1 \in 0..k /\ j \in 0..k /\ j + 1 \in 0..k
    BY <1>1
  <2>2. CASE j < r
    <3>1. i < r /\ i # j
      BY <1>1, <2>2
    <3> QED BY <1>2, <1>3, <2>1, <2>2, <3>1
  <2>3. CASE r <= j
    <3>1. CASE i < r
      <4>1. i # j + 1
        BY <1>1, <2>3, <3>1
      <4> QED BY <1>2, <1>3, <2>1, <2>3, <3>1, <4>1
    <3>2. CASE r <= i
      <4>1. i + 1 # j + 1
        BY <1>1
      <4> QED BY <1>2, <1>3, <2>1, <2>3, <3>2, <4>1
    <3> QED BY <1>1, <3>1, <3>2
  <2> QED BY <1>1, <2>2, <2>3
<1>9. \A i \in 0..(k - 1) : i < k - 1 => q[g[i]] = g[i + 1]
  <2> TAKE i \in 0..(k - 1)
  <2> SUFFICES ASSUME i < k - 1 PROVE q[g[i]] = g[i + 1]
    OBVIOUS
  <2>1. i \in 0..k /\ i + 1 \in 0..k /\ i + 1 \in 0..(k - 1) /\ i < k /\ i + 1 < k
    BY <1>1
  <2>2. CASE i < r - 1
    <3>1. i \notin {r - 1, r} /\ i < r /\ i + 1 < r
      BY <1>1, <2>2
    <3> QED BY <1>2, <1>3, <2>1, <3>1
  <2>3. CASE i = r - 1
    <3>1. i < r /\ r <= i + 1 /\ i + 1 = r
      BY <1>1, <2>3
    <3>2. g[i] = f[r - 1] /\ g[i + 1] = f[r + 1]
      BY <1>2, <2>1, <2>3, <3>1
    <3> QED BY <1>3, <2>1, <3>1, <3>2
  <2>4. CASE r <= i
    <3>1. i + 1 \notin {r - 1, r} /\ r <= i + 1
      BY <1>1, <2>4
    <3>2. g[i] = f[i + 1] /\ g[i + 1] = f[i + 1 + 1]
      BY <1>2, <2>1, <2>4, <3>1
    <3> QED BY <1>3, <2>1, <3>1, <3>2
  <2> QED BY <1>1, <2>2, <2>3, <2>4
<1>10. q[g[k - 1]] = e
  <2>1. k - 1 \in 0..(k - 1)
    BY <1>1
  <2>2. CASE r = k
    BY <1>1, <1>2, <1>3, <2>1, <2>2
  <2>3. CASE r < k
    <3>1. k \in 0..k /\ k \notin {r - 1, r} /\ r <= k - 1 /\ (k - 1) + 1 = k
      BY <1>1, <2>3
    <3> QED BY <1>2, <1>3, <2>1, <3>1
  <2> QED BY <1>1, <2>2, <2>3
<1>11. \A i, j \in 0..(k - 1) : g[i] = g[j] => i = j
  <2> TAKE i, j \in 0..(k - 1)
  <2>1. i < j \/ j < i \/ i = j
    BY <1>1
  <2> QED BY <1>8, <2>1
<1>12. \A i \in 0..(k - 1) : g[i] \in D \cup {h}
  <2> TAKE i \in 0..(k - 1)
  <2>1. i = 0 \/ i \in 1..(k - 1)
    BY <1>1
  <2> QED BY <1>5, <1>6, <2>1
<1>13. g \in [0..(k - 1) -> D \cup {h}]
  BY <1>2, <1>12
<1> QED BY <1>1, <1>5, <1>6, <1>7, <1>9, <1>10, <1>11, <1>13 DEF Leads, g

\* Pointers that no cell of the chain has do not matter.
LEMMA LeadsKept ==
    ASSUME NEW f, NEW k, NEW p, NEW h, NEW e, NEW C, Leads(f, k, p, h, e, C),
           NEW q, \A i \in 0..k : q[f[i]] = p[f[i]]
    PROVE  Leads(f, k, q, h, e, C)
<1>1. k \in 0..k
  BY DEF Leads
<1> QED BY <1>1 DEF Leads

\* A chain without cells.
LEMMA LeadsNowhere ==
    ASSUME NEW p, NEW h
    PROVE  Leads([i \in 0..0 |-> h], 0, p, h, p[h], {})
  BY DEF Leads

\* Where the pointers of a chain lead.
LEMMA LeadsNext ==
    ASSUME NEW f, NEW k, NEW p, NEW h, NEW e, NEW C, Leads(f, k, p, h, e, C), h \notin C
    PROVE  /\ \A n \in C \cup {h} : p[n] \in C \cup {e}
           /\ \A n \in C \cup {h} : \E i \in 0..k : f[i] = n
           /\ \A i \in 0..k : f[i] \in C \cup {h}
           /\ \A i \in 0..k : f[i] \in C => i \in 1..k
<1>1. /\ k \in Nat /\ f[0] = h /\ p[f[k]] = e
      /\ \A i \in 1..k : f[i] \in C
      /\ \A x \in C : \E i \in 1..k : f[i] = x
      /\ \A i \in 0..k : i < k => p[f[i]] = f[i + 1]
  BY DEF Leads
<1>2. ASSUME NEW n \in C \cup {h} PROVE \E i \in 0..k : f[i] = n
  <2>1. CASE n = h
    BY <1>1, <2>1
  <2>2. CASE n \in C
    <3>1. PICK i \in 1..k : f[i] = n
      BY <1>1, <2>2
    <3>2. i \in 0..k
      BY <1>1
    <3> QED BY <3>1, <3>2
  <2> QED BY <2>1, <2>2
<1>3. ASSUME NEW i \in 0..k
      PROVE  /\ f[i] \in C \cup {h} /\ (f[i] \in C => i \in 1..k)
             /\ p[f[i]] \in C \cup {e}
  <2>1. i = 0 \/ i \in 1..k
    BY <1>1
  <2>2. f[i] \in C \cup {h} /\ (f[i] \in C => i \in 1..k)
    BY <1>1, <2>1
  <2>3. CASE i = k
    BY <1>1, <2>2, <2>3
  <2>4. CASE i < k
    <3>1. i + 1 \in 1..k
      BY <1>1, <2>4
    <3> QED BY <1>1, <2>2, <2>4, <3>1
  <2> QED BY <1>1, <2>3, <2>4
<1> QED BY <1>2, <1>3

-----------------------------------------------------------------------------
(* The list                                                                *)

Linkable == Nodes \cup {Null}

ListTypes ==
    /\ next \in [Nodes -> Linkable]
    /\ prev \in [Nodes -> Linkable]
    /\ data \in [Cells -> Data \cup {Null}]
    /\ used \in SUBSET Cells
    /\ \A c \in used : data[c] \in Data

\* The list as it is outside fini, with the cells f[1] to f[k].
Doubly(f, k) ==
    /\ Leads(f, k, next, HeadNode, TailNode, used)
    /\ \A n \in used \cup {HeadNode} : prev[next[n]] = n
    /\ count = k

\* The head, the tail, the cells and Null are all different.
LEMMA NodesDiffer ==
    /\ HeadNode \notin Cells /\ TailNode \notin Cells /\ Null \notin Nodes
    /\ HeadNode # TailNode /\ Cells \subseteq Nodes /\ HeadNode \in Nodes /\ TailNode \in Nodes
    /\ Null \notin Data /\ IsFiniteSet(Cells)
  BY ContainerAssumption, ListAssumption DEF Nodes

\* An insertion.
LEMMA InsertDoubly ==
    ASSUME ListTypes, NEW f, NEW k, Doubly(f, k), NEW r \in 0..k, NEW d \in Data,
           Insert(f[r], d)
    PROVE  /\ ListTypes'
           /\ \/ UNCHANGED <<next, prev, data, count, used>>
              \/ \E c \in Cells \ used :
                    /\ Doubly(With(f, k, r, c), k + 1)'
                    /\ data' = [data EXCEPT ![c] = d]
<1> USE NodesDiffer
<1>1. CASE UNCHANGED <<next, prev, data, count, used>>
  BY <1>1 DEF ListTypes
<1>2. CASE ~ UNCHANGED <<next, prev, data, count, used>>
  <2> DEFINE n == f[r]
             m == next[n]
  <2>1. PICK c \in Cells \ used :
           /\ used' = used \cup {c}
           /\ data' = [data EXCEPT ![c] = d]
           /\ prev' = [prev EXCEPT ![m] = c, ![c] = n]
           /\ next' = [next EXCEPT ![c] = m, ![n] = c]
           /\ count' = count + 1
    BY <1>2 DEF Insert
  <2>2. /\ Leads(f, k, next, HeadNode, TailNode, used) /\ HeadNode \notin used
        /\ \A x \in used \cup {HeadNode} : prev[next[x]] = x
        /\ count = k
    BY DEF Doubly, ListTypes
  <2>3. /\ \A x \in used \cup {HeadNode} : next[x] \in used \cup {TailNode}
        /\ \A i \in 0..k : f[i] \in used \cup {HeadNode}
        /\ n \in used \cup {HeadNode} /\ m \in used \cup {TailNode}
    BY <2>2, LeadsNext
  <2>4. n \in Nodes /\ m \in Nodes /\ c \in Nodes /\ c # n /\ c # m
    BY <2>3 DEF ListTypes
  <2> HIDE DEF m
  <2>5. /\ next' \in [Nodes -> Linkable] /\ prev' \in [Nodes -> Linkable]
        /\ next'[n] = c /\ next'[c] = m /\ \A x \in Nodes : x \notin {n, c} => next'[x] = next[x]
        /\ prev'[m] = c /\ prev'[c] = n /\ \A x \in Nodes : x \notin {m, c} => prev'[x] = prev[x]
    BY <2>1, <2>4 DEF ListTypes, Linkable
  <2>6. ListTypes'
    BY <2>1, <2>5 DEF ListTypes
  <2>7. Leads(With(f, k, r, c), k + 1, next', HeadNode, TailNode, used')
    <3>1. \A i \in 0..k : i # r => next'[f[i]] = next[f[i]]
      <4> TAKE i \in 0..k
      <4> SUFFICES ASSUME i # r PROVE next'[f[i]] = next[f[i]]
        OBVIOUS
      <4>1. f[i] # n
        BY <2>2 DEF Leads
      <4>2. f[i] \in Nodes /\ f[i] # c
        BY <2>3, <2>4 DEF ListTypes
      <4> QED BY <2>5, <4>1, <4>2
    <3>2. c \notin used /\ c # HeadNode /\ next'[f[r]] = c /\ next'[c] = next[f[r]]
      BY <2>5 DEF m
    <3>3. Leads(f, k, next, HeadNode, TailNode, used) /\ used' = used \cup {c}
      BY <2>1, <2>2
    <3> HIDE NodesDiffer
    <3>4. Leads(With(f, k, r, c), k + 1, next', HeadNode, TailNode, used \cup {c})
      BY <3>1, <3>2, <3>3, Linked
    <3> QED BY <3>3, <3>4
  <2>8. \A x \in used' \cup {HeadNode} : prev'[next'[x]] = x
    <3> TAKE x \in used' \cup {HeadNode}
    <3>1. CASE x \in {n, c}
      BY <2>5, <3>1
    <3>2. CASE x \notin {n, c}
      <4>1. x \in used \cup {HeadNode} /\ x \in Nodes
        BY <2>1, <3>2 DEF ListTypes
      <4>2. next'[x] = next[x] /\ next[x] \in Nodes /\ next[x] # c
        BY <2>3, <2>5, <3>2, <4>1 DEF ListTypes
      <4>3. prev[next[x]] = x /\ prev[m] = n
        BY <2>2, <2>3, <4>1 DEF m
      <4>4. next[x] # m
        BY <3>2, <4>3
      <4> QED BY <2>5, <4>2, <4>3, <4>4
    <3> QED BY <3>1, <3>2
  <2>9. count' = k + 1
    BY <2>1, <2>2
  <2>10. Doubly(With(f, k, r, c), k + 1)'
    BY <2>7, <2>8, <2>9 DEF Doubly
  <2> QED BY <2>1, <2>6, <2>10
<1> QED BY <1>1, <1>2

\* A removal.
LEMMA RemoveDoubly ==
    ASSUME ListTypes, NEW f, NEW k, Doubly(f, k), NEW r \in 1..k, Remove(f[r])
    PROVE  /\ ListTypes'
           /\ Doubly(Without(f, k, r), k - 1)'
           /\ data' = [data EXCEPT ![f[r]] = Null]
           /\ popped' = data[f[r]] /\ popped' \in Data
           /\ next'[f[r - 1]] = next[f[r]] /\ prev[f[r]] = f[r - 1]
<1> USE NodesDiffer
<1> DEFINE n == f[r]
           m == next[n]
           l == f[r - 1]
<1>1. /\ Leads(f, k, next, HeadNode, TailNode, used) /\ HeadNode \notin used
      /\ \A x \in used \cup {HeadNode} : prev[next[x]] = x
      /\ count = k /\ k \in Nat
  BY DEF Doubly, ListTypes, Leads
<1>2. r \in 0..k /\ r - 1 \in 0..k /\ r - 1 < k /\ (r - 1) + 1 = r /\ r # r - 1
  BY <1>1
<1>3. /\ \A x \in used \cup {HeadNode} : next[x] \in used \cup {TailNode}
      /\ \A i \in 0..k : f[i] \in used \cup {HeadNode}
      /\ m \in used \cup {TailNode} /\ l \in used \cup {HeadNode}
  BY <1>1, <1>2, LeadsNext
<1>4. n \in used /\ next[l] = n /\ n # l
  BY <1>1, <1>2 DEF Leads
<1>5. prev[n] = l /\ prev[m] = n /\ m # n
  <2>1. prev[n] = l /\ prev[m] = n
    BY <1>1, <1>3, <1>4
  <2> QED BY <1>4, <2>1
<1>6. n \in Nodes /\ n \in Cells /\ m \in Nodes /\ l \in Nodes
  BY <1>3, <1>4 DEF ListTypes
<1> HIDE DEF n, m, l
<1>7. /\ used' = used \ {n}
      /\ next' = [next EXCEPT ![l] = m, ![n] = Null]
      /\ prev' = [prev EXCEPT ![m] = l, ![n] = Null]
      /\ data' = [data EXCEPT ![n] = Null]
      /\ count' = count - 1 /\ popped' = data[n]
  BY <1>5 DEF Remove, FreeCell, n, m
<1>8. /\ next' \in [Nodes -> Linkable] /\ prev' \in [Nodes -> Linkable]
      /\ next'[l] = m /\ \A x \in Nodes : x \notin {n, l} => next'[x] = next[x]
      /\ prev'[m] = l /\ \A x \in Nodes : x \notin {m, n} => prev'[x] = prev[x]
  BY <1>4, <1>5, <1>6, <1>7 DEF ListTypes, Linkable
<1>9. ListTypes'
  BY <1>6, <1>7, <1>8 DEF ListTypes
<1>10. Leads(Without(f, k, r), k - 1, next', HeadNode, TailNode, used \ {n})
  <2>1. \A i \in 0..k : i \notin {r - 1, r} => next'[f[i]] = next[f[i]]
    <3> TAKE i \in 0..k
    <3> SUFFICES ASSUME i \notin {r - 1, r} PROVE next'[f[i]] = next[f[i]]
      OBVIOUS
    <3>1. f[i] \notin {n, l}
      BY <1>1, <1>2 DEF Leads, n, l
    <3>2. f[i] \in Nodes
      BY <1>3, <1>6 DEF ListTypes
    <3> QED BY <1>8, <3>1, <3>2
  <2>2. next'[f[r - 1]] = next[f[r]]
    BY <1>8 DEF l, m, n
  <2> QED BY <1>1, <2>1, <2>2, Unlinked DEF n
<1>11. \A x \in (used \ {n}) \cup {HeadNode} : prev'[next'[x]] = x
  <2> TAKE x \in (used \ {n}) \cup {HeadNode}
  <2>1. CASE x = l
    BY <1>8, <2>1
  <2>2. CASE x # l
    <3>1. x # n /\ x \in Nodes /\ x \in used \cup {HeadNode}
      BY <1>4 DEF ListTypes
    <3>2. next'[x] = next[x] /\ next[x] \in Nodes /\ prev[next[x]] = x
      BY <1>1, <1>3, <1>8, <2>2, <3>1 DEF ListTypes
    <3>3. next[x] \notin {m, n}
      BY <1>5, <2>2, <3>1, <3>2
    <3> QED BY <1>8, <3>2, <3>3
  <2> QED BY <2>1, <2>2
<1>12. Doubly(Without(f, k, r), k - 1)'
  BY <1>1, <1>7, <1>10, <1>11 DEF Doubly
<1>13. popped' \in Data
  BY <1>4, <1>7 DEF ListTypes
<1> QED BY <1>5, <1>7, <1>8, <1>9, <1>12, <1>13 DEF n, m, l

\* The sequence s without its r-th element.
Shorter(s, r) == [i \in 1..(Len(s) - 1) |-> IF i < r THEN s[i] ELSE s[i + 1]]

\* A sequence without an element is a sequence, one shorter.
LEMMA ShorterType ==
    ASSUME NEW S, NEW s \in Seq(S), NEW r \in 1..Len(s)
    PROVE  Shorter(s, r) \in Seq(S) /\ Len(Shorter(s, r)) = Len(s) - 1
<1> DEFINE n == Len(s)
           x == Shorter(s, r)
<1>1. n \in Nat /\ n - 1 \in Nat
  OBVIOUS
<1>2. \A i \in 1..(n - 1) : x[i] \in S
  <2> TAKE i \in 1..(n - 1)
  <2>1. i \in 1..n /\ i + 1 \in 1..n
    BY <1>1
  <2> QED BY <2>1 DEF Shorter
<1>3. x = [i \in 1..(n - 1) |-> x[i]]
  BY DEF Shorter
<1> HIDE DEF x, n
<1>4. x \in Seq(S) /\ Len(x) = n - 1
  BY <1>1, <1>2, <1>3
<1> QED BY <1>4 DEF x, n

\* How the community modules remove an element.
LEMMA RemoveAtIs ==
    ASSUME NEW S, NEW s \in Seq(S), NEW r \in 1..Len(s)
    PROVE  Sequence!RemoveAt(s, r) = Shorter(s, r)
<1> DEFINE a == SubSeq(s, 1, r - 1)
           b == SubSeq(s, r + 1, Len(s))
           n == Len(s)
           x == Shorter(s, r)
<1>1. n \in Nat /\ r \in Nat /\ 1 <= r /\ r <= n /\ n - 1 \in Nat /\ r - 1 \in Nat /\ r + 1 \in Nat
  OBVIOUS
<1>2. /\ a \in Seq(S) /\ Len(a) = r - 1
      /\ \A i \in 1..(r - 1) : a[i] = s[i]
  <2>1. \A i \in 1..(r - 1) : s[i] \in S
    BY <1>1
  <2> QED BY <1>1, <2>1, SubSeqProperties
<1>3. /\ b \in Seq(S) /\ Len(b) = n - r
      /\ \A i \in 1..(n - r) : b[i] = s[r + i]
  <2>1. \A i \in (r + 1)..n : s[i] \in S
    BY <1>1
  <2>2. /\ b \in Seq(S) /\ Len(b) = n - r
        /\ \A i \in 1..(n - r) : b[i] = s[r + i]
    BY <1>1, <2>1, SubSeqProperties
  <2> QED BY <2>2
<1> HIDE DEF a, b
<1>4. /\ a \o b \in Seq(S) /\ Len(a \o b) = (r - 1) + (n - r)
      /\ \A i \in 1..((r - 1) + (n - r)) :
            (a \o b)[i] = IF i <= r - 1 THEN a[i] ELSE b[i - (r - 1)]
  <2>1. /\ a \o b \in Seq(S) /\ Len(a \o b) = Len(a) + Len(b)
        /\ \A i \in 1..(Len(a) + Len(b)) :
              (a \o b)[i] = IF i <= Len(a) THEN a[i] ELSE b[i - Len(a)]
    BY <1>2, <1>3, ConcatProperties
  <2>2. Len(a) = r - 1 /\ Len(b) = n - r
    BY <1>2, <1>3
  <2> QED BY ONLY <2>1, <2>2
<1>5. (r - 1) + (n - r) = n - 1
  BY <1>1
<1>6. ASSUME NEW i \in 1..(n - 1) PROVE (a \o b)[i] = x[i]
  <2>1. CASE i < r
    <3>1. i <= r - 1 /\ i \in 1..(r - 1)
      BY <1>1, <2>1
    <3> QED BY <1>2, <1>4, <1>5, <2>1, <3>1 DEF Shorter
  <2>2. CASE r <= i
    <3> DEFINE j == i - (r - 1)
    <3>1. ~ (i <= r - 1) /\ j \in 1..(n - r) /\ r + j = i + 1 /\ ~ (i < r)
      BY <1>1, <2>2
    <3>2. (a \o b)[i] = b[j] /\ b[j] = s[r + j]
      BY <1>3, <1>4, <1>5, <3>1
    <3> HIDE DEF j
    <3>3. (a \o b)[i] = s[i + 1]
      BY <3>1, <3>2
    <3>4. x[i] = s[i + 1]
      BY <3>1 DEF Shorter
    <3> QED BY <3>3, <3>4
  <2>3. i < r \/ r <= i
    BY <1>1
  <2> QED BY <2>1, <2>2, <2>3
<1>7. x \in Seq(S) /\ Len(x) = n - 1
  BY ShorterType
<1>8. a \o b = x
  BY <1>4, <1>5, <1>6, <1>7, SeqEqual
<1> QED BY <1>8 DEF Sequence!RemoveAt, a, b

\* Removing the first occurrence of an element, ...
LEMMA RemoveFirstIs ==
    ASSUME NEW S, NEW s \in Seq(S), NEW r \in 1..Len(s), \A i \in 1..(r - 1) : s[i] # s[r]
    PROVE  Sequence!RemoveFirst(s, s[r]) = Shorter(s, r)
<1> DEFINE I == {i \in 1..Len(s) : s[i] = s[r]}
<1>1. r \in I /\ \A i \in I : r <= i
  OBVIOUS
<1>2. I \subseteq Nat
  OBVIOUS
<1> HIDE DEF I
<1>3. Sequence!Min(I) = r
  <2> DEFINE m == CHOOSE x \in I : \A y \in I : x <= y
  <2>1. m \in I /\ \A y \in I : m <= y
    BY <1>1
  <2> HIDE DEF m
  <2>2. m <= r /\ r <= m /\ m \in Nat
    BY <1>1, <1>2, <2>1
  <2>3. m = r
    BY <2>2
  <2> QED BY <2>3 DEF Sequence!Min, m
<1>4. Sequence!RemoveFirst(s, s[r]) = Sequence!RemoveAt(s, IF I # {} THEN Sequence!Min(I) ELSE 0)
  BY DEF Sequence!RemoveFirst, Sequence!SelectInSeq, I
<1>5. Sequence!RemoveFirst(s, s[r]) = Sequence!RemoveAt(s, r)
  BY <1>1, <1>3, <1>4
<1> QED BY <1>5, RemoveAtIs

\* ... and the last one, as the deque does it.
LEMMA RemoveLastIs ==
    ASSUME NEW S, NEW s \in Seq(S), NEW r \in 1..Len(s), \A i \in 1..Len(s) : r < i => s[i] # s[r]
    PROVE  Sequence!Reverse(Sequence!RemoveFirst(Sequence!Reverse(s), s[r])) = Shorter(s, r)
<1> DEFINE n == Len(s)
           t == Sequence!Reverse(s)
           q == (n - r) + 1
           u == Shorter(t, q)
           x == Shorter(s, r)
<1>1. n \in Nat /\ r \in Nat /\ 1 <= r /\ r <= n /\ q \in 1..n /\ (n - q) + 1 = r
  OBVIOUS
<1>2. /\ t \in Seq(S) /\ Len(t) = n
      /\ \A i \in 1..n : t[i] = s[(n - i) + 1]
  BY DEF Sequence!Reverse
<1> HIDE DEF t
<1>3. t[q] = s[r]
  BY <1>1, <1>2
<1>4. \A i \in 1..(q - 1) : t[i] # t[q]
  <2> TAKE i \in 1..(q - 1)
  <2>1. i \in 1..n /\ (n - i) + 1 \in 1..n /\ r < (n - i) + 1
    BY <1>1
  <2> QED BY <1>2, <1>3, <2>1
<1>5. Sequence!RemoveFirst(t, s[r]) = u
  BY <1>1, <1>2, <1>3, <1>4, RemoveFirstIs
<1>6. u = [i \in 1..(n - 1) |-> IF i < q THEN t[i] ELSE t[i + 1]]
  BY <1>2 DEF Shorter
<1>7. Len(u) = n - 1
  <2> HIDE DEF u, n
  <2> QED BY <1>1, <1>6
<1>8. Sequence!Reverse(u) = [i \in 1..(n - 1) |-> u[((n - 1) - i) + 1]]
  BY <1>7 DEF Sequence!Reverse
<1>9. ASSUME NEW i \in 1..(n - 1) PROVE u[((n - 1) - i) + 1] = IF i < r THEN s[i] ELSE s[i + 1]
  <2> DEFINE j == ((n - 1) - i) + 1
  <2>1. j \in 1..(n - 1) /\ j \in 1..n /\ j + 1 \in 1..n /\ (n - j) + 1 = i + 1 /\ (n - (j + 1)) + 1 = i
    BY <1>1
  <2>2. u[j] = IF j < q THEN t[j] ELSE t[j + 1]
    BY <1>6, <2>1
  <2>3. CASE i < r
    <3>1. ~ (j < q)
      BY <1>1, <2>3
    <3> QED BY <1>2, <2>1, <2>2, <2>3, <3>1
  <2>4. CASE r <= i
    <3>1. j < q /\ ~ (i < r)
      BY <1>1, <2>4
    <3> QED BY <1>2, <2>1, <2>2, <3>1
  <2> QED BY <1>1, <2>3, <2>4
<1>10. Sequence!Reverse(u) = x
  <2> HIDE DEF u
  <2> QED BY <1>8, <1>9 DEF Shorter
<1> QED BY <1>5, <1>10 DEF t

\* Without its first element, and without its last.
LEMMA ShorterAtAnEnd ==
    ASSUME NEW S, NEW s \in Seq(S), s # <<>>
    PROVE  /\ Len(s) \in 1..Len(s) /\ 1 \in 1..Len(s)
           /\ Tail(s) = Shorter(s, 1) /\ Head(s) = s[1]
           /\ Sequence!Front(s) = Shorter(s, Len(s)) /\ Sequence!Last(s) = s[Len(s)]
<1> DEFINE n == Len(s)
<1>1. n \in Nat /\ n # 0 /\ n \in 1..n /\ 1 \in 1..n
  OBVIOUS
<1>2. Tail(s) = Shorter(s, 1)
  <2>1. /\ Tail(s) \in Seq(S) /\ Len(Tail(s)) = n - 1
        /\ \A i \in 1..Len(Tail(s)) : Tail(s)[i] = s[i + 1]
    BY HeadTailProperties
  <2>2. Shorter(s, 1) \in Seq(S) /\ Len(Shorter(s, 1)) = n - 1
    BY <1>1, ShorterType
  <2>3. \A i \in 1..(n - 1) : Tail(s)[i] = Shorter(s, 1)[i]
    <3> TAKE i \in 1..(n - 1)
    <3>1. ~ (i < 1)
      OBVIOUS
    <3> QED BY <2>1, <3>1 DEF Shorter
  <2> HIDE DEF n
  <2> QED BY <2>1, <2>2, <2>3, SeqEqual
<1>3. SubSeq(s, 1, n - 1) = Shorter(s, n)
  <2> DEFINE m == n - 1
  <2>1. /\ m \in Nat /\ m - 1 + 1 = m /\ 1 \in Nat /\ \A i \in 1..m : s[i] \in S /\ i < n
    BY <1>1
  <2>2. Shorter(s, n) \in Seq(S) /\ Len(Shorter(s, n)) = m
    BY <1>1, ShorterType
  <2>3. \A i \in 1..m : Shorter(s, n)[i] = s[i]
    BY <2>1 DEF Shorter
  <2> HIDE DEF m, n
  <2>4. /\ SubSeq(s, 1, m) \in Seq(S) /\ Len(SubSeq(s, 1, m)) = m
        /\ \A i \in 1..m : SubSeq(s, 1, m)[i] = s[i]
    BY <2>1, SubSeqProperties
  <2>5. SubSeq(s, 1, m) = Shorter(s, n)
    BY <2>2, <2>3, <2>4, SeqEqual
  <2> QED BY <2>5 DEF m
<1>4. Head(s) = s[1]
  OBVIOUS
<1>5. Sequence!Front(s) = Shorter(s, n) /\ Sequence!Last(s) = s[n]
  BY <1>3 DEF Sequence!Front, Sequence!Last
<1> QED BY <1>1, <1>2, <1>4, <1>5

\* The data of a chain.
Contents(f, k) == [i \in 1..k |-> data[f[i]]]

\* The data of a chain is a sequence of data.
LEMMA ContentsType ==
    ASSUME ListTypes, NEW f, NEW k, NEW p, NEW h, NEW e, Leads(f, k, p, h, e, used)
    PROVE  /\ Contents(f, k) \in Seq(Data) /\ Len(Contents(f, k)) = k /\ k \in Nat
           /\ \A i \in 1..k : Contents(f, k)[i] = data[f[i]] /\ data[f[i]] \in Data
<1>1. k \in Nat /\ \A i \in 1..k : data[f[i]] \in Data
  BY DEF Leads, ListTypes
<1> QED BY <1>1 DEF Contents

\* What an insertion at either end does to it, ...
LEMMA ContentsLonger ==
    ASSUME ListTypes, NEW f, NEW k, NEW p, NEW h, NEW e, Leads(f, k, p, h, e, used),
           NEW c \in Cells \ used, NEW d \in Data, data' = [data EXCEPT ![c] = d]
    PROVE  /\ Contents(With(f, k, 0, c), k + 1)' = <<d>> \o Contents(f, k)
           /\ Contents(With(f, k, k, c), k + 1)' = Append(Contents(f, k), d)
<1> DEFINE s == Contents(f, k)
<1>1. /\ s \in Seq(Data) /\ Len(s) = k /\ k \in Nat
      /\ \A i \in 1..k : s[i] = data[f[i]]
  BY ContentsType
<1> HIDE DEF s
<1>2. \A i \in 1..k : f[i] \in used /\ f[i] # c
  BY DEF Leads
<1>3. data'[c] = d /\ \A i \in 1..k : data'[f[i]] = s[i]
  BY <1>1, <1>2 DEF ListTypes
<1>4. Contents(With(f, k, 0, c), k + 1)' = <<d>> \o s
  <2> DEFINE g == With(f, k, 0, c)
             t == [i \in 1..(k + 1) |-> data'[g[i]]]
  <2>1. /\ <<d>> \o s \in Seq(Data) /\ Len(<<d>> \o s) = k + 1
        /\ \A i \in 1..(k + 1) : (<<d>> \o s)[i] = IF i = 1 THEN d ELSE s[i - 1]
    BY <1>1
  <2>2. ASSUME NEW i \in 1..(k + 1) PROVE t[i] = (<<d>> \o s)[i]
    <3>1. CASE i = 1
      BY <1>1, <1>3, <2>1, <3>1 DEF With
    <3>2. CASE i # 1
      <4>1. i - 1 \in 1..k /\ ~ (i <= 0) /\ i # 0 + 1 /\ i \in 0..(k + 1)
        BY <1>1, <3>2
      <4>2. g[i] = f[i - 1]
        BY <4>1 DEF With
      <4> QED BY <1>3, <2>1, <3>2, <4>1, <4>2
    <3> QED BY <3>1, <3>2
  <2>3. t = <<d>> \o s
    <3>1. DOMAIN (<<d>> \o s) = 1..(k + 1) /\ DOMAIN t = 1..(k + 1)
      BY <2>1
    <3>2. t \in Seq(Data) /\ Len(t) = k + 1
      <4>1. \A i \in 1..(k + 1) : t[i] \in Data
        BY <2>1, <2>2
      <4>2. t = [i \in 1..(k + 1) |-> t[i]]
        OBVIOUS
      <4> HIDE DEF t
      <4> QED BY <1>1, <4>1, <4>2
    <3> HIDE DEF t
    <3> QED BY <2>1, <2>2, <3>2, SeqEqual
  <2> QED BY <2>3 DEF Contents
<1>5. Contents(With(f, k, k, c), k + 1)' = Append(s, d)
  <2> DEFINE g == With(f, k, k, c)
             t == [i \in 1..(k + 1) |-> data'[g[i]]]
  <2>1. /\ Append(s, d) \in Seq(Data) /\ Len(Append(s, d)) = k + 1
        /\ \A i \in 1..(k + 1) : Append(s, d)[i] = IF i = k + 1 THEN d ELSE s[i]
    <3>1. /\ Append(s, d) \in Seq(Data) /\ Len(Append(s, d)) = k + 1
          /\ Append(s, d)[k + 1] = d /\ \A i \in 1..k : Append(s, d)[i] = s[i]
      BY <1>1
    <3>2. \A i \in 1..(k + 1) : i = k + 1 \/ i \in 1..k
      BY <1>1
    <3> QED BY <3>1, <3>2
  <2>2. ASSUME NEW i \in 1..(k + 1) PROVE t[i] = IF i = k + 1 THEN d ELSE s[i]
    <3>1. CASE i = k + 1
      <4>1. ~ (i <= k) /\ i \in 0..(k + 1)
        BY <1>1, <3>1
      <4> QED BY <1>3, <3>1, <4>1 DEF With
    <3>2. CASE i # k + 1
      <4>1. i \in 1..k /\ i <= k /\ i \in 0..(k + 1)
        BY <1>1, <3>2
      <4>2. g[i] = f[i]
        BY <4>1 DEF With
      <4> QED BY <1>3, <3>2, <4>1, <4>2
    <3> QED BY <3>1, <3>2
  <2>3. t \in Seq(Data) /\ Len(t) = k + 1
    <3>1. \A i \in 1..(k + 1) : t[i] \in Data
      <4>1. \A i \in 1..(k + 1) : i # k + 1 => s[i] \in Data
        BY <1>1
      <4> QED BY <2>2, <4>1
    <3>2. t = [i \in 1..(k + 1) |-> t[i]]
      OBVIOUS
    <3> HIDE DEF t
    <3> QED BY <1>1, <3>1, <3>2
  <2>4. Contents(g, k + 1)' = t
    BY DEF Contents
  <2> HIDE DEF g, t
  <2>5. t = Append(s, d)
    BY <2>1, <2>2, <2>3, SeqEqual
  <2> QED BY <2>4, <2>5 DEF g
<1> QED BY <1>4, <1>5 DEF s

\* ... and a removal anywhere.
LEMMA ContentsShorter ==
    ASSUME ListTypes, NEW f, NEW k, NEW p, NEW h, NEW e, Leads(f, k, p, h, e, used),
           NEW r \in 1..k, data' = [data EXCEPT ![f[r]] = Null]
    PROVE  Contents(Without(f, k, r), k - 1)' = Shorter(Contents(f, k), r)
<1> DEFINE s == Contents(f, k)
           g == Without(f, k, r)
<1>1. /\ Len(s) = k /\ k \in Nat
      /\ \A i \in 1..k : s[i] = data[f[i]]
  BY ContentsType
<1> HIDE DEF s
<1>2. \A i \in 1..k : i # r => data'[f[i]] = s[i]
  <2>1. \A i \in 1..k : f[i] \in Cells
    BY DEF Leads, ListTypes
  <2>2. \A i \in 1..k : i # r => f[i] # f[r]
    <3>1. \A i \in 1..k : i \in 0..k
      BY <1>1
    <3> QED BY <3>1 DEF Leads
  <2> QED BY <1>1, <2>1, <2>2 DEF ListTypes
<1>3. ASSUME NEW i \in 1..(k - 1) PROVE data'[g[i]] = IF i < r THEN s[i] ELSE s[i + 1]
  <2>1. i \in 0..(k - 1) /\ i \in 1..k /\ i + 1 \in 1..k
    BY <1>1
  <2>2. CASE i < r
    <3>1. i # r
      BY <2>2
    <3> QED BY <1>2, <2>1, <2>2, <3>1 DEF Without
  <2>3. CASE ~ (i < r)
    <3>1. i + 1 # r
      BY <1>1, <2>3
    <3> QED BY <1>2, <2>1, <2>3, <3>1 DEF Without
  <2> QED BY <2>2, <2>3
<1>4. Contents(g, k - 1)' = [i \in 1..(k - 1) |-> IF i < r THEN s[i] ELSE s[i + 1]]
  <2>1. Contents(g, k - 1)' = [i \in 1..(k - 1) |-> data'[g[i]]]
    BY DEF Contents
  <2> QED BY <1>3, <2>1
<1>5. Shorter(s, r) = [i \in 1..(k - 1) |-> IF i < r THEN s[i] ELSE s[i + 1]]
  BY <1>1 DEF Shorter
<1> QED BY <1>4, <1>5 DEF s

\* Where the list leads, and what a walk has seen of it: during fini it is as if the
\* head led to the cursor.
ChainNow(f, k) ==
    /\ walk.kind # "fini" => Doubly(f, k)
    /\ walk.kind = "fini" =>
          Leads(f, k, [next EXCEPT ![HeadNode] = walk.cursor], HeadNode, TailNode, used)

PassedUp(f, k) ==
    \E j \in 0..k :
        /\ walk.cursor = next[f[j]]
        /\ \A i \in 1..j : data[f[i]] # walk.want

PassedDown(f, k) ==
    \E j \in 0..k :
        /\ walk.cursor = f[j]
        /\ \A i \in 1..k : j < i => data[f[i]] # walk.want

Position(f, k) ==
    /\ ChainNow(f, k)
    /\ walk.kind \in {"first", "all"} => PassedUp(f, k)
    /\ walk.kind = "last" => PassedDown(f, k)

WalkTypes ==
    \/ walk = NoWalk
    \/ walk \in [kind : {"first", "last", "all"}, want : Data, cursor : Nodes]
    \/ walk \in [kind : {"fini"}, want : {Null}, cursor : Nodes]

ListInv == ListTypes /\ WalkTypes /\ \E f, k : Position(f, k)

\* The path the list is read along is its chain, ...
LEMMA PathOfList ==
    ASSUME NEW f, NEW k, NEW p, NEW C \in SUBSET Cells, Leads(f, k, p, HeadNode, TailNode, C)
    PROVE  Path(p[HeadNode], p) = [i \in 1..k |-> f[i]]
<1>1. PICK q : q = p
  OBVIOUS
<1>2. \A i \in 1..k : q[f[i]] = p[f[i]]
  BY <1>1
<1>3. Path(p[HeadNode], q) = [i \in 1..k |-> f[i]]
  BY <1>2, NodesDiffer, PathOfChain
<1> QED BY <1>1, <1>3

\* ... in fini as well.
LEMMA PathOfRest ==
    ASSUME NEW f, NEW k, NEW p, NEW C \in SUBSET Cells, NEW r,
           Leads(f, k, r, HeadNode, TailNode, C), \A n \in Cells : r[n] = p[n]
    PROVE  Path(r[HeadNode], p) = [i \in 1..k |-> f[i]]
<1>1. \A i \in 1..k : p[f[i]] = r[f[i]]
  BY DEF Leads
<1> QED BY <1>1, NodesDiffer, PathOfChain

\* A push keeps the list doubly linked and adds its datum at an end, or, without
\* memory, leaves the list alone.
LEMMA PushKeeps ==
    ASSUME ListTypes, NEW f, NEW k, Doubly(f, k), NEW d \in Data, PushFront(d) \/ PushBack(d)
    PROVE  /\ ListTypes' /\ walk = NoWalk /\ UNCHANGED <<walk, popped>>
           /\ \E g, l :
                 /\ Doubly(g, l)'
                 /\ \/ Contents(g, l)' = Contents(f, k)
                    \/ PushFront(d) /\ Contents(g, l)' = <<d>> \o Contents(f, k)
                    \/ PushBack(d) /\ Contents(g, l)' = Append(Contents(f, k), d)
<1>1. /\ Leads(f, k, next, HeadNode, TailNode, used) /\ k \in Nat /\ k \in 0..k /\ 0 \in 0..k
      /\ f[0] = HeadNode
  BY DEF Doubly, Leads
<1>2. prev[TailNode] = f[k]
  <2>1. next[f[k]] = TailNode
    BY <1>1 DEF Leads
  <2>2. f[k] \in used \cup {HeadNode}
    BY <1>1, NodesDiffer, LeadsNext DEF ListTypes
  <2> QED BY <2>1, <2>2 DEF Doubly
<1>3. CASE UNCHANGED <<next, prev, data, count, used>>
  <2>1. Doubly(f, k)' /\ Contents(f, k)' = Contents(f, k) /\ ListTypes'
    BY <1>3 DEF Doubly, Contents, ListTypes
  <2> QED BY <2>1 DEF PushFront, PushBack, Calling
<1>4. CASE PushFront(d) /\ ~ UNCHANGED <<next, prev, data, count, used>>
  <2>1. Insert(f[0], d)
    BY <1>1, <1>4 DEF PushFront
  <2>2. /\ ListTypes'
        /\ \E c \in Cells \ used :
              /\ Doubly(With(f, k, 0, c), k + 1)' /\ data' = [data EXCEPT ![c] = d]
    BY <1>1, <1>4, <2>1, InsertDoubly
  <2>3. PICK c \in Cells \ used :
              /\ Doubly(With(f, k, 0, c), k + 1)' /\ data' = [data EXCEPT ![c] = d]
    BY <2>2
  <2>4. Contents(With(f, k, 0, c), k + 1)' = <<d>> \o Contents(f, k)
    BY <1>1, <2>3, ContentsLonger
  <2> QED BY <1>4, <2>2, <2>3, <2>4 DEF PushFront, Calling
<1>5. CASE PushBack(d) /\ ~ UNCHANGED <<next, prev, data, count, used>>
  <2>1. Insert(f[k], d)
    BY <1>2, <1>5 DEF PushBack
  <2>2. /\ ListTypes'
        /\ \E c \in Cells \ used :
              /\ Doubly(With(f, k, k, c), k + 1)' /\ data' = [data EXCEPT ![c] = d]
    BY <1>1, <1>5, <2>1, InsertDoubly
  <2>3. PICK c \in Cells \ used :
              /\ Doubly(With(f, k, k, c), k + 1)' /\ data' = [data EXCEPT ![c] = d]
    BY <2>2
  <2>4. Contents(With(f, k, k, c), k + 1)' = Append(Contents(f, k), d)
    BY <1>1, <2>3, ContentsLonger
  <2> QED BY <1>5, <2>2, <2>3, <2>4 DEF PushBack, Calling
<1> QED BY <1>3, <1>4, <1>5

\* A pop keeps the list doubly linked and takes the datum at an end.
LEMMA PopKeeps ==
    ASSUME ListTypes, NEW f, NEW k, Doubly(f, k), PopFront \/ PopBack
    PROVE  /\ ListTypes' /\ walk = NoWalk /\ UNCHANGED walk /\ Contents(f, k) # <<>>
           /\ \E g, l :
                 /\ Doubly(g, l)'
                 /\ \/ /\ popped' = Head(Contents(f, k))
                       /\ Contents(g, l)' = Tail(Contents(f, k))
                    \/ /\ popped' = Sequence!Last(Contents(f, k))
                       /\ Contents(g, l)' = Sequence!Front(Contents(f, k))
<1> DEFINE s == Contents(f, k)
<1>1. /\ Leads(f, k, next, HeadNode, TailNode, used) /\ k \in Nat \ {0} /\ k \in 1..k /\ 1 \in 1..k
      /\ f[0] = HeadNode
  BY DEF Doubly, Leads, PopFront, PopBack
<1>2. /\ s \in Seq(Data) /\ Len(s) = k
      /\ \A i \in 1..k : s[i] = data[f[i]]
  BY <1>1, ContentsType
<1>3. s # <<>>
  BY <1>1, <1>2
<1>4. prev[TailNode] = f[k] /\ next[HeadNode] = f[1]
  <2>1. next[f[k]] = TailNode /\ next[HeadNode] = f[1]
    BY <1>1 DEF Leads
  <2>2. f[k] \in used \cup {HeadNode}
    BY <1>1, NodesDiffer, LeadsNext DEF ListTypes
  <2> QED BY <2>1, <2>2 DEF Doubly
<1>5. /\ Tail(s) = Shorter(s, 1) /\ Head(s) = s[1]
      /\ Sequence!Front(s) = Shorter(s, k) /\ Sequence!Last(s) = s[k]
  BY <1>2, <1>3, ShorterAtAnEnd
<1>6. \A r \in 1..k : Remove(f[r]) =>
         /\ ListTypes' /\ Doubly(Without(f, k, r), k - 1)'
         /\ popped' = s[r] /\ Contents(Without(f, k, r), k - 1)' = Shorter(s, r)
  <2> TAKE r \in 1..k
  <2> SUFFICES ASSUME Remove(f[r])
               PROVE  /\ ListTypes' /\ Doubly(Without(f, k, r), k - 1)'
                      /\ popped' = s[r] /\ Contents(Without(f, k, r), k - 1)' = Shorter(s, r)
    OBVIOUS
  <2>1. /\ ListTypes' /\ Doubly(Without(f, k, r), k - 1)'
        /\ data' = [data EXCEPT ![f[r]] = Null] /\ popped' = data[f[r]]
    BY RemoveDoubly
  <2>2. Contents(Without(f, k, r), k - 1)' = Shorter(s, r)
    BY <1>1, <2>1, ContentsShorter
  <2> QED BY <1>2, <2>1, <2>2
<1> HIDE DEF s
<1>7. CASE PopFront
  <2>1. Remove(f[1])
    BY <1>4, <1>7 DEF PopFront
  <2> QED BY <1>1, <1>3, <1>5, <1>6, <1>7, <2>1 DEF PopFront, Calling, s
<1>8. CASE PopBack
  <2>1. Remove(f[k])
    BY <1>4, <1>8 DEF PopBack
  <2> QED BY <1>1, <1>3, <1>5, <1>6, <1>8, <2>1 DEF PopBack, Calling, s
<1> QED BY <1>7, <1>8

\* A removal by value begins, or fini.
LEMMA BeginKeeps ==
    ASSUME ListTypes, NEW f, NEW k, Doubly(f, k), NEW kind, NEW d,
           (kind \in {"first", "last", "all"} /\ d \in Data) \/ (kind = "fini" /\ d = Null),
           BeginWalk(kind, d)
    PROVE  /\ ListTypes' /\ WalkTypes' /\ Position(f, k)'
           /\ walk = NoWalk /\ walk'.kind = kind /\ walk'.want = d
           /\ popped' = popped /\ Contents(f, k)' = Contents(f, k)
<1>1. /\ Leads(f, k, next, HeadNode, TailNode, used) /\ k \in Nat /\ k \in 0..k /\ 0 \in 0..k
      /\ f[0] = HeadNode /\ HeadNode \notin used
  BY NodesDiffer DEF Doubly, Leads, ListTypes
<1>2. prev[TailNode] = f[k] /\ f[k] \in Nodes /\ next[HeadNode] \in Nodes
  <2>1. next[f[k]] = TailNode
    BY <1>1 DEF Leads
  <2>2. f[k] \in used \cup {HeadNode} /\ next[HeadNode] \in used \cup {TailNode}
    BY <1>1, LeadsNext
  <2> QED BY <2>1, <2>2, NodesDiffer DEF Doubly, ListTypes
<1>3. /\ walk = NoWalk /\ UNCHANGED <<next, prev, data, count, used, popped>>
      /\ walk' = [kind |-> kind, want |-> d,
                  cursor |-> IF kind = "last" THEN prev[TailNode] ELSE next[HeadNode]]
  BY DEF BeginWalk, Calling
<1>4. WalkTypes'
  <2>1. (IF kind = "last" THEN prev[TailNode] ELSE next[HeadNode]) \in Nodes
    BY <1>2
  <2> QED BY <1>3, <2>1 DEF WalkTypes
<1>5. ListTypes' /\ Doubly(f, k)' /\ Contents(f, k)' = Contents(f, k)
  BY <1>3 DEF ListTypes, Doubly, Contents
<1>6. ChainNow(f, k)'
  <2>1. CASE kind = "fini"
    <3>1. [next' EXCEPT ![HeadNode] = walk'.cursor] = next
      BY <1>3, <2>1 DEF ListTypes
    <3> QED BY <1>1, <1>3, <2>1, <3>1 DEF ChainNow
  <2>2. CASE kind # "fini"
    BY <1>3, <1>5, <2>2 DEF ChainNow
  <2> QED BY <2>1, <2>2
<1>7. walk'.kind \in {"first", "all"} => PassedUp(f, k)'
  <2>1. kind # "last" => walk'.cursor = next'[f[0]]
    BY <1>1, <1>3
  <2>2. 1..0 = {}
    OBVIOUS
  <2>3. walk'.kind = kind
    BY <1>3
  <2>4. kind # "last" => PassedUp(f, k)'
    BY <1>1, <2>1, <2>2 DEF PassedUp
  <2> QED BY <2>3, <2>4
<1>8. walk'.kind = "last" => PassedDown(f, k)'
  <2>1. kind = "last" => walk'.cursor = f[k]
    BY <1>2, <1>3
  <2>2. \A i \in 1..k : ~ (k < i)
    BY <1>1
  <2>3. kind = "last" => PassedDown(f, k)'
    BY <1>1, <2>1, <2>2 DEF PassedDown
  <2> QED BY <1>3, <2>3
<1> QED BY <1>3, <1>4, <1>5, <1>6, <1>7, <1>8 DEF Position

\* The walk ends.
LEMMA EndKeeps ==
    ASSUME ListTypes, WalkTypes, NEW f, NEW k, Position(f, k), EndWalk
    PROVE  /\ ListTypes' /\ WalkTypes' /\ Position(f, k)'
           /\ walk.kind \in {"first", "last", "all", "fini"} /\ walk' = NoWalk
           /\ popped' = popped /\ Contents(f, k)' = Contents(f, k)
           /\ \A i \in 1..k : Contents(f, k)[i] # walk.want
           /\ walk.kind = "fini" => k = 0
<1> USE NodesDiffer
<1>1. /\ walk.cursor \in {HeadNode, TailNode} /\ walk' = NoWalk
      /\ UNCHANGED <<data, used, popped>> /\ Contents(f, k)' = Contents(f, k)
  BY DEF EndWalk, Contents
<1>2. walk # NoWalk
  BY <1>1 DEF NoWalk
<1>3. WalkTypes'
  BY <1>1 DEF WalkTypes
<1>4. CASE walk.kind = "fini"
  <2> DEFINE p == [next EXCEPT ![HeadNode] = walk.cursor]
  <2>1. Leads(f, k, p, HeadNode, TailNode, used) /\ HeadNode \notin used
    BY <1>4 DEF Position, ChainNow, ListTypes
  <2>2. p[HeadNode] = walk.cursor
    BY DEF ListTypes
  <2> HIDE DEF p
  <2>3. k \in Nat /\ 0 \in 0..k /\ f[0] = HeadNode
    BY <2>1 DEF Leads
  <2>4. k = 0
    <3>1. SUFFICES ASSUME k # 0 PROVE FALSE
      OBVIOUS
    <3>2. p[f[0]] = f[1] /\ f[1] \in used
      BY <2>1, <2>3, <3>1 DEF Leads
    <3> QED BY <1>1, <2>2, <2>3, <3>2 DEF ListTypes
  <2>5. used = {}
    BY <2>1, <2>4 DEF Leads
  <2>6. next' = EmptyNext /\ prev' = EmptyPrev /\ count' = 0
    BY <1>4 DEF EndWalk
  <2>7. ListTypes'
    BY <1>1, <2>5, <2>6 DEF ListTypes, EmptyNext, EmptyPrev, Linkable
  <2>8. Leads(f, k, next', HeadNode, TailNode, used')
    <3>1. next'[f[0]] = TailNode
      BY <2>3, <2>6 DEF EmptyNext
    <3>2. used' = used
      BY <1>1
    <3> QED BY <2>1, <2>4, <3>1, <3>2 DEF Leads
  <2>9. Doubly(f, k)'
    <3>1. prev'[next'[HeadNode]] = HeadNode
      BY <2>6 DEF EmptyNext, EmptyPrev
    <3> QED BY <1>1, <2>4, <2>5, <2>6, <2>8, <3>1 DEF Doubly
  <2>10. Position(f, k)'
    BY <1>1, <2>9 DEF Position, ChainNow, NoWalk
  <2> QED BY <1>1, <1>3, <1>4, <2>4, <2>7, <2>10
<1>5. CASE walk.kind # "fini"
  <2>1. UNCHANGED <<next, prev, count>> /\ Doubly(f, k) /\ walk.kind \in {"first", "last", "all"}
    BY <1>2, <1>5 DEF EndWalk, Position, ChainNow, WalkTypes
  <2>2. Leads(f, k, next, HeadNode, TailNode, used) /\ HeadNode \notin used
    BY <2>1 DEF Doubly, ListTypes
  <2>3. ListTypes' /\ Doubly(f, k)'
    BY <1>1, <2>1 DEF ListTypes, Doubly
  <2>4. Position(f, k)'
    BY <1>1, <2>3 DEF Position, ChainNow, NoWalk
  <2>5. \A i \in 1..k : data[f[i]] # walk.want
    <3>1. CASE walk.kind \in {"first", "all"}
      <4>1. PICK j \in 0..k : walk.cursor = next[f[j]] /\ \A i \in 1..j : data[f[i]] # walk.want
        BY <3>1 DEF Position, PassedUp
      <4>2. j = k
        <5>1. SUFFICES ASSUME j # k PROVE FALSE
          OBVIOUS
        <5>2. k \in Nat
          BY <2>2 DEF Leads
        <5>3. j < k /\ j + 1 \in 1..k
          BY <5>1, <5>2
        <5>4. next[f[j]] = f[j + 1] /\ f[j + 1] \in used
          BY <2>2, <5>3 DEF Leads
        <5> QED BY <1>1, <4>1, <5>4 DEF ListTypes
      <4> QED BY <4>1, <4>2
    <3>2. CASE walk.kind = "last"
      <4>1. PICK j \in 0..k : walk.cursor = f[j] /\ \A i \in 1..k : j < i => data[f[i]] # walk.want
        BY <3>2 DEF Position, PassedDown
      <4>2. j = 0
        <5>1. SUFFICES ASSUME j # 0 PROVE FALSE
          OBVIOUS
        <5>2. j \in 1..k
          BY <5>1
        <5>3. f[j] \in used
          BY <2>2, <5>2 DEF Leads
        <5> QED BY <1>1, <4>1, <5>3 DEF ListTypes
      <4>3. \A i \in 1..k : j < i
        BY <4>2
      <4> QED BY <4>1, <4>3
    <3> QED BY <2>1, <3>1, <3>2
  <2>6. \A i \in 1..k : Contents(f, k)[i] # walk.want
    BY <2>5 DEF Contents
  <2> QED BY <1>1, <1>3, <1>5, <2>1, <2>3, <2>4, <2>6
<1> QED BY <1>4, <1>5

\* The cell under the cursor.
LEMMA CursorAt ==
    ASSUME ListTypes, NEW f, NEW k, Position(f, k), walk.kind # "fini", walk.cursor \in used
    PROVE  /\ walk.kind \in {"first", "all"} =>
                 \E r \in 1..k : /\ walk.cursor = f[r]
                                 /\ \A i \in 1..(r - 1) : data[f[i]] # walk.want
           /\ walk.kind = "last" =>
                 \E r \in 1..k : /\ walk.cursor = f[r]
                                 /\ \A i \in 1..k : r < i => data[f[i]] # walk.want
<1>1. /\ Leads(f, k, next, HeadNode, TailNode, used) /\ k \in Nat
      /\ HeadNode \notin used /\ TailNode \notin used
  BY NodesDiffer DEF Position, ChainNow, Doubly, Leads, ListTypes
<1>2. ASSUME walk.kind \in {"first", "all"}
      PROVE  \E r \in 1..k : /\ walk.cursor = f[r]
                             /\ \A i \in 1..(r - 1) : data[f[i]] # walk.want
  <2>1. PICK j \in 0..k : walk.cursor = next[f[j]] /\ \A i \in 1..j : data[f[i]] # walk.want
    BY <1>2 DEF Position, PassedUp
  <2>2. j # k
    BY <1>1, <2>1 DEF Leads
  <2>3. j < k /\ j + 1 \in 1..k /\ (j + 1) - 1 = j
    BY <1>1, <2>2
  <2>4. walk.cursor = f[j + 1]
    BY <1>1, <2>1, <2>3 DEF Leads
  <2> QED BY <2>1, <2>3, <2>4
<1>3. ASSUME walk.kind = "last"
      PROVE  \E r \in 1..k : /\ walk.cursor = f[r]
                             /\ \A i \in 1..k : r < i => data[f[i]] # walk.want
  <2>1. PICK j \in 0..k : walk.cursor = f[j] /\ \A i \in 1..k : j < i => data[f[i]] # walk.want
    BY <1>3 DEF Position, PassedDown
  <2>2. j # 0
    BY <1>1, <2>1 DEF Leads
  <2>3. j \in 1..k
    BY <1>1, <2>2
  <2> QED BY <2>1, <2>3
<1> QED BY <1>2, <1>3

\* A round of the loop that removes nothing.
LEMMA RoundPasses ==
    ASSUME ListTypes, WalkTypes, NEW f, NEW k, Position(f, k), Step,
           walk.kind # "fini", data[walk.cursor] # walk.want
    PROVE  /\ ListTypes' /\ WalkTypes' /\ Position(f, k)'
           /\ walk'.kind = walk.kind /\ walk'.want = walk.want /\ popped' = popped
           /\ Contents(f, k)' = Contents(f, k)
<1> USE NodesDiffer
<1>1. /\ walk.cursor \in used
      /\ UNCHANGED <<next, prev, data, count, used, popped>>
      /\ walk' = [walk EXCEPT !.cursor = Onward(walk.cursor)]
  BY DEF Step
<1>2. walk # NoWalk
  BY <1>1 DEF NoWalk, ListTypes
<1>3. walk \in [kind : {"first", "last", "all"}, want : Data, cursor : Nodes]
  BY <1>2 DEF WalkTypes
<1>4. /\ Leads(f, k, next, HeadNode, TailNode, used) /\ k \in Nat /\ HeadNode \notin used
      /\ Doubly(f, k)
  BY DEF Position, ChainNow, Doubly, Leads, ListTypes
<1>5. ListTypes' /\ Doubly(f, k)' /\ Contents(f, k)' = Contents(f, k)
  BY <1>1, <1>4 DEF ListTypes, Doubly, Contents
<1>6. \A n \in Nodes : walk' = [walk EXCEPT !.cursor = n] =>
         WalkTypes' /\ walk'.kind = walk.kind /\ walk'.want = walk.want /\ walk'.cursor = n
  BY <1>3 DEF WalkTypes
<1>7. CASE walk.kind \in {"first", "all"}
  <2>1. PICK r \in 1..k : walk.cursor = f[r] /\ \A i \in 1..(r - 1) : data[f[i]] # walk.want
    BY <1>1, <1>7, CursorAt
  <2>2. next[f[r]] \in Nodes
    <3>1. next[f[r]] \in used \cup {TailNode}
      BY <1>1, <1>4, <2>1, LeadsNext
    <3> QED BY <3>1 DEF ListTypes
  <2>3. walk' = [walk EXCEPT !.cursor = next[f[r]]]
    BY <1>1, <1>7, <2>1 DEF Onward
  <2>4. WalkTypes' /\ walk'.kind = walk.kind /\ walk'.want = walk.want /\ walk'.cursor = next[f[r]]
    BY <1>6, <2>2, <2>3
  <2>5. PassedUp(f, k)'
    <3>1. r \in 0..k /\ walk'.cursor = next'[f[r]]
      BY <1>1, <2>4
    <3>2. \A i \in 1..r : data'[f[i]] # walk'.want
      <4>1. \A i \in 1..r : i = r \/ i \in 1..(r - 1)
        BY <1>4
      <4> QED BY <1>1, <2>1, <2>4, <4>1
    <3> QED BY <3>1, <3>2 DEF PassedUp
  <2>6. Position(f, k)'
    BY <1>5, <1>7, <2>4, <2>5 DEF Position, ChainNow
  <2> QED BY <1>1, <1>5, <2>4, <2>6
<1>8. CASE walk.kind = "last"
  <2>1. PICK r \in 1..k : walk.cursor = f[r] /\ \A i \in 1..k : r < i => data[f[i]] # walk.want
    BY <1>1, <1>8, CursorAt
  <2>2. r - 1 \in 0..k /\ r - 1 < k /\ (r - 1) + 1 = r /\ \A i \in 1..k : r - 1 < i => i = r \/ r < i
    BY <1>4
  <2>3. prev[f[r]] = f[r - 1] /\ f[r - 1] \in Nodes
    <3>1. next[f[r - 1]] = f[r]
      BY <1>4, <2>2 DEF Leads
    <3>2. f[r - 1] \in used \cup {HeadNode}
      BY <1>4, <2>2, LeadsNext
    <3> QED BY <1>4, <3>1, <3>2 DEF Doubly, ListTypes
  <2>4. walk' = [walk EXCEPT !.cursor = f[r - 1]]
    BY <1>1, <1>8, <2>1, <2>3 DEF Onward
  <2>5. WalkTypes' /\ walk'.kind = walk.kind /\ walk'.want = walk.want /\ walk'.cursor = f[r - 1]
    BY <1>6, <2>3, <2>4
  <2>6. PassedDown(f, k)'
    <3>1. \A i \in 1..k : r - 1 < i => data'[f[i]] # walk'.want
      BY <1>1, <2>1, <2>2, <2>5
    <3> QED BY <2>2, <2>5, <3>1 DEF PassedDown
  <2>7. Position(f, k)'
    BY <1>5, <1>8, <2>5, <2>6 DEF Position, ChainNow
  <2> QED BY <1>1, <1>5, <2>5, <2>7
<1> QED BY <1>3, <1>7, <1>8

\* A round that removes what it was to look for.
LEMMA RoundRemoves ==
    ASSUME ListTypes, WalkTypes, NEW f, NEW k, Position(f, k), Step,
           walk.kind # "fini", data[walk.cursor] = walk.want
    PROVE  LET s == Contents(f, k) IN
           /\ ListTypes' /\ WalkTypes'
           /\ \E r \in 1..k :
                 /\ Position(Without(f, k, r), k - 1)'
                 /\ Contents(Without(f, k, r), k - 1)' = Shorter(s, r)
                 /\ popped' = s[r] /\ walk.want = s[r] /\ s[r] \in Data
                 /\ \/ /\ walk.kind = "first" /\ walk' = NoWalk
                       /\ \A i \in 1..(r - 1) : s[i] # s[r]
                    \/ /\ walk.kind = "last" /\ walk' = NoWalk
                       /\ \A i \in 1..k : r < i => s[i] # s[r]
                    \/ /\ walk.kind = "all" /\ walk'.kind = "all" /\ walk'.want = walk.want
                       /\ \A i \in 1..(r - 1) : s[i] # s[r]
<1> USE NodesDiffer
<1> DEFINE s == Contents(f, k)
           U(r) == \A i \in 1..(r - 1) : s[i] # s[r]
           D(r) == \A i \in 1..k : r < i => s[i] # s[r]
<1>1. /\ walk.cursor \in used /\ Remove(walk.cursor)
      /\ walk' = IF walk.kind \in {"first", "last"}
                 THEN NoWalk ELSE [walk EXCEPT !.cursor = Onward(walk.cursor)]
  BY DEF Step
<1>2. walk # NoWalk
  BY <1>1 DEF NoWalk, ListTypes
<1>3. walk \in [kind : {"first", "last", "all"}, want : Data, cursor : Nodes]
  BY <1>2 DEF WalkTypes
<1>4. /\ Leads(f, k, next, HeadNode, TailNode, used) /\ k \in Nat /\ HeadNode \notin used
      /\ Doubly(f, k)
  BY DEF Position, ChainNow, Doubly, Leads, ListTypes
<1>5. \A i \in 1..k : s[i] = data[f[i]] /\ s[i] \in Data
  BY <1>4, ContentsType
<1>6. PICK r \in 1..k : /\ walk.cursor = f[r]
                        /\ walk.kind \in {"first", "all"} => U(r)
                        /\ walk.kind = "last" => D(r)
  <2>1. \A r \in 1..k : walk.cursor = f[r] => s[r] = walk.want
    BY <1>5
  <2>2. CASE walk.kind \in {"first", "all"}
    <3>1. PICK r \in 1..k : walk.cursor = f[r] /\ \A i \in 1..(r - 1) : data[f[i]] # walk.want
      BY <1>1, <2>2, CursorAt
    <3>2. \A i \in 1..(r - 1) : i \in 1..k
      BY <1>4
    <3>3. U(r)
      BY <1>5, <2>1, <3>1, <3>2
    <3> QED BY <2>2, <3>1, <3>3
  <2>3. CASE walk.kind = "last"
    <3>1. PICK r \in 1..k : walk.cursor = f[r] /\ \A i \in 1..k : r < i => data[f[i]] # walk.want
      BY <1>1, <2>3, CursorAt
    <3>2. D(r)
      BY <1>5, <2>1, <3>1
    <3> QED BY <2>3, <3>1, <3>2
  <2> QED BY <1>3, <2>2, <2>3
<1> DEFINE g == Without(f, k, r)
<1>7. /\ ListTypes' /\ Doubly(g, k - 1)'
      /\ data' = [data EXCEPT ![f[r]] = Null] /\ popped' = data[f[r]]
      /\ next'[f[r - 1]] = next[f[r]]
  BY <1>1, <1>4, <1>6, RemoveDoubly
<1>8. Contents(g, k - 1)' = Shorter(s, r)
  BY <1>4, <1>7, ContentsShorter
<1>9. popped' = s[r] /\ walk.want = s[r] /\ s[r] \in Data
  BY <1>5, <1>6, <1>7
<1>10. CASE walk.kind \in {"first", "last"}
  <2>1. walk' = NoWalk /\ WalkTypes'
    BY <1>1, <1>10 DEF WalkTypes
  <2>2. Position(g, k - 1)'
    BY <1>7, <2>1 DEF Position, ChainNow, NoWalk
  <2> HIDE DEF s, g, U, D
  <2> QED BY <1>6, <1>7, <1>8, <1>9, <1>10, <2>1, <2>2 DEF s, g, U, D
<1>11. CASE walk.kind = "all"
  <2>1. next[f[r]] \in Nodes
    <3>1. next[f[r]] \in used \cup {TailNode}
      BY <1>1, <1>4, <1>6, LeadsNext
    <3> QED BY <3>1 DEF ListTypes
  <2>2. walk' = [walk EXCEPT !.cursor = next[f[r]]]
    BY <1>1, <1>6, <1>11 DEF Onward
  <2>3. WalkTypes' /\ walk'.kind = "all" /\ walk'.want = walk.want /\ walk'.cursor = next[f[r]]
    BY <1>3, <1>11, <2>1, <2>2 DEF WalkTypes
  <2>4. PassedUp(g, k - 1)'
    <3>1. r - 1 \in 0..(k - 1) /\ r - 1 < r
      BY <1>4
    <3>2. walk'.cursor = next'[g[r - 1]]
      BY <1>7, <2>3, <3>1 DEF Without
    <3>3. \A i \in 1..(r - 1) : data'[g[i]] # walk'.want
      <4> TAKE i \in 1..(r - 1)
      <4>1. i \in 0..(k - 1) /\ i < r /\ i \in 1..k
        BY <1>4
      <4>2. g[i] = f[i]
        BY <4>1 DEF Without
      <4>3. f[i] # f[r] /\ f[i] \in Cells
        <5>1. i \in 0..k /\ r \in 0..k /\ i # r
          BY <1>4, <4>1
        <5> QED BY <1>4, <4>1, <5>1 DEF Leads, ListTypes
      <4>4. data'[f[i]] = data[f[i]]
        BY <1>7, <4>3 DEF ListTypes
      <4>5. s[i] # s[r]
        BY <1>6, <1>11
      <4> QED BY <1>5, <1>9, <2>3, <4>1, <4>2, <4>4, <4>5
    <3> QED BY <3>1, <3>2, <3>3 DEF PassedUp
  <2>5. Position(g, k - 1)'
    BY <1>7, <2>3, <2>4 DEF Position, ChainNow
  <2> HIDE DEF s, g, U, D
  <2> QED BY <1>6, <1>7, <1>8, <1>9, <1>11, <2>3, <2>5 DEF s, g, U, D
<1> QED BY <1>3, <1>10, <1>11

\* A round of fini.
LEMMA RoundFrees ==
    ASSUME ListTypes, WalkTypes, NEW f, NEW k, Position(f, k), Step, walk.kind = "fini"
    PROVE  LET s == Contents(f, k) IN
           /\ ListTypes' /\ WalkTypes' /\ 1 \in 1..k
           /\ Position(Without(f, k, 1), k - 1)'
           /\ Contents(Without(f, k, 1), k - 1)' = Shorter(s, 1)
           /\ popped' = s[1] /\ s[1] \in Data
           /\ walk'.kind = "fini" /\ walk'.want = walk.want /\ walk.want = Null
<1> USE NodesDiffer
<1> DEFINE n == walk.cursor
           p == [next EXCEPT ![HeadNode] = n]
           q == [next' EXCEPT ![HeadNode] = next[n]]
           g == Without(f, k, 1)
<1>1. /\ n \in used /\ FreeCell(n, next, prev) /\ popped' = data[n] /\ UNCHANGED count
      /\ walk' = [walk EXCEPT !.cursor = next[n]]
  BY DEF Step, Onward
<1>2. walk \in [kind : {"fini"}, want : {Null}, cursor : Nodes]
  BY DEF WalkTypes, NoWalk
<1>3. Leads(f, k, p, HeadNode, TailNode, used) /\ HeadNode \notin used
  BY DEF Position, ChainNow, ListTypes
<1>4. k \in Nat /\ 0 \in 0..k /\ f[0] = HeadNode
  BY <1>3 DEF Leads
<1>5. p[HeadNode] = n /\ p[n] = next[n] /\ n \in Cells /\ n \in Nodes
  BY <1>1 DEF ListTypes
<1>6. n = f[1] /\ 1 \in 1..k
  <2> HIDE DEF p, n
  <2>1. k # 0
    BY <1>1, <1>3, <1>4, <1>5 DEF Leads, ListTypes
  <2> QED BY <1>3, <1>4, <1>5, <2>1 DEF Leads
<1>7. next[n] \in Nodes
  <2>1. p[n] \in used \cup {TailNode}
    <3> HIDE DEF p, n
    <3> QED BY <1>1, <1>3, LeadsNext
  <2> QED BY <1>5, <2>1 DEF ListTypes
<1>8. /\ used' = used \ {n} /\ next' = [next EXCEPT ![n] = Null]
      /\ prev' = [prev EXCEPT ![n] = Null] /\ data' = [data EXCEPT ![n] = Null]
  BY <1>1 DEF FreeCell
<1>9. ListTypes'
  BY <1>5, <1>8 DEF ListTypes, Linkable
<1>10. Leads(g, k - 1, q, HeadNode, TailNode, used \ {n})
  <2>1. q[HeadNode] = p[f[1]]
    BY <1>5, <1>6, <1>9 DEF ListTypes
  <2>2. \A i \in 0..k : i \notin {0, 1} => q[f[i]] = p[f[i]]
    <3> TAKE i \in 0..k
    <3> SUFFICES ASSUME i \notin {0, 1} PROVE q[f[i]] = p[f[i]]
      OBVIOUS
    <3>1. f[i] # HeadNode /\ f[i] # n
      <4>1. 1 \in 0..k
        BY <1>6
      <4> HIDE DEF p
      <4> QED BY <1>3, <1>4, <1>6, <4>1 DEF Leads
    <3>2. f[i] \in Nodes
      <4> HIDE DEF p
      <4>1. f[i] \in used \cup {HeadNode}
        BY <1>3, LeadsNext
      <4> QED BY <4>1 DEF ListTypes
    <3> QED BY <1>8, <1>9, <3>1, <3>2 DEF ListTypes
  <2> HIDE DEF p, q, n, g
  <2>3. q[f[1 - 1]] = p[f[1]] /\ \A i \in 0..k : i \notin {1 - 1, 1} => q[f[i]] = p[f[i]]
    <3>1. 1 - 1 = 0
      OBVIOUS
    <3> QED BY <1>4, <2>1, <2>2, <3>1
  <2>4. Leads(Without(f, k, 1), k - 1, q, HeadNode, TailNode, used \ {f[1]})
    BY <1>3, <1>6, <2>3, Unlinked
  <2> QED BY <1>6, <2>4 DEF g
<1>11. /\ WalkTypes' /\ walk'.kind = "fini" /\ walk'.want = walk.want /\ walk.want = Null
       /\ walk'.cursor = next[n]
  BY <1>1, <1>2, <1>7 DEF WalkTypes
<1>12. Position(g, k - 1)'
  <2>1. Leads(g, k - 1, [next' EXCEPT ![HeadNode] = walk'.cursor], HeadNode, TailNode, used')
    BY <1>8, <1>10, <1>11
  <2> QED BY <1>11, <2>1 DEF Position, ChainNow
<1> HIDE DEF p, q
<1>13. Contents(g, k - 1)' = Shorter(Contents(f, k), 1)
  BY <1>3, <1>6, <1>8, ContentsShorter
<1>14. popped' = Contents(f, k)[1] /\ Contents(f, k)[1] \in Data
  BY <1>1, <1>3, <1>6, ContentsType
<1> QED BY <1>6, <1>9, <1>11, <1>12, <1>13, <1>14

\* The list read from its tail.
LEMMA BackwardLeads ==
    ASSUME ListTypes, NEW f, NEW k, Doubly(f, k), NEW b,
           b = [i \in 0..k |-> IF i = 0 THEN TailNode ELSE f[(k + 1) - i]]
    PROVE  Leads(b, k, prev, TailNode, HeadNode, used)
<1> USE NodesDiffer
<1>1. /\ Leads(f, k, next, HeadNode, TailNode, used) /\ k \in Nat
      /\ HeadNode \notin used /\ TailNode \notin used
      /\ \A x \in used \cup {HeadNode} : prev[next[x]] = x
  BY DEF Doubly, Leads, ListTypes
<1>2. /\ f[0] = HeadNode /\ next[f[k]] = TailNode
      /\ \A i \in 1..k : f[i] \in used
      /\ \A x \in used : \E i \in 1..k : f[i] = x
      /\ \A i, j \in 0..k : f[i] = f[j] => i = j
      /\ \A i \in 0..k : i < k => next[f[i]] = f[i + 1]
  BY <1>1 DEF Leads
<1>3. b[0] = TailNode /\ \A i \in 1..k : b[i] = f[(k + 1) - i] /\ b[i] \in used
  <2>1. b[0] = TailNode
    BY <1>1
  <2>2. ASSUME NEW i \in 1..k PROVE b[i] = f[(k + 1) - i] /\ b[i] \in used
    <3>1. (k + 1) - i \in 1..k /\ i \in 0..k /\ i # 0
      BY <1>1
    <3> QED BY <1>2, <3>1
  <2> QED BY <2>1, <2>2
<1>4. \A x \in used : \E i \in 1..k : b[i] = x
  <2> TAKE x \in used
  <2>1. PICK i \in 1..k : f[i] = x
    BY <1>2
  <2>2. (k + 1) - i \in 1..k /\ (k + 1) - ((k + 1) - i) = i
    BY <1>1
  <2> QED BY <1>3, <2>1, <2>2
<1>5. \A i, j \in 0..k : b[i] = b[j] => i = j
  <2> TAKE i, j \in 0..k
  <2>1. (i = 0 \/ i \in 1..k) /\ (j = 0 \/ j \in 1..k)
    BY <1>1
  <2>2. CASE i \in 1..k /\ j \in 1..k
    <3>1. (k + 1) - i \in 0..k /\ (k + 1) - j \in 0..k /\ ((k + 1) - i = (k + 1) - j => i = j)
      BY <1>1, <2>2
    <3> QED BY <1>2, <1>3, <2>2, <3>1
  <2>3. \A m \in 1..k : b[m] # TailNode
    BY <1>1, <1>3
  <2> QED BY <1>3, <2>1, <2>2, <2>3
<1>6. \A i \in 0..k : prev[b[i]] = f[k - i]
  <2> TAKE i \in 0..k
  <2>1. k - i \in 0..k /\ f[k - i] \in used \cup {HeadNode}
    <3>1. k - i \in 0..k
      BY <1>1
    <3> QED BY <1>1, <3>1, LeadsNext
  <2>2. next[f[k - i]] = b[i]
    <3>1. CASE i = 0
      <4>1. k - i = k
        BY <1>1, <3>1
      <4> QED BY <1>2, <1>3, <3>1, <4>1
    <3>2. CASE i # 0
      <4>1. i \in 1..k /\ k - i < k /\ (k - i) + 1 = (k + 1) - i
        BY <1>1, <3>2
      <4> QED BY <1>2, <1>3, <2>1, <4>1
    <3> QED BY <3>1, <3>2
  <2> QED BY <1>1, <2>1, <2>2
<1>7. \A i \in 0..k : i < k => prev[b[i]] = b[i + 1]
  <2> TAKE i \in 0..k
  <2> SUFFICES ASSUME i < k PROVE prev[b[i]] = b[i + 1]
    OBVIOUS
  <2>1. i + 1 \in 1..k /\ (k + 1) - (i + 1) = k - i
    BY <1>1
  <2> QED BY <1>3, <1>6, <2>1
<1>8. prev[b[k]] = HeadNode
  <2>1. k \in 0..k /\ k - k = 0
    BY <1>1
  <2> QED BY <1>2, <1>6, <2>1
<1>9. b \in [0..k -> used \cup {TailNode}]
  <2>1. \A i \in 0..k : b[i] \in used \cup {TailNode}
    <3> TAKE i \in 0..k
    <3>1. i = 0 \/ i \in 1..k
      BY <1>1
    <3> QED BY <1>3, <3>1
  <2>2. b = [i \in 0..k |-> b[i]]
    OBVIOUS
  <2> QED BY <2>1, <2>2
<1> QED BY <1>1, <1>3, <1>4, <1>5, <1>7, <1>8, <1>9 DEF Leads

\* What the invariant says of the list as ListWellFormed reads it.
LEMMA ListInvWellFormed ==
    ListInv => ListWellFormed
<1> SUFFICES ASSUME ListInv, walk.kind # "fini"
             PROVE  LET back == Path(prev[TailNode], prev) IN
                    /\ Len(back) = Len(Chain)
                    /\ \A i \in 1..Len(Chain) : back[Len(Chain) + 1 - i] = Chain[i]
                    /\ used = On(Chain)
                    /\ count = Len(Chain)
                    /\ walk.cursor \in used \cup {HeadNode, TailNode, Null}
  BY DEF ListWellFormed
<1> USE NodesDiffer
<1>1. PICK f, k : Position(f, k)
  BY DEF ListInv
<1>2. ListTypes /\ WalkTypes /\ Doubly(f, k)
  BY <1>1 DEF ListInv, Position, ChainNow
<1>3. /\ Leads(f, k, next, HeadNode, TailNode, used) /\ k \in Nat /\ HeadNode \notin used
      /\ used \in SUBSET Cells /\ count = k
  BY <1>2 DEF Doubly, Leads, ListTypes
<1>4. Chain = [i \in 1..k |-> f[i]]
  BY <1>3, PathOfList DEF Chain
<1>5. Len(Chain) = k /\ DOMAIN Chain = 1..k /\ \A i \in 1..k : Chain[i] = f[i]
  BY <1>3, <1>4
<1> DEFINE back == Path(prev[TailNode], prev)
<1>6. PICK b : b = [i \in 0..k |-> IF i = 0 THEN TailNode ELSE f[(k + 1) - i]]
  OBVIOUS
<1>7. back = [i \in 1..k |-> b[i]]
  <2>1. Leads(b, k, prev, TailNode, HeadNode, used)
    BY <1>2, <1>6, BackwardLeads
  <2>2. PICK p, q : p = prev /\ q = prev
    OBVIOUS
  <2>3. Leads(b, k, p, TailNode, HeadNode, used) /\ \A i \in 1..k : q[b[i]] = p[b[i]]
    BY <2>1, <2>2
  <2>4. Path(p[TailNode], q) = [i \in 1..k |-> b[i]]
    BY <1>3, <2>3, PathOfChain
  <2> QED BY <2>2, <2>4
<1> HIDE DEF back
<1>8. Len(back) = k /\ \A i \in 1..k : back[(k + 1) - i] = f[i]
  <2>1. Len(back) = k
    BY <1>3, <1>7
  <2>2. ASSUME NEW i \in 1..k PROVE back[(k + 1) - i] = f[i]
    <3>1. PICK j : j = (k + 1) - i
      OBVIOUS
    <3>2. j \in 1..k /\ j \in 0..k /\ j # 0 /\ (k + 1) - j = i
      BY <1>3, <3>1
    <3>3. back[j] = b[j] /\ b[j] = f[(k + 1) - j]
      BY <1>6, <1>7, <3>2
    <3> QED BY <3>1, <3>2, <3>3
  <2> QED BY <2>1, <2>2
<1>9. used = On(Chain)
  <2>1. On(Chain) = {f[i] : i \in 1..k}
    BY <1>5 DEF On
  <2> QED BY <1>3, <2>1 DEF Leads
<1>10. walk.cursor \in used \cup {HeadNode, TailNode, Null}
  <2>1. CASE walk = NoWalk
    BY <2>1 DEF NoWalk
  <2>2. CASE walk.kind \in {"first", "all"}
    <3>1. PICK j \in 0..k : walk.cursor = next[f[j]]
      BY <1>1, <2>2 DEF Position, PassedUp
    <3> QED BY <1>3, <3>1, LeadsNext
  <2>3. CASE walk.kind = "last"
    <3>1. PICK j \in 0..k : walk.cursor = f[j]
      BY <1>1, <2>3 DEF Position, PassedDown
    <3> QED BY <1>3, <3>1, LeadsNext
  <2> QED BY <1>2, <2>1, <2>2, <2>3 DEF WalkTypes
<1> QED BY <1>3, <1>5, <1>8, <1>9, <1>10 DEF back

-----------------------------------------------------------------------------
(* The list does what a deque does                                         *)

Elems == [i \in 1..Len(Remaining) |-> data[Remaining[i]]]

Removing == <<walk.kind, walk.want>>

\* The elements are the contents of the chain, now and after a step.
LEMMA ElemsAre ==
    ASSUME ListTypes, NEW f, NEW k, ChainNow(f, k)
    PROVE  Elems = Contents(f, k) /\ Contents(f, k) \in Seq(Data) /\ Len(Contents(f, k)) = k /\ k \in Nat
<1>1. next \in [Nodes -> Linkable] /\ used \in SUBSET Cells
  BY DEF ListTypes
<1>2. /\ walk.kind # "fini" => Leads(f, k, next, HeadNode, TailNode, used)
      /\ walk.kind = "fini" =>
            Leads(f, k, [next EXCEPT ![HeadNode] = walk.cursor], HeadNode, TailNode, used)
  BY DEF ChainNow, Doubly
<1>3. Contents(f, k) \in Seq(Data) /\ Len(Contents(f, k)) = k /\ k \in Nat
  BY <1>2, ContentsType
<1>4. Remaining = [i \in 1..k |-> f[i]]
  <2>1. CASE walk.kind = "fini"
    <3>1. PICK r, p : r = [next EXCEPT ![HeadNode] = walk.cursor] /\ p = next
      OBVIOUS
    <3>2. Leads(f, k, r, HeadNode, TailNode, used) /\ used \in SUBSET Cells
      BY <1>1, <1>2, <2>1, <3>1
    <3>3. r[HeadNode] = walk.cursor /\ \A n \in Cells : r[n] = p[n]
      BY <1>1, <3>1, NodesDiffer
    <3>4. Path(r[HeadNode], p) = [i \in 1..k |-> f[i]]
      BY <3>2, <3>3, PathOfRest
    <3> QED BY <2>1, <3>1, <3>3, <3>4 DEF Remaining
  <2>2. CASE walk.kind # "fini"
    <3>1. Path(next[HeadNode], next) = [i \in 1..k |-> f[i]]
      BY <1>1, <1>2, <2>2, PathOfList
    <3> QED BY <2>2, <3>1 DEF Remaining, Chain
  <2> QED BY <2>1, <2>2
<1>5. Elems = Contents(f, k)
  <2>1. Len(Remaining) = k /\ \A i \in 1..k : Remaining[i] = f[i]
    BY <1>3, <1>4
  <2> QED BY <2>1 DEF Elems, Contents
<1> QED BY <1>3, <1>5

\* The same after a step.
LEMMA ElemsBecome ==
    ASSUME ListTypes', NEW f, NEW k, ChainNow(f, k)'
    PROVE  Elems' = Contents(f, k)'
<1>1. next' \in [Nodes -> Linkable] /\ used' \in SUBSET Cells
  BY DEF ListTypes
<1>2. /\ walk'.kind # "fini" => Leads(f, k, next', HeadNode, TailNode, used')
      /\ walk'.kind = "fini" =>
            Leads(f, k, [next' EXCEPT ![HeadNode] = walk'.cursor], HeadNode, TailNode, used')
  BY DEF ChainNow, Doubly
<1>3. k \in Nat
  BY <1>2 DEF Leads
<1>4. Remaining' = [i \in 1..k |-> f[i]]
  <2>1. CASE walk'.kind = "fini"
    <3>1. PICK r, p : r = [next' EXCEPT ![HeadNode] = walk'.cursor] /\ p = next'
      OBVIOUS
    <3>2. Leads(f, k, r, HeadNode, TailNode, used') /\ used' \in SUBSET Cells
      BY <1>1, <1>2, <2>1, <3>1
    <3>3. r[HeadNode] = walk'.cursor /\ \A n \in Cells : r[n] = p[n]
      BY <1>1, <3>1, NodesDiffer
    <3>4. Path(r[HeadNode], p) = [i \in 1..k |-> f[i]]
      BY <3>2, <3>3, PathOfRest
    <3> QED BY <2>1, <3>1, <3>3, <3>4 DEF Remaining
  <2>2. CASE walk'.kind # "fini"
    <3>1. Path(next'[HeadNode], next') = [i \in 1..k |-> f[i]]
      BY <1>1, <1>2, <2>2, PathOfList
    <3> QED BY <2>2, <3>1 DEF Remaining, Chain
  <2> QED BY <2>1, <2>2
<1>5. Len(Remaining') = k /\ \A i \in 1..k : Remaining'[i] = f[i]
  BY <1>3, <1>4
<1> QED BY <1>5 DEF Elems, Contents

\* Every action of the list keeps the invariant and is one of a deque, or changes
\* nothing a deque has.
LEMMA ListStep ==
    ASSUME ListInv, ListNext
    PROVE  ListInv' /\ (Sequence!Next \/ UNCHANGED <<Elems, Removing, popped>>)
<1>1. PICK f, k : Position(f, k)
  BY DEF ListInv
<1>2. ListTypes /\ WalkTypes /\ ChainNow(f, k)
  BY <1>1 DEF ListInv, Position
<1> DEFINE s == Contents(f, k)
<1>3. Elems = s /\ s \in Seq(Data) /\ Len(s) = k /\ k \in Nat
  BY <1>2, ElemsAre
<1> HIDE DEF s
<1>4. walk = NoWalk => Doubly(f, k) /\ Removing = Sequence!Idle
  BY <1>2 DEF ChainNow, NoWalk, Removing, Sequence!Idle
<1>5. ASSUME NEW g, NEW l, ListTypes', WalkTypes', Position(g, l)'
      PROVE  ListInv' /\ Elems' = Contents(g, l)'
  <2>1. ChainNow(g, l)' /\ ListTypes'
    BY <1>5 DEF Position
  <2>2. Elems' = Contents(g, l)'
    BY <2>1, ElemsBecome
  <2>3. ListInv'
    BY <1>5 DEF ListInv
  <2> QED BY <2>2, <2>3
<1>6. ASSUME NEW g, NEW l, ListTypes', Doubly(g, l)', walk' = NoWalk
      PROVE  WalkTypes' /\ Position(g, l)'
  BY <1>6 DEF WalkTypes, Position, ChainNow, NoWalk
<1>7. ASSUME NEW d \in Data, PushFront(d) \/ PushBack(d)
      PROVE  ListInv' /\ (Sequence!Next \/ UNCHANGED <<Elems, Removing, popped>>)
  <2>1. walk = NoWalk /\ Doubly(f, k)
    BY <1>4, <1>7 DEF PushFront, PushBack, Calling
  <2>2. /\ ListTypes' /\ UNCHANGED <<walk, popped>>
        /\ \E g, l :
              /\ Doubly(g, l)'
              /\ \/ Contents(g, l)' = s
                 \/ PushFront(d) /\ Contents(g, l)' = <<d>> \o s
                 \/ PushBack(d) /\ Contents(g, l)' = Append(s, d)
    BY <1>2, <1>7, <2>1, PushKeeps DEF s
  <2>3. PICK g, l :
           /\ Doubly(g, l)'
           /\ \/ Contents(g, l)' = s
              \/ PushFront(d) /\ Contents(g, l)' = <<d>> \o s
              \/ PushBack(d) /\ Contents(g, l)' = Append(s, d)
    BY <2>2
  <2>4. ListInv' /\ Elems' = Contents(g, l)'
    BY <1>5, <1>6, <2>1, <2>2, <2>3
  <2>5. Removing' = Removing /\ Removing = Sequence!Idle /\ popped' = popped
    BY <1>4, <2>1, <2>2 DEF Removing
  <2>6. CASE Elems' = Elems
    BY <2>4, <2>5, <2>6
  <2>7. CASE Elems' = <<d>> \o Elems
    <3>1. Sequence!PushFront(d)
      BY <2>5, <2>7 DEF Sequence!PushFront, Elems, Removing
    <3> QED BY <2>4, <3>1 DEF Sequence!Next
  <2>8. CASE Elems' = Append(Elems, d)
    <3>1. Sequence!PushBack(d)
      BY <2>5, <2>8 DEF Sequence!PushBack, Elems, Removing
    <3> QED BY <2>4, <3>1 DEF Sequence!Next
  <2> QED BY <1>3, <2>3, <2>4, <2>6, <2>7, <2>8
<1>8. CASE PopFront \/ PopBack
  <2>1. walk = NoWalk /\ Doubly(f, k)
    BY <1>4, <1>8 DEF PopFront, PopBack, Calling
  <2>2. /\ ListTypes' /\ UNCHANGED walk /\ s # <<>>
        /\ \E g, l :
              /\ Doubly(g, l)'
              /\ \/ popped' = Head(s) /\ Contents(g, l)' = Tail(s)
                 \/ popped' = Sequence!Last(s) /\ Contents(g, l)' = Sequence!Front(s)
    BY <1>2, <1>8, <2>1, PopKeeps DEF s
  <2>3. PICK g, l :
              /\ Doubly(g, l)'
              /\ \/ popped' = Head(s) /\ Contents(g, l)' = Tail(s)
                 \/ popped' = Sequence!Last(s) /\ Contents(g, l)' = Sequence!Front(s)
    BY <2>2
  <2>4. ListInv' /\ Elems' = Contents(g, l)'
    BY <1>5, <1>6, <2>1, <2>2, <2>3
  <2>5. Removing' = Removing /\ Removing = Sequence!Idle /\ Elems # <<>>
    BY <1>3, <1>4, <2>1, <2>2 DEF Removing
  <2>6. CASE popped' = Head(Elems) /\ Elems' = Tail(Elems)
    <3>1. Sequence!PopFront
      BY <2>5, <2>6 DEF Sequence!PopFront, Elems, Removing
    <3> QED BY <2>4, <3>1 DEF Sequence!Next
  <2>7. CASE popped' = Sequence!Last(Elems) /\ Elems' = Sequence!Front(Elems)
    <3>1. Sequence!PopBack
      BY <2>5, <2>7 DEF Sequence!PopBack, Elems, Removing
    <3> QED BY <2>4, <3>1 DEF Sequence!Next
  <2> QED BY <1>3, <2>3, <2>4, <2>6, <2>7
<1>9. ASSUME NEW kind, NEW d, BeginWalk(kind, d),
             (kind \in {"first", "last", "all"} /\ d \in Data) \/ (kind = "fini" /\ d = Null)
      PROVE  ListInv' /\ (Sequence!Next \/ UNCHANGED <<Elems, Removing, popped>>)
  <2>1. walk = NoWalk /\ Doubly(f, k)
    BY <1>4, <1>9 DEF BeginWalk, Calling
  <2>2. /\ ListTypes' /\ WalkTypes' /\ Position(f, k)'
        /\ walk'.kind = kind /\ walk'.want = d
        /\ popped' = popped /\ Contents(f, k)' = s
    BY <1>2, <1>9, <2>1, BeginKeeps DEF s
  <2>3. ListInv' /\ Elems' = Elems
    BY <1>3, <1>5, <2>2
  <2>4. Removing' = <<kind, d>> /\ Removing = Sequence!Idle
    BY <1>4, <2>1, <2>2 DEF Removing
  <2>5. Sequence!Begin(kind, d)
    BY <2>2, <2>3, <2>4 DEF Sequence!Begin, Elems, Removing
  <2>6. Sequence!Next
    <3>1. CASE kind \in {"first", "last", "all"} /\ d \in Data
      BY <2>5, <3>1 DEF Sequence!Next
    <3>2. CASE kind = "fini" /\ d = Null
      BY <2>5, <3>2 DEF Sequence!Next
    <3> QED BY <1>9, <3>1, <3>2
  <2> QED BY <2>3, <2>6
<1>10. CASE EndWalk
  <2>1. /\ ListTypes' /\ WalkTypes' /\ Position(f, k)'
        /\ walk.kind \in {"first", "last", "all", "fini"} /\ walk' = NoWalk
        /\ popped' = popped /\ Contents(f, k)' = s
        /\ \A i \in 1..k : s[i] # walk.want
        /\ walk.kind = "fini" => k = 0
    BY <1>1, <1>2, <1>10, EndKeeps DEF s
  <2>2. ListInv' /\ Elems' = Elems
    BY <1>3, <1>5, <2>1
  <2>3. Removing' = Sequence!Idle /\ Removing # Sequence!Idle
    BY <2>1 DEF Removing, NoWalk, Sequence!Idle
  <2>4. Removing[2] \notin Sequence!Range(Elems)
    <3>1. DOMAIN Elems = 1..k
      BY <1>3
    <3>2. Removing[2] = walk.want
      BY DEF Removing
    <3> QED BY <1>3, <2>1, <3>1, <3>2 DEF Sequence!Range
  <2>5. Removing[1] = "fini" => Elems = <<>>
    BY <1>3, <2>1 DEF Removing
  <2>6. Sequence!End
    BY <2>1, <2>2, <2>3, <2>4, <2>5 DEF Sequence!End, Elems, Removing
  <2> QED BY <2>2, <2>6 DEF Sequence!Next
<1>11. CASE Step
  <2>1. CASE walk.kind # "fini" /\ data[walk.cursor] # walk.want
    <3>1. /\ ListTypes' /\ WalkTypes' /\ Position(f, k)'
          /\ walk'.kind = walk.kind /\ walk'.want = walk.want /\ popped' = popped
          /\ Contents(f, k)' = s
      BY <1>1, <1>2, <1>11, <2>1, RoundPasses DEF s
    <3>2. ListInv' /\ Elems' = Elems
      BY <1>3, <1>5, <3>1
    <3>3. Removing' = Removing
      BY <3>1 DEF Removing
    <3> QED BY <3>1, <3>2, <3>3
  <2>2. ASSUME NEW d \in Data, NEW r \in 1..k, s[r] = d, popped' = d, Sequence!Remove1(d)
        PROVE  Sequence!Next
    <3>1. d \in Sequence!Range(Elems)
      <4>1. DOMAIN Elems = 1..k
        BY <1>3
      <4> QED BY <1>3, <2>2, <4>1 DEF Sequence!Range
    <3>2. Sequence!Take(d)
      BY <2>2, <3>1 DEF Sequence!Take, Elems
    <3> QED BY <3>2 DEF Sequence!Next
  <2>3. CASE walk.kind # "fini" /\ data[walk.cursor] = walk.want
    <3>1. /\ ListTypes' /\ WalkTypes'
          /\ \E r \in 1..k :
                /\ Position(Without(f, k, r), k - 1)'
                /\ Contents(Without(f, k, r), k - 1)' = Shorter(s, r)
                /\ popped' = s[r] /\ walk.want = s[r] /\ s[r] \in Data
                /\ \/ /\ walk.kind = "first" /\ walk' = NoWalk
                      /\ \A i \in 1..(r - 1) : s[i] # s[r]
                   \/ /\ walk.kind = "last" /\ walk' = NoWalk
                      /\ \A i \in 1..k : r < i => s[i] # s[r]
                   \/ /\ walk.kind = "all" /\ walk'.kind = "all" /\ walk'.want = walk.want
                      /\ \A i \in 1..(r - 1) : s[i] # s[r]
      BY <1>1, <1>2, <1>11, <2>3, RoundRemoves DEF s
    <3>2. PICK r \in 1..k :
                /\ Position(Without(f, k, r), k - 1)'
                /\ Contents(Without(f, k, r), k - 1)' = Shorter(s, r)
                /\ popped' = s[r] /\ walk.want = s[r] /\ s[r] \in Data
                /\ \/ /\ walk.kind = "first" /\ walk' = NoWalk
                      /\ \A i \in 1..(r - 1) : s[i] # s[r]
                   \/ /\ walk.kind = "last" /\ walk' = NoWalk
                      /\ \A i \in 1..k : r < i => s[i] # s[r]
                   \/ /\ walk.kind = "all" /\ walk'.kind = "all" /\ walk'.want = walk.want
                      /\ \A i \in 1..(r - 1) : s[i] # s[r]
      BY <3>1
    <3>3. ListInv' /\ Elems' = Shorter(s, r)
      BY <1>5, <3>1, <3>2
    <3>4. r \in 1..Len(s)
      BY <1>3
    <3>5. PICK d \in Data : d = s[r] /\ popped' = d
      BY <3>2
    <3>6. Sequence!Remove1(d)
      <4>1. CASE /\ walk.kind = "first" /\ walk' = NoWalk
                 /\ \A i \in 1..(r - 1) : s[i] # s[r]
        <5>1. Sequence!RemoveFirst(Elems, d) = Shorter(s, r)
          BY <1>3, <3>4, <3>5, <4>1, RemoveFirstIs
        <5>2. Removing = <<"first", d>> /\ Removing' = Sequence!Idle
          BY <3>2, <3>5, <4>1 DEF Removing, NoWalk, Sequence!Idle
        <5> QED BY <3>3, <5>1, <5>2 DEF Sequence!Remove1, Elems, Removing
      <4>2. CASE /\ walk.kind = "last" /\ walk' = NoWalk
                 /\ \A i \in 1..k : r < i => s[i] # s[r]
        <5>1. Sequence!Reverse(Sequence!RemoveFirst(Sequence!Reverse(Elems), d)) = Shorter(s, r)
          BY <1>3, <3>4, <3>5, <4>2, RemoveLastIs
        <5>2. Removing = <<"last", d>> /\ Removing' = Sequence!Idle
          BY <3>2, <3>5, <4>2 DEF Removing, NoWalk, Sequence!Idle
        <5> QED BY <3>3, <5>1, <5>2 DEF Sequence!Remove1, Elems, Removing
      <4>3. CASE /\ walk.kind = "all" /\ walk'.kind = "all" /\ walk'.want = walk.want
                 /\ \A i \in 1..(r - 1) : s[i] # s[r]
        <5>1. Sequence!RemoveFirst(Elems, d) = Shorter(s, r)
          BY <1>3, <3>4, <3>5, <4>3, RemoveFirstIs
        <5>2. Removing = <<"all", d>> /\ Removing' = Removing
          BY <3>2, <3>5, <4>3 DEF Removing
        <5> QED BY <3>3, <5>1, <5>2 DEF Sequence!Remove1, Elems, Removing
      <4> QED BY <3>2, <4>1, <4>2, <4>3
    <3> QED BY <2>2, <3>3, <3>5, <3>6
  <2>4. CASE walk.kind = "fini"
    <3>1. /\ ListTypes' /\ WalkTypes' /\ 1 \in 1..k
          /\ Position(Without(f, k, 1), k - 1)'
          /\ Contents(Without(f, k, 1), k - 1)' = Shorter(s, 1)
          /\ popped' = s[1] /\ s[1] \in Data
          /\ walk'.kind = "fini" /\ walk'.want = walk.want /\ walk.want = Null
      BY <1>1, <1>2, <1>11, <2>4, RoundFrees DEF s
    <3>2. ListInv' /\ Elems' = Shorter(s, 1)
      BY <1>5, <3>1
    <3>3. s # <<>>
      BY <1>3, <3>1
    <3>4. Elems' = Tail(Elems) /\ Head(Elems) = s[1]
      BY <1>3, <3>2, <3>3, ShorterAtAnEnd
    <3>5. Removing = <<"fini", Null>> /\ Removing' = Removing
      BY <2>4, <3>1 DEF Removing
    <3>6. PICK d \in Data, r \in 1..k : r = 1 /\ d = s[r] /\ popped' = d
      BY <3>1
    <3>7. Sequence!Remove1(d)
      BY <3>4, <3>5, <3>6 DEF Sequence!Remove1, Elems, Removing
    <3>8. Sequence!Next
      BY <2>2, <3>6, <3>7
    <3> QED BY <3>2, <3>8
  <2> QED BY <2>1, <2>3, <2>4
<1>12. (\E d \in Data : PushFront(d) \/ PushBack(d)) \/ (PopFront \/ PopBack)
       \/ (\E kind \in {"first", "last", "all"}, d \in Data : BeginWalk(kind, d))
       \/ BeginWalk("fini", Null) \/ Step \/ EndWalk
  BY DEF ListNext
<1> QED BY <1>7, <1>8, <1>9, <1>10, <1>11, <1>12

\* At first the list is empty.
LEMMA ListStart ==
    ASSUME ListInit
    PROVE  ListInv /\ Sequence!Init
<1> USE NodesDiffer
<1>1. /\ next = EmptyNext /\ prev = EmptyPrev /\ count = 0 /\ data = [c \in Cells |-> Null]
      /\ used = {} /\ walk = NoWalk /\ popped = Null
  BY DEF ListInit
<1>2. PICK f : f = [i \in 0..0 |-> HeadNode]
  OBVIOUS
<1>3. Leads(f, 0, next, HeadNode, TailNode, used)
  BY <1>1, <1>2 DEF Leads, EmptyNext
<1>4. Doubly(f, 0)
  BY <1>1, <1>3 DEF Doubly, EmptyNext, EmptyPrev
<1>5. Position(f, 0)
  BY <1>1, <1>4 DEF Position, ChainNow, NoWalk
<1>6. ListTypes /\ WalkTypes
  BY <1>1 DEF ListTypes, WalkTypes, Linkable, EmptyNext, EmptyPrev
<1>7. ListInv
  BY <1>5, <1>6 DEF ListInv
<1>8. Elems = <<>>
  <2>1. Elems = Contents(f, 0) /\ Contents(f, 0) \in Seq(Data) /\ Len(Contents(f, 0)) = 0
    BY <1>5, <1>6, ElemsAre DEF Position
  <2> QED BY <2>1
<1>9. Sequence!Init
  BY <1>1, <1>8 DEF Sequence!Init, Elems, Sequence!Idle, NoWalk
<1> QED BY <1>7, <1>9

-----------------------------------------------------------------------------
(* Chains of cells by the hash of their keys                               *)

Bucket(key, C, h) == {n \in C : HashOf[key[n]] = h}

\* The cells C, each with a key of its own, are on the chains of their keys, and no
\* pointer leads out of another cell.
Chains(p, key, C) ==
    /\ p \in [Heads \cup Cells -> Cells \cup {Null}]
    /\ key \in [Cells -> Keys \cup {Null}]
    /\ C \in SUBSET Cells
    /\ \A n \in C : key[n] \in Keys
    /\ \A m, n \in C : key[m] = key[n] => m = n
    /\ \A n \in Cells \ C : p[n] = Null
    /\ \A h \in Heads : \E f, k : Leads(f, k, p, h, Null, Bucket(key, C, h))

\* Heads, cells and Null are all different, and every key has a head.
LEMMA HeadsDiffer ==
    /\ Null \notin Cells /\ Null \notin Heads /\ Null \notin Data
    /\ \A h \in Heads : h \notin Cells
    /\ \A k \in Keys : HashOf[k] \in Heads /\ k \in Nat
  BY ContainerAssumption

\* One slot leads to each cell of a chain.
LEMMA LeadsBack ==
    ASSUME NEW f, NEW k, NEW p, NEW h, NEW e, NEW C, Leads(f, k, p, h, e, C),
           h \notin C, e \notin C
    PROVE  /\ \A n \in C : \E r \in 1..k : f[r] = n /\ p[f[r - 1]] = n /\ f[r - 1] \in C \cup {h}
           /\ \A s, t \in C \cup {h} : p[s] = p[t] /\ p[s] # e => s = t
<1>1. /\ k \in Nat /\ p[f[k]] = e
      /\ \A x \in C : \E i \in 1..k : f[i] = x
      /\ \A i, j \in 0..k : f[i] = f[j] => i = j
      /\ \A i \in 0..k : i < k => p[f[i]] = f[i + 1]
  BY DEF Leads
<1>2. /\ \A n \in C \cup {h} : \E i \in 0..k : f[i] = n
      /\ \A i \in 0..k : f[i] \in C \cup {h}
  BY LeadsNext
<1>3. ASSUME NEW n \in C
      PROVE  \E r \in 1..k : f[r] = n /\ p[f[r - 1]] = n /\ f[r - 1] \in C \cup {h}
  <2>1. PICK r \in 1..k : f[r] = n
    BY <1>1
  <2>2. r - 1 \in 0..k /\ r - 1 < k /\ (r - 1) + 1 = r
    BY <1>1
  <2> QED BY <1>1, <1>2, <2>1, <2>2
<1>4. ASSUME NEW s \in C \cup {h}, NEW t \in C \cup {h}, p[s] = p[t], p[s] # e
      PROVE  s = t
  <2>1. PICK i \in 0..k, j \in 0..k : f[i] = s /\ f[j] = t
    BY <1>2
  <2>2. i # k /\ j # k
    BY <1>1, <1>4, <2>1
  <2>3. i < k /\ j < k /\ i + 1 \in 0..k /\ j + 1 \in 0..k
    BY <1>1, <2>2
  <2>4. f[i + 1] = f[j + 1]
    BY <1>1, <1>4, <2>1, <2>3
  <2>5. i + 1 = j + 1
    BY <1>1, <2>3, <2>4
  <2>6. i = j
    BY <1>1, <2>5
  <2> QED BY <2>1, <2>6
<1> QED BY <1>3, <1>4

\* The chain a slot is on.
LEMMA SlotHead ==
    ASSUME NEW p, NEW key, NEW C, Chains(p, key, C), NEW s \in Heads \cup C
    PROVE  \E h \in Heads : s \in Bucket(key, C, h) \cup {h} /\ p[s] \in Bucket(key, C, h) \cup {Null}
<1>1. PICK h \in Heads : s \in Bucket(key, C, h) \cup {h}
  <2>1. CASE s \in Heads
    BY <2>1
  <2>2. CASE s \in C
    BY <2>2, HeadsDiffer DEF Bucket, Chains
  <2> QED BY <2>1, <2>2
<1>2. PICK f, k : Leads(f, k, p, h, Null, Bucket(key, C, h))
  BY DEF Chains
<1>3. h \notin Bucket(key, C, h)
  BY HeadsDiffer DEF Bucket, Chains
<1>4. p[s] \in Bucket(key, C, h) \cup {Null}
  BY <1>1, <1>2, <1>3, LeadsNext
<1> QED BY <1>1, <1>4

\* A pointer that is not Null leads from a head or a cell in use to one in use, each
\* cell in use is led to, and no two slots lead to the same cell.
LEMMA ChainsSlots ==
    ASSUME NEW p, NEW key, NEW C, Chains(p, key, C)
    PROVE  /\ \A s \in Heads \cup Cells : p[s] # Null => p[s] \in C /\ s \in Heads \cup C
           /\ \A n \in C : \E s \in Heads \cup C : p[s] = n
           /\ \A s, t \in Heads \cup Cells : p[s] = p[t] /\ p[s] # Null => s = t
<1>1. ASSUME NEW s \in Heads \cup Cells, p[s] # Null
      PROVE  p[s] \in C /\ s \in Heads \cup C
  <2>1. s \in Heads \cup C
    BY <1>1 DEF Chains
  <2> QED BY <1>1, <2>1, SlotHead DEF Bucket
<1>2. ASSUME NEW n \in C
      PROVE  \E s \in Heads \cup C : p[s] = n
  <2>1. PICK h \in Heads : n \in Bucket(key, C, h)
    BY HeadsDiffer DEF Bucket, Chains
  <2>2. PICK f, k : Leads(f, k, p, h, Null, Bucket(key, C, h))
    BY DEF Chains
  <2>3. h \notin Bucket(key, C, h) /\ Null \notin Bucket(key, C, h)
    BY HeadsDiffer DEF Bucket, Chains
  <2>4. PICK r \in 1..k : p[f[r - 1]] = n /\ f[r - 1] \in Bucket(key, C, h) \cup {h}
    BY <2>1, <2>2, <2>3, LeadsBack
  <2> QED BY <2>4 DEF Bucket
<1>3. ASSUME NEW s \in Heads \cup Cells, NEW t \in Heads \cup Cells, p[s] = p[t], p[s] # Null
      PROVE  s = t
  <2>1. s \in Heads \cup C /\ t \in Heads \cup C
    BY <1>1, <1>3
  <2>2. PICK h \in Heads : s \in Bucket(key, C, h) \cup {h} /\ p[s] \in Bucket(key, C, h) \cup {Null}
    BY <2>1, SlotHead
  <2>3. PICK g \in Heads : t \in Bucket(key, C, g) \cup {g} /\ p[t] \in Bucket(key, C, g) \cup {Null}
    BY <2>1, SlotHead
  <2>4. g = h
    BY <1>3, <2>2, <2>3 DEF Bucket
  <2>5. PICK f, k : Leads(f, k, p, h, Null, Bucket(key, C, h))
    BY DEF Chains
  <2>6. h \notin Bucket(key, C, h) /\ Null \notin Bucket(key, C, h)
    BY HeadsDiffer DEF Bucket, Chains
  <2> QED BY <1>3, <2>2, <2>3, <2>4, <2>5, <2>6, LeadsBack
<1> QED BY <1>1, <1>2, <1>3

\* The path from a head has the cells of its bucket.
LEMMA ChainsPath ==
    ASSUME NEW p, NEW key, NEW C, Chains(p, key, C), NEW h \in Heads
    PROVE  LET c == Path(p[h], p) IN
           /\ On(c) = Bucket(key, C, h)
           /\ DOMAIN c \subseteq Nat
<1>1. PICK f, k : Leads(f, k, p, h, Null, Bucket(key, C, h))
  BY DEF Chains
<1>2. Bucket(key, C, h) \in SUBSET Cells /\ h \notin Cells /\ Null \notin Cells
  BY HeadsDiffer DEF Bucket, Chains
<1>3. PICK q : q = p
  OBVIOUS
<1>4. \A i \in 1..k : q[f[i]] = p[f[i]]
  BY <1>3
<1>5. Path(p[h], q) = [i \in 1..k |-> f[i]]
  BY <1>1, <1>2, <1>4, PathOfChain
<1>6. /\ k \in Nat /\ \A i \in 1..k : f[i] \in Bucket(key, C, h)
      /\ \A x \in Bucket(key, C, h) : \E i \in 1..k : f[i] = x
  BY <1>1 DEF Leads
<1> DEFINE c == Path(p[h], p)
<1>7. c = [i \in 1..k |-> f[i]]
  BY <1>3, <1>5
<1> HIDE DEF c
<1>8. On(c) = {f[i] : i \in 1..k} /\ DOMAIN c = 1..k
  BY <1>7 DEF On
<1> QED BY <1>6, <1>8 DEF c

\* What FirstIn finds.
LEMMA FirstInFinds ==
    ASSUME NEW c, NEW S, DOMAIN c \subseteq Nat, Null \notin On(c)
    PROVE  /\ FirstIn(c, S) # Null => FirstIn(c, S) \in On(c) \cap S
           /\ FirstIn(c, S) = Null => On(c) \cap S = {}
<1> DEFINE hits == {i \in DOMAIN c : c[i] \in S}
           least == CHOOSE i \in hits : \A j \in hits : i <= j
<1>1. CASE hits = {}
  BY <1>1 DEF FirstIn, On
<1>2. CASE hits # {}
  <2>1. hits \in SUBSET Nat
    OBVIOUS
  <2> HIDE DEF hits
  <2>2. \E i \in hits : \A j \in hits : i <= j
    BY <1>2, <2>1, LeastNumber
  <2>3. least \in hits
    BY <2>2
  <2>4. FirstIn(c, S) = c[least]
    BY <1>2 DEF FirstIn, hits
  <2> HIDE DEF least
  <2>5. c[least] \in On(c) \cap S
    BY <2>3 DEF hits, On
  <2> QED BY <2>4, <2>5
<1> QED BY <1>1, <1>2

\* A new cell at the head of the chain of its key.
LEMMA ChainsAdd ==
    ASSUME NEW p, NEW key, NEW C, Chains(p, key, C), NEW k \in Keys, NEW n \in Cells \ C,
           \A m \in C : key[m] # k,
           NEW q, q = [p EXCEPT ![n] = p[HashOf[k]], ![HashOf[k]] = n]
    PROVE  Chains(q, [key EXCEPT ![n] = k], C \cup {n})
<1> DEFINE D == C \cup {n}
           h == HashOf[k]
<1> USE HeadsDiffer
<1>1. /\ p \in [Heads \cup Cells -> Cells \cup {Null}]
      /\ key \in [Cells -> Keys \cup {Null}] /\ C \in SUBSET Cells
      /\ \A m \in C : key[m] \in Keys
      /\ \A m, l \in C : key[m] = key[l] => m = l
      /\ \A m \in Cells \ C : p[m] = Null
      /\ \A g \in Heads : \E f, j : Leads(f, j, p, g, Null, Bucket(key, C, g))
  BY DEF Chains
<1>2. PICK new : new = [key EXCEPT ![n] = k]
  OBVIOUS
<1>3. /\ new \in [Cells -> Keys \cup {Null}] /\ new[n] = k
      /\ \A m \in C : new[m] = key[m]
  BY <1>1, <1>2
<1>4. h \in Heads /\ h # n /\ h \notin Cells
  OBVIOUS
<1>5. /\ q \in [Heads \cup Cells -> Cells \cup {Null}] /\ q[n] = p[h] /\ q[h] = n
      /\ \A s \in Heads \cup Cells : s \notin {n, h} => q[s] = p[s]
  BY <1>1, <1>4
<1>0. HashOf[new[n]] = h /\ \A m \in C : HashOf[new[m]] = HashOf[key[m]]
  BY <1>3
<1> HIDE DEF h
<1>6. /\ \A m \in D : new[m] \in Keys
      /\ \A m, l \in D : new[m] = new[l] => m = l
  BY <1>1, <1>3
<1>7. \A m \in Cells \ D : q[m] = Null
  BY <1>1, <1>4, <1>5
<1>8. ASSUME NEW g \in Heads
      PROVE  \E f, j : Leads(f, j, q, g, Null, Bucket(new, D, g))
  <2>1. PICK f, j : Leads(f, j, p, g, Null, Bucket(key, C, g))
    BY <1>1
  <2>2. /\ g \notin Bucket(key, C, g) /\ n \notin Bucket(key, C, g) /\ n # g
        /\ Bucket(key, C, g) \subseteq Cells
    BY <1>1 DEF Bucket
  <2>3. \A i \in 0..j : f[i] \in Bucket(key, C, g) \cup {g}
    BY <2>1, <2>2, LeadsNext
  <2>4. CASE g = h
    <3>1. Bucket(new, D, g) = Bucket(key, C, g) \cup {n}
      <4> HIDE HeadsDiffer
      <4> QED BY <1>0, <2>4 DEF Bucket
    <3>2. j \in Nat /\ 0 \in 0..j /\ f[0] = g /\ \A i \in 0..j : i # 0 => f[i] # g
      BY <2>1 DEF Leads
    <3>3. \A i \in 0..j : i # 0 => q[f[i]] = p[f[i]]
      <4> TAKE i \in 0..j
      <4>1. i # 0 => f[i] \in Cells /\ f[i] \notin {n, h}
        BY <2>2, <2>3, <2>4, <3>2
      <4> QED BY <1>5, <4>1
    <3>4. q[f[0]] = n /\ q[n] = p[f[0]]
      BY <1>5, <2>4, <3>2
    <3>5. Leads(With(f, j, 0, n), j + 1, q, g, Null, Bucket(key, C, g) \cup {n})
      <4>1. PICK w, B : w = q /\ B = Bucket(key, C, g)
        OBVIOUS
      <4>2. /\ Leads(f, j, p, g, Null, B) /\ 0 \in 0..j /\ n \notin B /\ n # g
            /\ w[f[0]] = n /\ w[n] = p[f[0]] /\ \A i \in 0..j : i # 0 => w[f[i]] = p[f[i]]
        BY <2>1, <2>2, <3>2, <3>3, <3>4, <4>1
      <4> HIDE HeadsDiffer
      <4>3. Leads(With(f, j, 0, n), j + 1, w, g, Null, B \cup {n})
        BY <4>2, Linked
      <4> QED BY <4>1, <4>3
    <3> QED BY <3>1, <3>5
  <2>5. CASE g # h
    <3>1. Bucket(new, D, g) = Bucket(key, C, g)
      <4> HIDE HeadsDiffer
      <4> QED BY <1>0, <2>5 DEF Bucket
    <3>2. \A i \in 0..j : q[f[i]] = p[f[i]]
      <4> TAKE i \in 0..j
      <4>1. f[i] \in Heads \cup Cells /\ f[i] \notin {n, h}
        BY <1>4, <2>2, <2>3, <2>5
      <4> QED BY <1>5, <4>1
    <3>3. Leads(f, j, q, g, Null, Bucket(key, C, g))
      BY <2>1, <3>2, LeadsKept
    <3> QED BY <3>1, <3>3
  <2> QED BY <2>4, <2>5
<1>9. Chains(q, new, D)
  <2>1. PICK w, E : w = q /\ E = D
    OBVIOUS
  <2>2. /\ w \in [Heads \cup Cells -> Cells \cup {Null}]
        /\ new \in [Cells -> Keys \cup {Null}]
        /\ E \in SUBSET Cells
    BY <1>1, <1>3, <1>5, <2>1
  <2>3. /\ \A m \in E : new[m] \in Keys
        /\ \A m, l \in E : new[m] = new[l] => m = l
        /\ \A m \in Cells \ E : w[m] = Null
    BY <1>6, <1>7, <2>1
  <2>4. \A g \in Heads : \E f, j : Leads(f, j, w, g, Null, Bucket(new, E, g))
    BY <1>8, <2>1
  <2> HIDE HeadsDiffer
  <2>5. Chains(w, new, E)
    BY <2>2, <2>3, <2>4 DEF Chains
  <2> QED BY <2>1, <2>5
<1> QED BY <1>2, <1>9

\* From p and key to q and new the cell n, one of C, is cut out behind the slot s.
CutsOut(p, key, C, n, s, q, new) ==
    /\ n \in C /\ s \in Heads \cup Cells /\ p[s] = n
    /\ q \in [Heads \cup Cells -> Cells \cup {Null}]
    /\ q[n] = Null
    /\ s # n => q[s] = p[n]
    /\ \A x \in Heads \cup Cells : x \notin {n, s} => q[x] = p[x]
    /\ new \in [Cells -> Keys \cup {Null}]
    /\ \A m \in C : m # n => new[m] = key[m]

\* A cell cut out of its chain.
LEMMA ChainsCut ==
    ASSUME NEW p, NEW key, NEW C, Chains(p, key, C), NEW n, NEW s, NEW q, NEW new,
           CutsOut(p, key, C, n, s, q, new)
    PROVE  Chains(q, new, C \ {n})
<1> DEFINE D == C \ {n}
           h == HashOf[key[n]]
<1> USE HeadsDiffer
<1>c. /\ n \in C /\ s \in Heads \cup Cells /\ p[s] = n
      /\ q \in [Heads \cup Cells -> Cells \cup {Null}]
      /\ q[n] = Null
      /\ s # n => q[s] = p[n]
      /\ \A x \in Heads \cup Cells : x \notin {n, s} => q[x] = p[x]
      /\ new \in [Cells -> Keys \cup {Null}]
      /\ \A m \in C : m # n => new[m] = key[m]
  BY DEF CutsOut
<1> USE <1>c
<1>1. /\ p \in [Heads \cup Cells -> Cells \cup {Null}]
      /\ key \in [Cells -> Keys \cup {Null}] /\ C \in SUBSET Cells
      /\ \A m \in C : key[m] \in Keys
      /\ \A m, l \in C : key[m] = key[l] => m = l
      /\ \A m \in Cells \ C : p[m] = Null
      /\ \A g \in Heads : \E f, j : Leads(f, j, p, g, Null, Bucket(key, C, g))
  BY DEF Chains
<1>2. h \in Heads /\ h \notin Cells /\ n \in Bucket(key, C, h) /\ n # Null
  BY <1>1 DEF Bucket
<1>0. HashOf[key[n]] = h /\ \A m \in D : HashOf[new[m]] = HashOf[key[m]]
  OBVIOUS
<1> HIDE DEF h
<1>3. PICK f0, k0 : Leads(f0, k0, p, h, Null, Bucket(key, C, h))
  BY <1>1, <1>2
<1>4. h \notin Bucket(key, C, h) /\ Null \notin Bucket(key, C, h)
  BY <1>1, <1>2 DEF Bucket
<1>5. PICK r \in 1..k0 : f0[r] = n /\ p[f0[r - 1]] = n /\ f0[r - 1] \in Bucket(key, C, h) \cup {h}
  BY <1>2, <1>3, <1>4, LeadsBack
<1>6. s = f0[r - 1]
  <2>1. f0[r - 1] \in Heads \cup Cells
    BY <1>1, <1>2, <1>5 DEF Bucket
  <2> QED BY <1>2, <1>5, <2>1, ChainsSlots
<1>7. s # n
  <2>1. k0 \in Nat /\ r \in 0..k0 /\ r - 1 \in 0..k0 /\ r # r - 1
    BY <1>3 DEF Leads
  <2> QED BY <1>3, <1>5, <1>6, <2>1 DEF Leads
<1>8. /\ q \in [Heads \cup Cells -> Cells \cup {Null}] /\ q[s] = p[n] /\ q[n] = Null
      /\ \A x \in Heads \cup Cells : x \notin {n, s} => q[x] = p[x]
  BY <1>1, <1>7
<1>9. /\ \A m \in D : new[m] \in Keys
      /\ \A m, l \in D : new[m] = new[l] => m = l
  BY <1>1
<1>10. \A m \in Cells \ D : q[m] = Null
  <2> TAKE m \in Cells \ D
  <2>1. CASE m = n
    BY <1>8, <2>1
  <2>2. CASE m # n
    <3>1. p[m] = Null
      BY <1>1, <2>2
    <3>2. m # s
      BY <1>2, <3>1
    <3> QED BY <1>8, <2>2, <3>1, <3>2
  <2> QED BY <2>1, <2>2
<1>11. ASSUME NEW g \in Heads
       PROVE  \E f, j : Leads(f, j, q, g, Null, Bucket(new, D, g))
  <2>1. CASE g = h
    <3>1. Bucket(new, D, g) = Bucket(key, C, h) \ {n}
      <4> HIDE HeadsDiffer
      <4> QED BY <1>0, <2>1 DEF Bucket
    <3>2. \A i \in 0..k0 : i \notin {r - 1, r} => q[f0[i]] = p[f0[i]]
      <4> TAKE i \in 0..k0
      <4>1. k0 \in Nat /\ r \in 0..k0 /\ r - 1 \in 0..k0
        BY <1>3 DEF Leads
      <4>2. i \notin {r - 1, r} => f0[i] \notin {n, s}
        BY <1>3, <1>5, <1>6, <4>1 DEF Leads
      <4>3. f0[i] \in Heads \cup Cells
        <5>1. f0[i] \in Bucket(key, C, h) \cup {h}
          BY <1>3, <1>4, LeadsNext
        <5> QED BY <1>1, <1>2, <5>1 DEF Bucket
      <4> QED BY <1>8, <4>2, <4>3
    <3>3. q[f0[r - 1]] = p[f0[r]]
      BY <1>5, <1>6, <1>8
    <3>4. Leads(Without(f0, k0, r), k0 - 1, q, h, Null, Bucket(key, C, h) \ {f0[r]})
      <4>1. PICK w, B : w = q /\ B = Bucket(key, C, h)
        OBVIOUS
      <4>2. /\ Leads(f0, k0, p, h, Null, B) /\ h \notin B /\ w[f0[r - 1]] = p[f0[r]]
            /\ \A i \in 0..k0 : i \notin {r - 1, r} => w[f0[i]] = p[f0[i]]
        BY <1>3, <1>4, <3>2, <3>3, <4>1
      <4> HIDE HeadsDiffer
      <4>3. Leads(Without(f0, k0, r), k0 - 1, w, h, Null, B \ {f0[r]})
        BY <4>2, Unlinked
      <4> QED BY <4>1, <4>3
    <3>5. Bucket(key, C, h) \ {f0[r]} = Bucket(new, D, g)
      BY <1>5, <3>1
    <3>6. Leads(Without(f0, k0, r), k0 - 1, q, g, Null, Bucket(new, D, g))
      BY <2>1, <3>4, <3>5
    <3> HIDE DEF D
    <3> QED BY <3>6
  <2>2. CASE g # h
    <3>1. Bucket(new, D, g) = Bucket(key, C, g)
      <4> HIDE HeadsDiffer
      <4> QED BY <1>0, <2>2 DEF Bucket
    <3>2. PICK f, j : Leads(f, j, p, g, Null, Bucket(key, C, g))
      BY <1>1
    <3>3. g \notin Bucket(key, C, g) /\ Bucket(key, C, g) \subseteq Cells
      BY <1>1 DEF Bucket
    <3>4. \A i \in 0..j : f[i] \in Bucket(key, C, g) \cup {g}
      BY <3>2, <3>3, LeadsNext
    <3>5. n \notin Bucket(key, C, g) \cup {g} /\ s \notin Bucket(key, C, g) \cup {g}
      BY <1>1, <1>2, <1>5, <1>6, <2>2 DEF Bucket
    <3>6. \A i \in 0..j : q[f[i]] = p[f[i]]
      BY <1>8, <3>3, <3>4, <3>5
    <3>7. Leads(f, j, q, g, Null, Bucket(key, C, g))
      BY <3>2, <3>6, LeadsKept
    <3> QED BY <3>1, <3>7
  <2> QED BY <2>1, <2>2
<1> QED BY <1>1, <1>8, <1>9, <1>10, <1>11 DEF Chains

\* No cells at all.
LEMMA ChainsEmpty ==
    ASSUME NEW p, p = [s \in Heads \cup Cells |-> Null],
           NEW key, key \in [Cells -> Keys \cup {Null}]
    PROVE  Chains(p, key, {})
<1>1. ASSUME NEW h \in Heads PROVE \E f, k : Leads(f, k, p, h, Null, Bucket(key, {}, h))
  <2>1. Leads([i \in 0..0 |-> h], 0, p, h, p[h], {})
    BY LeadsNowhere
  <2>2. p[h] = Null /\ Bucket(key, {}, h) = {}
    BY DEF Bucket
  <2> QED BY <2>1, <2>2
<1> QED BY <1>1 DEF Chains

\* A table read off cells with keys of their own.
LEMMA StoredIs ==
    ASSUME NEW key, NEW dat, NEW C, \A m, n \in C : key[m] = key[n] => m = n, NEW k
    PROVE  LET K == {x \in C : key[x] = k}
               v == IF K = {} THEN Null ELSE dat[CHOOSE x \in K : TRUE] IN
           /\ \A n \in C : key[n] = k => v = dat[n]
           /\ (\A n \in C : key[n] # k) => v = Null
<1> DEFINE K == {x \in C : key[x] = k}
           v == IF K = {} THEN Null ELSE dat[CHOOSE x \in K : TRUE]
<1>1. ASSUME NEW n \in C, key[n] = k PROVE v = dat[n]
  <2>1. K = {n}
    BY <1>1
  <2>2. (CHOOSE x \in K : TRUE) = n
    BY <2>1
  <2> QED BY <2>1, <2>2
<1>2. ASSUME \A n \in C : key[n] # k PROVE v = Null
  BY <1>2
<1> QED BY <1>1, <1>2

-----------------------------------------------------------------------------
(* The hash list                                                           *)

HashInv ==
    /\ Chains(hNext, hKey, hUsed)
    /\ hPprev \in [Cells -> Slots \cup {Null}]
    /\ hData \in [Cells -> Data \cup {Null}]
    /\ \A n \in hUsed : hData[n] \in Data
    /\ \A s \in Slots : hNext[s] # Null => hPprev[hNext[s]] = s

\* The node that is found for a key is in use and has that key; if there is none, no
\* node in use has it.
LEMMA GetNodeFinds ==
    ASSUME HashInv, NEW k \in Keys
    PROVE  /\ GetNode(k) = Null => \A n \in hUsed : hKey[n] # k
           /\ GetNode(k) # Null => GetNode(k) \in hUsed /\ hKey[GetNode(k)] = k
<1> DEFINE c == HChain(HashOf[k])
           S == {n \in hUsed : hKey[n] = k}
<1>1. Chains(hNext, hKey, hUsed) /\ HashOf[k] \in Heads /\ Null \notin hUsed
  BY HeadsDiffer DEF HashInv, Chains
<1>2. On(c) = Bucket(hKey, hUsed, HashOf[k]) /\ DOMAIN c \subseteq Nat
  BY <1>1, ChainsPath DEF HChain
<1>3. Null \notin On(c)
  BY <1>1, <1>2 DEF Bucket
<1> HIDE DEF c
<1>4. /\ FirstIn(c, S) # Null => FirstIn(c, S) \in On(c) \cap S
      /\ FirstIn(c, S) = Null => On(c) \cap S = {}
  <2> HIDE DEF S
  <2> QED BY <1>2, <1>3, FirstInFinds
<1>5. S \subseteq On(c)
  BY <1>2 DEF Bucket
<1>6. GetNode(k) = FirstIn(c, S)
  BY DEF GetNode, c
<1>7. ASSUME GetNode(k) = Null PROVE \A n \in hUsed : hKey[n] # k
  <2>1. S = {}
    BY <1>4, <1>5, <1>6, <1>7
  <2> QED BY <2>1
<1>8. ASSUME GetNode(k) # Null PROVE GetNode(k) \in hUsed /\ hKey[GetNode(k)] = k
  <2>1. GetNode(k) \in S
    BY <1>4, <1>6, <1>8
  <2> QED BY <2>1
<1> QED BY <1>7, <1>8

\* The invariant of the hash list has what the runs check of its pointers.
LEMMA HashInvWellFormed ==
    HashInv => HashWellFormed
<1> SUFFICES ASSUME HashInv PROVE HashWellFormed
  OBVIOUS
<1>1. Chains(hNext, hKey, hUsed)
  BY DEF HashInv
<1>2. ASSUME NEW n \in hUsed
      PROVE  n \in On(HChain(HashOf[hKey[n]])) /\ hNext[hPprev[n]] = n
  <2>1. HashOf[hKey[n]] \in Heads /\ n # Null
    BY <1>1, HeadsDiffer DEF Chains
  <2>2. On(HChain(HashOf[hKey[n]])) = Bucket(hKey, hUsed, HashOf[hKey[n]])
    BY <1>1, <2>1, ChainsPath DEF HChain
  <2>3. PICK s \in Heads \cup hUsed : hNext[s] = n
    BY <1>1, ChainsSlots
  <2>4. s \in Slots
    BY <1>1 DEF Chains, Slots
  <2>5. hPprev[n] = s
    BY <2>1, <2>3, <2>4 DEF HashInv
  <2> QED BY <2>2, <2>3, <2>5 DEF Bucket
<1>3. \A s \in Slots : hNext[s] # Null => hNext[s] \in hUsed /\ hPprev[hNext[s]] = s
  BY <1>1, ChainsSlots DEF HashInv, Slots
<1> QED BY <1>2, <1>3 DEF HashWellFormed

\* A node linked in at the head of its chain: its own pprev and that of the next.
LEMMA HashInsertInv ==
    ASSUME HashInv, NEW k \in Keys, NEW d \in Data, GetNode(k) = Null,
           NEW n \in Cells \ hUsed,
           hUsed' = hUsed \cup {n},
           hKey' = [hKey EXCEPT ![n] = k],
           hData' = [hData EXCEPT ![n] = d],
           hNext' = [hNext EXCEPT ![n] = hNext[HashOf[k]], ![HashOf[k]] = n],
           hPprev' = [m \in Cells |->
               IF m = n THEN HashOf[k] ELSE IF m = hNext[HashOf[k]] THEN n ELSE hPprev[m]]
    PROVE  HashInv'
<1>1. PICK h : h = HashOf[k]
  OBVIOUS
<1>2. /\ Chains(hNext, hKey, hUsed) /\ h \in Heads /\ h \notin Cells /\ Null \notin Cells
      /\ hNext \in [Heads \cup Cells -> Cells \cup {Null}] /\ hUsed \subseteq Cells
  BY <1>1, HeadsDiffer DEF HashInv, Chains
<1>3. Chains(hNext', hKey', hUsed')
  <2>1. \A m \in hUsed : hKey[m] # k
    BY GetNodeFinds
  <2>2. PICK q : q = hNext'
    OBVIOUS
  <2>3. q = [hNext EXCEPT ![n] = hNext[HashOf[k]], ![HashOf[k]] = n]
    BY <2>2
  <2>4. Chains(q, [hKey EXCEPT ![n] = k], hUsed \cup {n})
    BY <1>2, <2>1, <2>3, ChainsAdd
  <2> QED BY <2>2, <2>4
<1>4. /\ hPprev' \in [Cells -> Slots \cup {Null}]
      /\ hPprev'[n] = h
      /\ \A m \in Cells : m # n => hPprev'[m] = IF m = hNext[h] THEN n ELSE hPprev[m]
  BY <1>1, <1>2 DEF HashInv, Slots
<1>5. /\ hNext'[h] = n /\ hNext'[n] = hNext[h]
      /\ \A s \in Slots : s \notin {n, h} => hNext'[s] = hNext[s]
  BY <1>1, <1>2 DEF Slots
<1>6. /\ hData' \in [Cells -> Data \cup {Null}]
      /\ \A m \in hUsed' : hData'[m] \in Data
  BY <1>2 DEF HashInv
<1>7. ASSUME NEW s \in Slots, hNext'[s] # Null
      PROVE  hPprev'[hNext'[s]] = s
  <2>1. CASE s = h
    BY <1>4, <1>5, <2>1
  <2>2. CASE s = n
    <3>1. hNext[h] \in hUsed /\ hNext'[s] = hNext[h]
      BY <1>2, <1>5, <1>7, <2>2, ChainsSlots
    <3> QED BY <1>2, <1>4, <2>2, <3>1
  <2>3. CASE s \notin {n, h}
    <3>1. hNext'[s] = hNext[s] /\ hNext[s] \in hUsed /\ hNext[s] # hNext[h]
      BY <1>2, <1>5, <1>7, <2>3, ChainsSlots DEF Slots
    <3>2. hPprev[hNext[s]] = s
      BY <1>7, <3>1 DEF HashInv
    <3> QED BY <1>2, <1>4, <3>1, <3>2
  <2> QED BY <2>1, <2>2, <2>3
<1> QED BY <1>3, <1>4, <1>6, <1>7 DEF HashInv

\* A node unlinked by its pprev alone, with no search for what leads to it.
LEMMA HashDeleteInv ==
    ASSUME HashInv, NEW k \in Keys, HashDelete(k)
    PROVE  HashInv'
<1>1. PICK n : n = GetNode(k)
  OBVIOUS
<1>2. /\ n \in hUsed /\ n \in Cells /\ hUsed' = hUsed \ {n}
      /\ hNext' = [hNext EXCEPT ![hPprev[n]] = hNext[n], ![n] = Null]
      /\ hPprev' = [m \in Cells |->
            IF m = n THEN Null ELSE IF m = hNext[n] THEN hPprev[n] ELSE hPprev[m]]
      /\ hKey' = [hKey EXCEPT ![n] = Null]
      /\ hData' = [hData EXCEPT ![n] = Null]
  BY <1>1, GetNodeFinds DEF HashDelete, HashInv, Chains
<1>3. /\ Chains(hNext, hKey, hUsed) /\ Null \notin Cells
      /\ hNext \in [Heads \cup Cells -> Cells \cup {Null}] /\ hUsed \subseteq Cells
      /\ hKey \in [Cells -> Keys \cup {Null}]
  BY HeadsDiffer DEF HashInv, Chains
<1>4. PICK s0 \in Heads \cup hUsed : hNext[s0] = n
  BY <1>2, <1>3, ChainsSlots
<1>5. s0 \in Slots /\ s0 \in Heads \cup Cells /\ hPprev[n] = s0
  BY <1>2, <1>3, <1>4 DEF HashInv, Slots
<1>6. Chains(hNext', hKey', hUsed')
  <2>1. CutsOut(hNext, hKey, hUsed, n, s0, hNext', hKey')
    BY <1>2, <1>3, <1>4, <1>5 DEF CutsOut
  <2> QED BY <1>2, <1>3, <2>1, ChainsCut
<1>7. /\ hPprev' \in [Cells -> Slots \cup {Null}]
      /\ \A m \in Cells : m # n => hPprev'[m] = IF m = hNext[n] THEN s0 ELSE hPprev[m]
  BY <1>2, <1>5 DEF HashInv
<1>8. /\ hData' \in [Cells -> Data \cup {Null}]
      /\ \A m \in hUsed' : hData'[m] \in Data
  BY <1>2, <1>3 DEF HashInv
<1>9. /\ hNext'[n] = Null
      /\ s0 # n => hNext'[s0] = hNext[n]
      /\ \A s \in Slots : s \notin {n, s0} => hNext'[s] = hNext[s]
  BY <1>2, <1>3, <1>5 DEF Slots
<1>10. ASSUME NEW s \in Slots, hNext'[s] # Null
       PROVE  hPprev'[hNext'[s]] = s
  <2>1. s # n
    BY <1>9, <1>10
  <2>2. CASE s = s0
    <3>1. hNext'[s] = hNext[n]
      BY <1>9, <2>1, <2>2
    <3>2. hNext[n] \in Cells
      BY <1>2, <1>3, <1>10, <3>1
    <3>3. hNext[n] # n
      <4>1. n \in Heads \cup Cells /\ hNext[s0] # Null
        BY <1>2, <1>3, <1>4
      <4>2. hNext[s0] # hNext[n]
        BY <1>3, <1>5, <2>1, <2>2, <4>1, ChainsSlots
      <4> QED BY <1>4, <4>2
    <3> QED BY <1>7, <2>2, <3>1, <3>2, <3>3
  <2>3. CASE s # s0
    <3>1. hNext'[s] = hNext[s]
      BY <1>9, <2>1, <2>3
    <3>2. hNext[s] \in hUsed /\ hNext[s] # n /\ hNext[s] # hNext[n]
      <4>1. s \in Heads \cup Cells /\ n \in Heads \cup Cells
        BY <1>2 DEF Slots
      <4>2. hNext[s] # Null
        BY <1>10, <3>1
      <4>3. hNext[s] # hNext[s0] /\ hNext[s] # hNext[n]
        BY <1>3, <1>5, <2>1, <2>3, <4>1, <4>2, ChainsSlots
      <4>4. hNext[s] \in hUsed
        BY <1>3, <4>1, <4>2, ChainsSlots
      <4> QED BY <1>4, <4>3, <4>4
    <3>3. hPprev[hNext[s]] = s
      BY <1>10, <3>1 DEF HashInv
    <3> QED BY <1>3, <1>7, <3>1, <3>2, <3>3
  <2> QED BY <2>2, <2>3
<1> QED BY <1>6, <1>7, <1>8, <1>10 DEF HashInv

\* All cells in use are on some chain.
LEMMA ChainsCover ==
    ASSUME NEW p, NEW key, NEW C, Chains(p, key, C)
    PROVE  UNION {On(Path(p[h], p)) : h \in Heads} = C
<1>1. \A h \in Heads : On(Path(p[h], p)) = Bucket(key, C, h)
  BY ChainsPath
<1>2. \A n \in C : HashOf[key[n]] \in Heads /\ n \in Bucket(key, C, HashOf[key[n]])
  BY HeadsDiffer DEF Chains, Bucket
<1>3. \A h \in Heads : Bucket(key, C, h) \subseteq C
  BY DEF Bucket
<1> QED BY <1>1, <1>2, <1>3

\* Freeing the nodes on the chains frees all.
LEMMA HashDestroyInv ==
    ASSUME HashInv, HashDestroy
    PROVE  HashInv' /\ hUsed' = {}
<1>1. UNION {On(HChain(h)) : h \in Heads} = hUsed
  <2>1. UNION {On(Path(hNext[h], hNext)) : h \in Heads} = hUsed
    BY ChainsCover DEF HashInv
  <2> QED BY <2>1 DEF HChain
<1>2. /\ hUsed' = {} /\ hNext' = [s \in Heads \cup Cells |-> Null]
      /\ hPprev' = [n \in Cells |-> Null] /\ hKey' = [n \in Cells |-> Null]
      /\ hData' = [n \in Cells |-> Null]
  BY <1>1 DEF HashDestroy, Slots
<1>3. Chains(hNext', hKey', {})
  BY <1>2, ChainsEmpty
<1> QED BY <1>2, <1>3 DEF HashInv, Slots

-----------------------------------------------------------------------------
(* Tables of cells by the keys they hold                                   *)

TableOf(key, dat, C) == [k \in Keys |->
    LET n == {x \in C : key[x] = k} IN
    IF n = {} THEN Null ELSE dat[CHOOSE x \in n : TRUE]]

\* If no key is held twice, a key finds the datum of the cell that holds it.
LEMMA TableIs ==
    ASSUME NEW key, NEW dat, NEW C, \A m, n \in C : key[m] = key[n] => m = n, NEW k \in Keys
    PROVE  /\ \A n \in C : key[n] = k => TableOf(key, dat, C)[k] = dat[n]
           /\ (\A n \in C : key[n] # k) => TableOf(key, dat, C)[k] = Null
<1> DEFINE n == {x \in C : key[x] = k}
           v == IF n = {} THEN Null ELSE dat[CHOOSE x \in n : TRUE]
<1>1. /\ \A m \in C : key[m] = k => v = dat[m]
      /\ (\A m \in C : key[m] # k) => v = Null
  BY StoredIs
<1>2. TableOf(key, dat, C)[k] = v
  BY DEF TableOf
<1> HIDE DEF v
<1> QED BY <1>1, <1>2

\* A table is a function of the keys.
LEMMA TableFunction ==
    \A key, dat, C : TableOf(key, dat, C) = [j \in Keys |-> TableOf(key, dat, C)[j]]
BY DEF TableOf

\* A cell with a new key adds its datum to the table.
LEMMA TableAdds ==
    ASSUME NEW key, NEW dat, NEW C, \A m, n \in C : key[m] = key[n] => m = n,
           NEW k \in Keys, NEW d, NEW e, \A m \in C : key[m] # k,
           NEW key2, NEW dat2, key2[e] = k, dat2[e] = d,
           \A m \in C : key2[m] = key[m] /\ dat2[m] = dat[m]
    PROVE  TableOf(key2, dat2, C \cup {e}) = [TableOf(key, dat, C) EXCEPT ![k] = d]
<1>1. \A m, n \in C \cup {e} : key2[m] = key2[n] => m = n
  OBVIOUS
<1>2. ASSUME NEW j \in Keys
      PROVE  TableOf(key2, dat2, C \cup {e})[j] = IF j = k THEN d ELSE TableOf(key, dat, C)[j]
  <2>1. /\ \A n \in C : key[n] = j => TableOf(key, dat, C)[j] = dat[n]
        /\ (\A n \in C : key[n] # j) => TableOf(key, dat, C)[j] = Null
    BY TableIs
  <2>2. /\ \A n \in C \cup {e} : key2[n] = j => TableOf(key2, dat2, C \cup {e})[j] = dat2[n]
        /\ (\A n \in C \cup {e} : key2[n] # j) => TableOf(key2, dat2, C \cup {e})[j] = Null
    BY <1>1, TableIs
  <2>3. CASE j = k
    BY <2>2, <2>3
  <2>4. CASE j # k /\ \E n \in C : key[n] = j
    BY <2>1, <2>2, <2>4
  <2>5. CASE j # k /\ ~\E n \in C : key[n] = j
    BY <2>1, <2>2, <2>5
  <2> QED BY <2>3, <2>4, <2>5
<1>3. PICK T, U : T = TableOf(key2, dat2, C \cup {e}) /\ U = TableOf(key, dat, C)
  OBVIOUS
<1>4. /\ T = [j \in Keys |-> T[j]] /\ U = [j \in Keys |-> U[j]]
      /\ \A j \in Keys : T[j] = IF j = k THEN d ELSE U[j]
  BY <1>2, <1>3, TableFunction
<1>5. T = [U EXCEPT ![k] = d]
  BY <1>4
<1> QED BY <1>3, <1>5

\* A cell that is given another datum changes it in the table.
LEMMA TableSets ==
    ASSUME NEW key, NEW dat, NEW C, \A m, n \in C : key[m] = key[n] => m = n,
           NEW e \in C, key[e] \in Keys, NEW d, NEW dat2, dat2[e] = d,
           \A m \in C : m # e => dat2[m] = dat[m]
    PROVE  TableOf(key, dat2, C) = [TableOf(key, dat, C) EXCEPT ![key[e]] = d]
<1>1. PICK k \in Keys : k = key[e]
  OBVIOUS
<1>2. ASSUME NEW j \in Keys
      PROVE  TableOf(key, dat2, C)[j] = IF j = k THEN d ELSE TableOf(key, dat, C)[j]
  <2>1. /\ \A n \in C : key[n] = j => TableOf(key, dat, C)[j] = dat[n]
        /\ (\A n \in C : key[n] # j) => TableOf(key, dat, C)[j] = Null
    BY TableIs
  <2>2. /\ \A n \in C : key[n] = j => TableOf(key, dat2, C)[j] = dat2[n]
        /\ (\A n \in C : key[n] # j) => TableOf(key, dat2, C)[j] = Null
    BY TableIs
  <2>3. CASE j = k
    BY <1>1, <2>2, <2>3
  <2>4. CASE j # k /\ \E n \in C : key[n] = j
    BY <1>1, <2>1, <2>2, <2>4
  <2>5. CASE j # k /\ ~\E n \in C : key[n] = j
    BY <2>1, <2>2, <2>5
  <2> QED BY <2>3, <2>4, <2>5
<1>3. PICK T, U : T = TableOf(key, dat2, C) /\ U = TableOf(key, dat, C)
  OBVIOUS
<1>4. /\ T = [j \in Keys |-> T[j]] /\ U = [j \in Keys |-> U[j]]
      /\ \A j \in Keys : T[j] = IF j = k THEN d ELSE U[j]
  BY <1>2, <1>3, TableFunction
<1>5. T = [U EXCEPT ![k] = d]
  BY <1>4
<1> QED BY <1>1, <1>3, <1>5

\* D is what is left of C without the cells with the keys K.
LeftWithout(K, key, dat, C, key2, dat2, D) ==
    /\ \A m, n \in C : key[m] = key[n] => m = n
    /\ D \subseteq C
    /\ \A m \in C : m \in D <=> key[m] \notin K
    /\ \A m \in D : key2[m] = key[m] /\ dat2[m] = dat[m]

\* The keys K find nothing in what is left without them, and the others what they did.
LEMMA TableLoses ==
    ASSUME NEW key, NEW dat, NEW C, NEW K, NEW D, NEW key2, NEW dat2,
           LeftWithout(K, key, dat, C, key2, dat2, D)
    PROVE  \A j \in Keys :
             TableOf(key2, dat2, D)[j] = IF j \in K THEN Null ELSE TableOf(key, dat, C)[j]
<1> USE DEF LeftWithout
<1>1. \A m, n \in D : key2[m] = key2[n] => m = n
  OBVIOUS
<1>2. ASSUME NEW j \in Keys
      PROVE  TableOf(key2, dat2, D)[j] = IF j \in K THEN Null ELSE TableOf(key, dat, C)[j]
  <2>1. /\ \A n \in C : key[n] = j => TableOf(key, dat, C)[j] = dat[n]
        /\ (\A n \in C : key[n] # j) => TableOf(key, dat, C)[j] = Null
    BY TableIs
  <2>2. /\ \A n \in D : key2[n] = j => TableOf(key2, dat2, D)[j] = dat2[n]
        /\ (\A n \in D : key2[n] # j) => TableOf(key2, dat2, D)[j] = Null
    BY <1>1, TableIs
  <2>3. CASE j \in K
    BY <2>2, <2>3
  <2>4. CASE j \notin K /\ \E n \in C : key[n] = j
    BY <2>1, <2>2, <2>4
  <2>5. CASE j \notin K /\ ~\E n \in C : key[n] = j
    BY <2>1, <2>2, <2>5
  <2> QED BY <2>3, <2>4, <2>5
<1> QED BY <1>2

-----------------------------------------------------------------------------
(* The hash list is a table that owns nothing                              *)

NoOwner == [k \in Keys |-> FALSE]

\* A table that owns nothing disposes of nothing.
LEMMA NothingDisposed ==
    /\ \A K \in SUBSET Keys : {x \in K : NoOwner[x]} = {}
    /\ \A k \in Keys : [NoOwner EXCEPT ![k] = FALSE] = NoOwner
    /\ \A K : [k \in Keys |-> NoOwner[k] /\ k \notin K] = NoOwner
<1>1. \A k \in Keys : NoOwner[k] = FALSE
  BY DEF NoOwner
<1>2. ASSUME NEW K \in SUBSET Keys PROVE {x \in K : NoOwner[x]} = {}
  BY <1>1, Zenon
<1>3. \A k \in Keys : [NoOwner EXCEPT ![k] = FALSE] = NoOwner
  BY DEF NoOwner
<1>4. ASSUME NEW K PROVE [k \in Keys |-> NoOwner[k] /\ k \notin K] = NoOwner
  BY <1>1, Zenon DEF NoOwner
<1> QED BY <1>2, <1>3, <1>4

\* So the hash list frees no data.
LEMMA HashDisposes ==
    ASSUME NEW K \in SUBSET Keys
    PROVE  {HashStored[k] : k \in {x \in K : NoOwner[x]}} = {}
<1>1. {x \in K : NoOwner[x]} = {}
  BY NothingDisposed
<1> QED BY <1>1

\* Each step of the hash list keeps its chains and is one of the table's.
LEMMA HashStep ==
    ASSUME HashInv, HashNext
    PROVE  HashInv' /\ HTable!Next
<1> USE HeadsDiffer
<1>1. /\ hUsed \in SUBSET Cells /\ hKey \in [Cells -> Keys \cup {Null}]
      /\ hData \in [Cells -> Data \cup {Null}]
      /\ \A n \in hUsed : hKey[n] \in Keys
      /\ \A n \in hUsed : hData[n] \in Data
      /\ \A m, n \in hUsed : hKey[m] = hKey[n] => m = n
  BY DEF HashInv, Chains
<1>2. HashStored = TableOf(hKey, hData, hUsed)
  BY DEF HashStored, TableOf
<1>3. HashStored' = TableOf(hKey', hData', hUsed')
  BY DEF HashStored, TableOf
<1>4. ASSUME NEW k \in Keys, NEW d \in Data, HashInsert(k, d)
      PROVE  HashInv' /\ HTable!Next
  <2>1. PICK n \in Cells \ hUsed :
            /\ hUsed' = hUsed \cup {n}
            /\ hKey' = [hKey EXCEPT ![n] = k]
            /\ hData' = [hData EXCEPT ![n] = d]
            /\ hNext' = [hNext EXCEPT ![n] = hNext[HashOf[k]], ![HashOf[k]] = n]
            /\ hPprev' = [m \in Cells |->
                  IF m = n THEN HashOf[k] ELSE IF m = hNext[HashOf[k]] THEN n ELSE hPprev[m]]
    BY <1>4 DEF HashInsert
  <2>2. GetNode(k) = Null /\ found' = found
    BY <1>4 DEF HashInsert
  <2>3. HashInv'
    BY <2>1, <2>2, HashInsertInv
  <2>4. \A m \in hUsed : hKey[m] # k
    BY <2>2, GetNodeFinds
  <2>5. TableOf(hKey', hData', hUsed') = [HashStored EXCEPT ![k] = d]
    <3>1. PICK key, dat, C, key2, dat2 :
             /\ key = hKey /\ dat = hData /\ C = hUsed /\ key2 = hKey' /\ dat2 = hData'
      OBVIOUS
    <3>2. /\ \A m, l \in C : key[m] = key[l] => m = l
          /\ \A m \in C : key[m] # k
          /\ key2[n] = k /\ dat2[n] = d
          /\ \A m \in C : key2[m] = key[m] /\ dat2[m] = dat[m]
      BY <1>1, <2>1, <2>4, <3>1
    <3>3. TableOf(key2, dat2, C \cup {n}) = [TableOf(key, dat, C) EXCEPT ![k] = d]
      BY <3>2, TableAdds
    <3> QED BY <1>2, <2>1, <3>1, <3>3
  <2>6. HTable!Put(k, d, FALSE)
    <3>1. {HashStored[x] : x \in {y \in {k} : NoOwner[y]}} = {}
      BY HashDisposes
    <3>2. [NoOwner EXCEPT ![k] = FALSE] = NoOwner
      BY NothingDisposed
    <3> QED BY <1>3, <2>2, <2>5, <3>1, <3>2 DEF HTable!Put, HTable!Dispose, NoOwner
  <2> QED BY <2>3, <2>6 DEF HTable!Next
<1>5. ASSUME NEW k \in Keys, HashDelete(k)
      PROVE  HashInv' /\ HTable!Next
  <2>1. HashInv'
    BY <1>5, HashDeleteInv
  <2>2. PICK n : n = GetNode(k)
    OBVIOUS
  <2>3. /\ n \in hUsed /\ hKey[n] = k /\ hUsed' = hUsed \ {n} /\ found' = found
        /\ hKey' = [hKey EXCEPT ![n] = Null] /\ hData' = [hData EXCEPT ![n] = Null]
    BY <1>5, <2>2, GetNodeFinds DEF HashDelete
  <2>4. TableOf(hKey', hData', hUsed') = [j \in Keys |-> IF j \in {k} THEN Null ELSE HashStored[j]]
    <3>1. PICK key, dat, C, key2, dat2, D, K :
             /\ key = hKey /\ dat = hData /\ C = hUsed /\ key2 = hKey' /\ dat2 = hData'
             /\ D = hUsed' /\ K = {k}
      OBVIOUS
    <3>2. LeftWithout(K, key, dat, C, key2, dat2, D)
      BY <1>1, <2>3, <3>1 DEF LeftWithout
    <3>3. \A j \in Keys :
            TableOf(key2, dat2, D)[j] = IF j \in K THEN Null ELSE TableOf(key, dat, C)[j]
      BY <3>2, TableLoses
    <3>4. PICK T, U : T = TableOf(key2, dat2, D) /\ U = TableOf(key, dat, C)
      OBVIOUS
    <3>5. T = [j \in Keys |-> T[j]] /\ \A j \in Keys : T[j] = IF j \in K THEN Null ELSE U[j]
      BY <3>3, <3>4, TableFunction
    <3>6. T = [j \in Keys |-> IF j \in K THEN Null ELSE U[j]]
      BY <3>5
    <3> QED BY <1>2, <3>1, <3>4, <3>6
  <2>5. HTable!Delete({k})
    <3>1. {HashStored[x] : x \in {y \in {k} : NoOwner[y]}} = {}
      BY HashDisposes
    <3>2. [j \in Keys |-> NoOwner[j] /\ j \notin {k}] = NoOwner
      BY NothingDisposed
    <3> QED BY <1>3, <2>3, <2>4, <3>1, <3>2 DEF HTable!Delete, HTable!Dispose, NoOwner
  <2> QED BY <2>1, <2>5 DEF HTable!Next
<1>6. ASSUME NEW k \in Keys, HashLookup(k)
      PROVE  HashInv' /\ HTable!Next
  <2>1. /\ found' = <<k, IF GetNode(k) = Null THEN Null ELSE hData[GetNode(k)]>>
        /\ UNCHANGED <<hNext, hPprev, hKey, hData, hUsed>>
    BY <1>6 DEF HashLookup
  <2>2. HashInv'
    BY <2>1 DEF HashInv
  <2>3. HashStored[k] = IF GetNode(k) = Null THEN Null ELSE hData[GetNode(k)]
    <3>1. /\ \A n \in hUsed : hKey[n] = k => TableOf(hKey, hData, hUsed)[k] = hData[n]
          /\ (\A n \in hUsed : hKey[n] # k) => TableOf(hKey, hData, hUsed)[k] = Null
      BY <1>1, TableIs
    <3> QED BY <1>2, <3>1, GetNodeFinds
  <2>4. HashStored' = HashStored
    BY <1>2, <1>3, <2>1
  <2>5. HTable!Lookup(k)
    BY <2>1, <2>3, <2>4 DEF HTable!Lookup
  <2> QED BY <2>2, <2>5 DEF HTable!Next
<1>7. ASSUME HashDestroy
      PROVE  HashInv' /\ HTable!Next
  <2>1. HashInv' /\ hUsed' = {} /\ found' = found
    BY <1>7, HashDestroyInv DEF HashDestroy
  <2>2. TableOf(hKey', hData', hUsed') = [j \in Keys |-> IF j \in Keys THEN Null ELSE HashStored[j]]
    BY <2>1 DEF TableOf
  <2>3. HTable!Delete(Keys)
    <3>1. {HashStored[x] : x \in {y \in Keys : NoOwner[y]}} = {}
      BY HashDisposes
    <3>2. [j \in Keys |-> NoOwner[j] /\ j \notin Keys] = NoOwner
      BY NothingDisposed
    <3> QED BY <1>3, <2>1, <2>2, <3>1, <3>2 DEF HTable!Delete, HTable!Dispose, NoOwner
  <2> QED BY <2>1, <2>3 DEF HTable!Next
<1> QED BY <1>4, <1>5, <1>6, <1>7 DEF HashNext

\* At first the hash list is empty.
LEMMA HashStart ==
    ASSUME HashInit
    PROVE  HashInv /\ HTable!Init
<1> USE HeadsDiffer
<1>1. /\ hNext = [s \in Heads \cup Cells |-> Null] /\ hPprev = [n \in Cells |-> Null]
      /\ hKey = [n \in Cells |-> Null] /\ hData = [n \in Cells |-> Null]
      /\ hUsed = {} /\ found = <<Null, Null>>
  BY DEF HashInit, Slots
<1>2. Chains(hNext, hKey, hUsed)
  BY <1>1, ChainsEmpty
<1>3. HashInv
  BY <1>1, <1>2 DEF HashInv, Slots
<1>4. HashStored = [k \in Keys |-> Null]
  BY <1>1 DEF HashStored
<1> QED BY <1>1, <1>3, <1>4 DEF HTable!Init

-----------------------------------------------------------------------------
(* The map                                                                 *)

MapInv ==
    /\ Chains(mNext, mKey, mUsed)
    /\ mData \in [Cells -> Data \cup {Null}]
    /\ mFree \in [Cells -> BOOLEAN]
    /\ \A e \in mUsed : mData[e] \in Data
    /\ existing \in SUBSET Data

\* The data of the map exists, each held once.
HeldOnce ==
    /\ \A e \in mUsed : mData[e] \in existing
    /\ \A e, g \in mUsed : mData[e] = mData[g] => e = g

\* No two keys are 2^32 apart, or a multiple of it.
NearKeys == \A j, k \in Keys : SameKey(j, k) => j = k

\* A key compares equal to itself.
LEMMA SameAsItself ==
    \A k \in Keys : SameKey(k, k)
<1> TAKE k \in Keys
<1>1. k \in Nat /\ IntRange \in Nat /\ IntRange # 0
  BY ContainerAssumption, MapAssumption
<1>2. k - k = 0 /\ 0 % IntRange = 0 /\ ~(k > k)
  BY <1>1
<1> QED BY <1>2 DEF SameKey

\* The entry that is found for a key is in use and compares equal; if there is none,
\* no entry has the key.
LEMMA EntryForFinds ==
    ASSUME MapInv, NEW k \in Keys
    PROVE  /\ EntryFor(k) = Null => \A e \in mUsed : mKey[e] # k
           /\ EntryFor(k) # Null => EntryFor(k) \in mUsed /\ SameKey(mKey[EntryFor(k)], k)
<1> DEFINE c == Path(mNext[HashOf[k]], mNext)
           S == {e \in mUsed : SameKey(mKey[e], k)}
<1>1. Chains(mNext, mKey, mUsed) /\ HashOf[k] \in Heads /\ Null \notin mUsed
  BY HeadsDiffer DEF MapInv, Chains
<1>2. On(c) = Bucket(mKey, mUsed, HashOf[k]) /\ DOMAIN c \subseteq Nat
  BY <1>1, ChainsPath
<1>3. Null \notin On(c)
  BY <1>1, <1>2 DEF Bucket
<1> HIDE DEF c
<1>4. /\ FirstIn(c, S) # Null => FirstIn(c, S) \in On(c) \cap S
      /\ FirstIn(c, S) = Null => On(c) \cap S = {}
  <2> HIDE DEF S
  <2> QED BY <1>2, <1>3, FirstInFinds
<1>5. EntryFor(k) = FirstIn(c, S)
  BY DEF EntryFor, c
<1>6. ASSUME EntryFor(k) = Null PROVE \A e \in mUsed : mKey[e] # k
  <2> SUFFICES ASSUME NEW e \in mUsed, mKey[e] = k PROVE FALSE
    OBVIOUS
  <2>1. e \in On(c)
    BY <1>2 DEF Bucket
  <2>2. e \in S
    BY SameAsItself
  <2> QED BY <1>4, <1>5, <1>6, <2>1, <2>2
<1>7. ASSUME EntryFor(k) # Null
      PROVE  EntryFor(k) \in mUsed /\ SameKey(mKey[EntryFor(k)], k)
  <2>1. EntryFor(k) \in S
    BY <1>4, <1>5, <1>7
  <2> QED BY <2>1
<1> QED BY <1>6, <1>7

\* The pointers of the map, and one entry for each key.
LEMMA MapInvWellFormed ==
    MapInv => MapWellFormed
<1> SUFFICES ASSUME MapInv PROVE MapWellFormed
  OBVIOUS
<1>1. Chains(mNext, mKey, mUsed) /\ DOMAIN mNext = Heads \cup Cells
  BY DEF MapInv, Chains
<1>2. ASSUME NEW e \in mUsed
      PROVE  e \in On(Path(mNext[HashOf[mKey[e]]], mNext))
  <2>1. HashOf[mKey[e]] \in Heads
    BY <1>1, HeadsDiffer DEF Chains
  <2>2. On(Path(mNext[HashOf[mKey[e]]], mNext)) = Bucket(mKey, mUsed, HashOf[mKey[e]])
    BY <1>1, <2>1, ChainsPath
  <2> QED BY <2>2 DEF Bucket
<1>3. \A s \in DOMAIN mNext : mNext[s] # Null => mNext[s] \in mUsed
  BY <1>1, ChainsSlots
<1>4. ASSUME NEW k \in Keys
      PROVE  Cardinality(EntryOf(k)) <= 1
  <2>1. CASE EntryOf(k) = {}
    BY <2>1, FS_EmptySet
  <2>2. CASE EntryOf(k) # {}
    <3>1. PICK e : e \in EntryOf(k)
      BY <2>2
    <3>2. EntryOf(k) = {e}
      BY <1>1, <3>1 DEF EntryOf, Chains
    <3> QED BY <3>2, FS_Singleton
  <2> QED BY <2>1, <2>2
<1> QED BY <1>2, <1>3, <1>4 DEF MapWellFormed

\* Data that is freed was that of an entry.
LEMMA FreedIs ==
    \A E, d : d \in Freed(E) <=> \E e \in E : mFree[e] /\ d = mData[e]
  BY Zenon DEF Freed

\* A new entry goes to the chain of its key.
LEMMA MapAddInv ==
    ASSUME MapInv, NEW k \in Keys, NEW d \in Data, NEW own \in BOOLEAN, EntryFor(k) = Null,
           NEW e \in Cells \ mUsed,
           mUsed' = mUsed \cup {e},
           mKey' = [mKey EXCEPT ![e] = k],
           mData' = [mData EXCEPT ![e] = d],
           mFree' = [mFree EXCEPT ![e] = own],
           mNext' = [mNext EXCEPT ![e] = mNext[HashOf[k]], ![HashOf[k]] = e],
           existing' = existing
    PROVE  MapInv'
<1>1. Chains(mNext, mKey, mUsed) /\ \A m \in mUsed : mKey[m] # k
  BY EntryForFinds DEF MapInv
<1>2. PICK q : q = mNext'
  OBVIOUS
<1>3. q = [mNext EXCEPT ![e] = mNext[HashOf[k]], ![HashOf[k]] = e]
  BY <1>2
<1>4. Chains(q, [mKey EXCEPT ![e] = k], mUsed \cup {e})
  BY <1>1, <1>3, ChainsAdd
<1>5. Chains(mNext', mKey', mUsed')
  BY <1>2, <1>4
<1>6. mUsed \in SUBSET Cells
  BY <1>1 DEF Chains
<1> QED BY <1>5, <1>6 DEF MapInv

\* An entry that is deleted leaves its chain to the others.
LEMMA MapUnsetInv ==
    ASSUME MapInv, NEW k \in Keys, Unset(k)
    PROVE  /\ MapInv'
           /\ EntryFor(k) \in mUsed /\ mUsed' = mUsed \ {EntryFor(k)}
           /\ \A e \in mUsed' : mKey'[e] = mKey[e] /\ mData'[e] = mData[e] /\ mFree'[e] = mFree[e]
<1>1. PICK e : e = EntryFor(k)
  OBVIOUS
<1>2. Chains(mNext, mKey, mUsed) /\ e \in mUsed /\ e \in Cells /\ Null \notin Cells
  BY <1>1, EntryForFinds, HeadsDiffer DEF Unset, MapInv, Chains
<1>3. /\ mNext \in [Heads \cup Cells -> Cells \cup {Null}] /\ DOMAIN mNext = Heads \cup Cells
      /\ mKey \in [Cells -> Keys \cup {Null}] /\ mUsed \in SUBSET Cells
  BY <1>2 DEF Chains
<1>4. PICK s : s = SlotOf(k)
  OBVIOUS
<1>5. s \in Heads \cup Cells /\ mNext[s] = e
  <2>1. \E x \in DOMAIN mNext : mNext[x] = e
    BY <1>2, <1>3, ChainsSlots
  <2> QED BY <1>1, <1>3, <1>4, <2>1 DEF SlotOf
<1>6. /\ mUsed' = mUsed \ {e}
      /\ existing' = existing \ Freed({e})
      /\ mNext' = [mNext EXCEPT ![s] = mNext[e], ![e] = Null]
      /\ mKey' = [x \in Cells |-> IF x \in {e} THEN Null ELSE mKey[x]]
      /\ mData' = [x \in Cells |-> IF x \in {e} THEN Null ELSE mData[x]]
      /\ mFree' = [x \in Cells |-> mFree[x] /\ x \notin {e}]
  BY <1>1, <1>4 DEF Unset, Erase
<1>7. CutsOut(mNext, mKey, mUsed, e, s, mNext', mKey')
  BY <1>2, <1>3, <1>5, <1>6 DEF CutsOut
<1>8. Chains(mNext', mKey', mUsed')
  BY <1>2, <1>6, <1>7, ChainsCut
<1>9. mFree' \in [Cells -> BOOLEAN]
  BY <1>6
<1>10. /\ mData' \in [Cells -> Data \cup {Null}]
       /\ \A x \in mUsed' : mData'[x] \in Data /\ mKey'[x] = mKey[x] /\ mData'[x] = mData[x]
       /\ existing' \in SUBSET Data
  BY <1>3, <1>6 DEF MapInv
<1>11. \A x \in mUsed' : mFree'[x] = mFree[x]
  <2> TAKE x \in mUsed'
  <2>1. x \in Cells /\ x \notin {e}
    BY <1>3, <1>6
  <2>2. mFree \in [Cells -> BOOLEAN]
    BY DEF MapInv
  <2>3. mFree'[x] <=> mFree[x]
    BY <1>6, <2>1, Zenon
  <2>4. mFree'[x] \in BOOLEAN /\ mFree[x] \in BOOLEAN
    BY <1>9, <2>1, <2>2
  <2> QED BY <2>3, <2>4
<1>12. MapInv'
  BY <1>8, <1>9, <1>10 DEF MapInv
<1> QED BY <1>1, <1>2, <1>6, <1>10, <1>11, <1>12

\* Clearing empties the chains.
LEMMA MapClearInv ==
    ASSUME MapInv, Clear
    PROVE  MapInv' /\ mUsed' = {}
<1>1. Chains(mNext, mKey, mUsed) /\ DOMAIN mNext = Heads \cup Cells
  BY DEF MapInv, Chains
<1>2. /\ mUsed' = {} /\ existing' = existing \ Freed(mUsed)
      /\ mNext' = [s \in Heads \cup Cells |-> Null]
      /\ mKey' = [x \in Cells |-> IF x \in mUsed THEN Null ELSE mKey[x]]
      /\ mData' = [x \in Cells |-> IF x \in mUsed THEN Null ELSE mData[x]]
      /\ mFree' = [x \in Cells |-> mFree[x] /\ x \notin mUsed]
  BY <1>1 DEF Clear, Erase
<1>3. mKey' \in [Cells -> Keys \cup {Null}]
  BY <1>1, <1>2 DEF Chains
<1>4. Chains(mNext', mKey', {})
  BY <1>2, <1>3, ChainsEmpty
<1>5. mFree' \in [Cells -> BOOLEAN]
  BY <1>2
<1> QED BY <1>2, <1>4, <1>5 DEF MapInv

\* Each step of the map keeps its chains.
LEMMA MapStepInv ==
    ASSUME MapInv, MapNext
    PROVE  MapInv'
<1>1. ASSUME NEW d \in Data, Create(d) PROVE MapInv'
  BY <1>1 DEF Create, MapInv
<1>2. ASSUME NEW k \in Keys, NEW d \in Data, NEW own \in BOOLEAN, Replace(k, d, own)
      PROVE  MapInv'
  <2>1. EntryFor(k) \in mUsed /\ mUsed \in SUBSET Cells
    BY <1>2, EntryForFinds DEF Replace, MapInv, Chains
  <2> QED BY <1>2, <2>1 DEF Replace, MapInv
<1>3. ASSUME NEW k \in Keys, NEW d \in Data, NEW own \in BOOLEAN, Add(k, d, own)
      PROVE  MapInv'
  BY <1>3, MapAddInv DEF Add
<1>4. ASSUME NEW k \in Keys, Unset(k) PROVE MapInv'
  BY <1>4, MapUnsetInv
<1>5. ASSUME NEW k \in Keys, Get(k) PROVE MapInv'
  BY <1>5 DEF Get, MapInv
<1>6. ASSUME Clear PROVE MapInv'
  BY <1>6, MapClearInv
<1> QED BY <1>1, <1>2, <1>3, <1>4, <1>5, <1>6 DEF MapNext

\* At first the map is empty.
LEMMA MapStart ==
    ASSUME MapInit
    PROVE  MapInv /\ HeldOnce /\ MTable!Init
<1> USE HeadsDiffer
<1>1. /\ mNext = [s \in Heads \cup Cells |-> Null] /\ mKey = [e \in Cells |-> Null]
      /\ mData = [e \in Cells |-> Null] /\ mFree = [e \in Cells |-> FALSE]
      /\ mUsed = {} /\ existing = {} /\ got = <<Null, Null>>
  BY DEF MapInit
<1>2. Chains(mNext, mKey, mUsed)
  BY <1>1, ChainsEmpty
<1>3. MapInv /\ HeldOnce
  BY <1>1, <1>2 DEF MapInv, HeldOnce
<1>4. \A k \in Keys : EntryOf(k) = {}
  BY <1>1 DEF EntryOf
<1> QED BY <1>1, <1>3, <1>4 DEF MTable!Init

\* Each step of the map keeps its data apart, if what is set is fresh.
LEMMA HeldOnceStep ==
    ASSUME SetsFresh, MapInv, HeldOnce, MapNext
    PROVE  HeldOnce'
<1>0. mUsed \in SUBSET Cells
  BY DEF MapInv, Chains
<1>1. ASSUME NEW d \in Data, Create(d) PROVE HeldOnce'
  BY <1>1 DEF Create, HeldOnce
<1>2. ASSUME NEW k \in Keys, NEW d \in Data, NEW own \in BOOLEAN, Replace(k, d, own)
      PROVE  HeldOnce'
  <2>1. PICK e : e = EntryFor(k)
    OBVIOUS
  <2>2. /\ e \in mUsed /\ d \in existing /\ \A x \in mUsed : mData[x] # d
        /\ existing' = existing \ Freed({e}) /\ mData' = [mData EXCEPT ![e] = d]
        /\ mUsed' = mUsed
    BY <1>2, <2>1, EntryForFinds DEF Replace, MaySet
  <2>3. \A x \in mUsed : mData'[x] = IF x = e THEN d ELSE mData[x]
    BY <1>0, <2>2 DEF MapInv
  <2>4. ASSUME NEW x \in mUsed PROVE mData'[x] \in existing'
    <3>1. mData'[x] \in existing /\ mData'[x] # mData[e]
      BY <2>2, <2>3 DEF HeldOnce
    <3>2. mData'[x] \notin Freed({e})
      BY <3>1, FreedIs
    <3> QED BY <2>2, <3>1, <3>2
  <2>5. \A x, y \in mUsed : mData'[x] = mData'[y] => x = y
    BY <2>2, <2>3 DEF HeldOnce
  <2> QED BY <2>2, <2>4, <2>5 DEF HeldOnce
<1>3. ASSUME NEW k \in Keys, NEW d \in Data, NEW own \in BOOLEAN, Add(k, d, own)
      PROVE  HeldOnce'
  BY <1>0, <1>3 DEF Add, MaySet, HeldOnce, MapInv
<1>4. ASSUME NEW k \in Keys, Unset(k) PROVE HeldOnce'
  <2>1. PICK e : e = EntryFor(k)
    OBVIOUS
  <2>2. /\ e \in mUsed /\ mUsed' = mUsed \ {e} /\ existing' = existing \ Freed({e})
        /\ \A x \in mUsed' : mData'[x] = mData[x]
    BY <1>4, <2>1, MapUnsetInv DEF Unset, Erase
  <2>3. ASSUME NEW x \in mUsed' PROVE mData'[x] \in existing'
    <3>1. mData'[x] \in existing /\ mData'[x] # mData[e]
      BY <2>2 DEF HeldOnce
    <3>2. mData'[x] \notin Freed({e})
      BY <3>1, FreedIs
    <3> QED BY <2>2, <3>1, <3>2
  <2>4. \A x, y \in mUsed' : mData'[x] = mData'[y] => x = y
    BY <2>2 DEF HeldOnce
  <2> QED BY <2>3, <2>4 DEF HeldOnce
<1>5. ASSUME NEW k \in Keys, Get(k) PROVE HeldOnce'
  BY <1>5 DEF Get, HeldOnce
<1>6. ASSUME Clear PROVE HeldOnce'
  BY <1>6, MapClearInv DEF HeldOnce
<1> QED BY <1>1, <1>2, <1>3, <1>4, <1>5, <1>6 DEF MapNext

\* What the cells C with the keys key own, by key.
OwnedOf(key, free, C) == [k \in Keys |-> \E e \in {x \in C : key[x] = k} : free[e]]

OwnedMap == OwnedOf(mKey, mFree, mUsed)

StoredMap == TableOf(mKey, mData, mUsed)

\* What the table owns under the keys K is what the entries with these keys free.
LEMMA MapDisposes ==
    ASSUME MapInv, NEW K \in SUBSET Keys, NEW E, E = {e \in mUsed : mKey[e] \in K}
    PROVE  {StoredMap[k] : k \in {x \in K : OwnedMap[x]}} = Freed(E)
<1>1. \A k \in Keys : OwnedMap[k] <=> \E e \in mUsed : mKey[e] = k /\ mFree[e]
  BY Zenon DEF OwnedMap, OwnedOf
<1>2. ASSUME NEW e \in mUsed PROVE StoredMap[mKey[e]] = mData[e]
  <2>1. /\ \A m, n \in mUsed : mKey[m] = mKey[n] => m = n
        /\ mKey[e] \in Keys
    BY DEF MapInv, Chains
  <2> QED BY <2>1, TableIs DEF StoredMap
<1>3. ASSUME NEW d PROVE d \in {StoredMap[k] : k \in {x \in K : OwnedMap[x]}} <=> d \in Freed(E)
  <2>1. d \in {StoredMap[k] : k \in {x \in K : OwnedMap[x]}}
          <=> \E k \in K : OwnedMap[k] /\ d = StoredMap[k]
    BY Zenon
  <2>2. (\E k \in K : OwnedMap[k] /\ d = StoredMap[k])
          <=> \E k \in K : (\E e \in mUsed : mKey[e] = k /\ mFree[e]) /\ d = StoredMap[k]
    BY <1>1, Zenon
  <2>3. (\E k \in K : (\E e \in mUsed : mKey[e] = k /\ mFree[e]) /\ d = StoredMap[k])
          <=> \E e \in mUsed : mKey[e] \in K /\ mFree[e] /\ d = mData[e]
    BY <1>2, Zenon
  <2>4. (\E e \in mUsed : mKey[e] \in K /\ mFree[e] /\ d = mData[e])
          <=> \E e \in E : mFree[e] /\ d = mData[e]
    BY Zenon
  <2>5. d \in Freed(E) <=> \E e \in E : mFree[e] /\ d = mData[e]
    BY Zenon DEF Freed
  <2> QED BY <2>1, <2>2, <2>3, <2>4, <2>5
<1> QED BY <1>3, Zenon

\* Of the keys other than k the table owns what it did.
OwnsElsewhere(k, key, free, C, key2, free2, D) ==
    \A j \in Keys : j # k => ((\E e \in D : key2[e] = j /\ free2[e])
                                <=> (\E e \in C : key[e] = j /\ free[e]))

\* What that says of the tables of owners.
LEMMA OwnedElsewhere ==
    ASSUME NEW key, NEW free, NEW C, NEW key2, NEW free2, NEW D, NEW k,
           OwnsElsewhere(k, key, free, C, key2, free2, D)
    PROVE  \A j \in Keys : j # k => OwnedOf(key2, free2, D)[j] = OwnedOf(key, free, C)[j]
<1>1. PICK T, U : T = OwnedOf(key2, free2, D) /\ U = OwnedOf(key, free, C)
  OBVIOUS
<1>2. /\ \A j \in Keys : T[j] <=> \E e \in D : key2[e] = j /\ free2[e]
      /\ \A j \in Keys : U[j] <=> \E e \in C : key[e] = j /\ free[e]
  BY <1>1, Zenon DEF OwnedOf
<1>3. T \in [Keys -> BOOLEAN] /\ U \in [Keys -> BOOLEAN]
  BY <1>1 DEF OwnedOf
<1>4. \A j \in Keys : j # k => (T[j] <=> U[j])
  BY <1>2, Zenon DEF OwnsElsewhere
<1>5. \A j \in Keys : j # k => T[j] = U[j]
  BY <1>3, <1>4
<1> QED BY <1>1, <1>5

\* The table owns what it did without the keys K.
OwnsLess(K, key, free, C, key2, free2, D) ==
    \A j \in Keys : (\E e \in D : key2[e] = j /\ free2[e])
                      <=> ((\E e \in C : key[e] = j /\ free[e]) /\ j \notin K)

\* What that says of the tables of owners.
LEMMA OwnedLoses ==
    ASSUME NEW key, NEW free, NEW C, NEW key2, NEW free2, NEW D, NEW K,
           OwnsLess(K, key, free, C, key2, free2, D)
    PROVE  \A j \in Keys : OwnedOf(key2, free2, D)[j] <=> (OwnedOf(key, free, C)[j] /\ j \notin K)
<1>1. \A j \in Keys : OwnedOf(key2, free2, D)[j] <=> \E e \in D : key2[e] = j /\ free2[e]
  BY Zenon DEF OwnedOf
<1>2. \A j \in Keys : OwnedOf(key, free, C)[j] <=> \E e \in C : key[e] = j /\ free[e]
  BY Zenon DEF OwnedOf
<1> QED BY <1>1, <1>2, Zenon DEF OwnsLess

\* What must be shown of a step that puts a datum into the table, ...
LEMMA PutIs ==
    ASSUME NEW k \in Keys, NEW d, NEW own, NEW F,
           F = {StoredMap[x] : x \in {y \in {k} : OwnedMap[y]}},
           F \subseteq existing, existing' = existing \ F,
           StoredMap' = [StoredMap EXCEPT ![k] = d],
           OwnedMap' = [OwnedMap EXCEPT ![k] = own],
           d \in existing', got' = got
    PROVE  MTable!Put(k, d, own)
  BY Zenon DEF MTable!Put, MTable!Dispose, StoredMap, OwnedMap, TableOf, OwnedOf, EntryOf

\* ... of one that deletes the keys K ...
LEMMA DeleteIs ==
    ASSUME NEW K, NEW F,
           F = {StoredMap[x] : x \in {y \in K : OwnedMap[y]}},
           F \subseteq existing, existing' = existing \ F,
           StoredMap' = [k \in Keys |-> IF k \in K THEN Null ELSE StoredMap[k]],
           OwnedMap' = [k \in Keys |-> OwnedMap[k] /\ k \notin K],
           got' = got
    PROVE  MTable!Delete(K)
  BY Zenon DEF MTable!Delete, MTable!Dispose, StoredMap, OwnedMap, TableOf, OwnedOf, EntryOf

\* ... and of one that looks a key up.
LEMMA LookupIs ==
    ASSUME NEW k, got' = <<k, StoredMap[k]>>,
           StoredMap' = StoredMap, OwnedMap' = OwnedMap, existing' = existing
    PROVE  MTable!Lookup(k)
  BY Zenon DEF MTable!Lookup, StoredMap, OwnedMap, TableOf, OwnedOf, EntryOf

\* ... and of one that creates a datum, which leaves the table alone.
LEMMA CreateIs ==
    ASSUME NEW d, d \notin existing, existing' = existing \cup {d},
           StoredMap' = StoredMap, OwnedMap' = OwnedMap, got' = got
    PROVE  MTable!Create(d)
  BY Zenon DEF MTable!Create, StoredMap, OwnedMap, TableOf, OwnedOf, EntryOf

\* Entries of the map hold data that exists, so what they free exists.
LEMMA FreedExists ==
    ASSUME HeldOnce, NEW E \in SUBSET mUsed
    PROVE  Freed(E) \subseteq existing
<1> SUFFICES ASSUME NEW d \in Freed(E) PROVE d \in existing
  OBVIOUS
<1>1. PICK e \in E : d = mData[e]
  BY Zenon DEF Freed
<1> QED BY <1>1 DEF HeldOnce

\* What Replace does to the table.
LEMMA ReplaceIsPut ==
    ASSUME SetsFresh, NearKeys, MapInv, HeldOnce,
           NEW k \in Keys, NEW d \in Data, NEW own \in BOOLEAN, Replace(k, d, own)
    PROVE  MTable!Put(k, d, own)
<1>1. PICK e : e = EntryFor(k)
  OBVIOUS
<1>2. /\ mUsed \in SUBSET Cells /\ mKey \in [Cells -> Keys \cup {Null}]
      /\ \A x \in mUsed : mKey[x] \in Keys
      /\ \A x, y \in mUsed : mKey[x] = mKey[y] => x = y
      /\ mData \in [Cells -> Data \cup {Null}] /\ mFree \in [Cells -> BOOLEAN]
  BY DEF MapInv, Chains
<1>3. /\ e \in mUsed /\ SameKey(mKey[e], k) /\ d \in existing /\ \A x \in mUsed : mData[x] # d
      /\ existing' = existing \ Freed({e}) /\ mData' = [mData EXCEPT ![e] = d]
      /\ mFree' = [mFree EXCEPT ![e] = own]
      /\ mUsed' = mUsed /\ mKey' = mKey /\ got' = got
  BY <1>1, EntryForFinds DEF Replace, MaySet
<1>4. mKey[e] = k /\ \A x \in mUsed : mKey[x] = k => x = e
  BY <1>2, <1>3 DEF NearKeys
<1>5. Freed({e}) = {StoredMap[x] : x \in {y \in {k} : OwnedMap[y]}}
  <2>1. PICK E, K : E = {e} /\ K = {k}
    OBVIOUS
  <2>2. K \in SUBSET Keys /\ E = {x \in mUsed : mKey[x] \in K}
    BY <1>3, <1>4, <2>1
  <2>3. {StoredMap[x] : x \in {y \in K : OwnedMap[y]}} = Freed(E)
    BY <2>2, MapDisposes
  <2> QED BY <2>1, <2>3, Zenon
<1>6. Freed({e}) \subseteq existing
  BY <1>3, FreedExists
<1>7. StoredMap' = [StoredMap EXCEPT ![k] = d]
  <2>1. PICK key, dat, C, dat2 : key = mKey /\ dat = mData /\ C = mUsed /\ dat2 = mData'
    OBVIOUS
  <2>2. /\ \A x, y \in C : key[x] = key[y] => x = y
        /\ e \in C /\ key[e] \in Keys /\ dat2[e] = d
        /\ \A x \in C : x # e => dat2[x] = dat[x]
    BY <1>2, <1>3, <2>1
  <2>3. TableOf(key, dat2, C) = [TableOf(key, dat, C) EXCEPT ![key[e]] = d]
    BY <2>2, TableSets
  <2>4. StoredMap' = TableOf(key, dat2, C) /\ StoredMap = TableOf(key, dat, C)
    BY <1>3, <2>1 DEF StoredMap, TableOf
  <2> QED BY <1>4, <2>1, <2>3, <2>4
<1>8. OwnedMap' = [OwnedMap EXCEPT ![k] = own]
  <2>1. PICK key, free, C, free2 : key = mKey /\ free = mFree /\ C = mUsed /\ free2 = mFree'
    OBVIOUS
  <2>2. /\ e \in C /\ key[e] = k /\ (\A x \in C : key[x] = k => x = e)
        /\ free2[e] = own
        /\ \A x \in C : x # e => free2[x] = free[x]
    BY <1>2, <1>3, <1>4, <2>1
  <2>3. (\E x \in C : key[x] = k /\ free2[x]) <=> own
    BY <2>2, Zenon
  <2>4. \A j \in Keys : j # k => ((\E x \in C : key[x] = j /\ free2[x])
                                    <=> (\E x \in C : key[x] = j /\ free[x]))
    BY <2>2, Zenon
  <2>5. OwnsElsewhere(k, key, free, C, key, free2, C)
    BY <2>4, Zenon DEF OwnsElsewhere
  <2>6. PICK T, U : T = OwnedOf(key, free2, C) /\ U = OwnedOf(key, free, C)
    OBVIOUS
  <2>7. T \in [Keys -> BOOLEAN] /\ U \in [Keys -> BOOLEAN]
    BY <2>6 DEF OwnedOf
  <2>8. \A j \in Keys : j # k => T[j] = U[j]
    BY <2>5, <2>6, OwnedElsewhere
  <2>9. T[k] <=> own
    BY <2>3, <2>6, Zenon DEF OwnedOf
  <2>10. T[k] = own
    BY <2>7, <2>9
  <2>11. T = [U EXCEPT ![k] = own]
    BY <2>7, <2>8, <2>10
  <2>12. OwnedMap' = OwnedOf(key, free2, C) /\ OwnedMap = OwnedOf(key, free, C)
    BY <1>3, <2>1, Zenon DEF OwnedMap, OwnedOf
  <2> QED BY <2>6, <2>11, <2>12
<1>9. d \in existing'
  <2>1. d # mData[e]
    BY <1>3
  <2>2. \A x \in Freed({e}) : x = mData[e]
    BY Zenon DEF Freed
  <2> QED BY <1>3, <2>1, <2>2
<1>10. PICK F : F = Freed({e})
  OBVIOUS
<1>11. F = {StoredMap[x] : x \in {y \in {k} : OwnedMap[y]}}
  BY <1>5, <1>10, Zenon
<1>12. F \subseteq existing /\ existing' = existing \ F
  BY <1>3, <1>6, <1>10
<1> QED BY <1>3, <1>7, <1>8, <1>9, <1>11, <1>12, PutIs, Zenon

\* What Add does to it.
LEMMA AddIsPut ==
    ASSUME SetsFresh, MapInv, HeldOnce,
           NEW k \in Keys, NEW d \in Data, NEW own \in BOOLEAN, Add(k, d, own)
    PROVE  MTable!Put(k, d, own)
<1>1. /\ mUsed \in SUBSET Cells /\ mKey \in [Cells -> Keys \cup {Null}]
      /\ \A x, y \in mUsed : mKey[x] = mKey[y] => x = y
      /\ mData \in [Cells -> Data \cup {Null}] /\ mFree \in [Cells -> BOOLEAN]
  BY DEF MapInv, Chains
<1>2. EntryFor(k) = Null /\ d \in existing /\ existing' = existing /\ got' = got
  BY DEF Add, MaySet
<1>3. \A x \in mUsed : mKey[x] # k
  BY <1>2, EntryForFinds
<1>4. PICK e \in Cells \ mUsed :
        /\ mUsed' = mUsed \cup {e} /\ mKey' = [mKey EXCEPT ![e] = k]
        /\ mData' = [mData EXCEPT ![e] = d] /\ mFree' = [mFree EXCEPT ![e] = own]
  BY DEF Add
<1>5. {} = {StoredMap[x] : x \in {y \in {k} : OwnedMap[y]}}
  <2>1. PICK E, K : E = {} /\ K = {k}
    OBVIOUS
  <2>2. K \in SUBSET Keys /\ E = {x \in mUsed : mKey[x] \in K}
    BY <1>3, <2>1
  <2>3. {StoredMap[x] : x \in {y \in K : OwnedMap[y]}} = Freed(E)
    BY <2>2, MapDisposes
  <2>4. Freed({}) = {}
    BY Zenon DEF Freed
  <2> QED BY <2>1, <2>3, <2>4, Zenon
<1>6. PICK key, dat, free, C, key2, dat2, free2 :
        /\ key = mKey /\ dat = mData /\ free = mFree /\ C = mUsed
        /\ key2 = mKey' /\ dat2 = mData' /\ free2 = mFree'
  OBVIOUS
<1>7. /\ \A x, y \in C : key[x] = key[y] => x = y
      /\ \A x \in C : key[x] # k
      /\ key2[e] = k /\ dat2[e] = d /\ free2[e] = own
      /\ \A x \in C : key2[x] = key[x] /\ dat2[x] = dat[x] /\ free2[x] = free[x]
  BY <1>1, <1>3, <1>4, <1>6
<1>8. StoredMap' = [StoredMap EXCEPT ![k] = d]
  <2>1. TableOf(key2, dat2, C \cup {e}) = [TableOf(key, dat, C) EXCEPT ![k] = d]
    BY <1>7, TableAdds
  <2>2. StoredMap' = TableOf(key2, dat2, C \cup {e}) /\ StoredMap = TableOf(key, dat, C)
    BY <1>4, <1>6 DEF StoredMap, TableOf
  <2> QED BY <2>1, <2>2
<1>9. OwnedMap' = [OwnedMap EXCEPT ![k] = own]
  <2>1. PICK D : D = C \cup {e}
    OBVIOUS
  <2>2. /\ e \in D /\ (\A x \in D : key2[x] = k => x = e)
        /\ \A x \in D : x # e => x \in C
        /\ \A x \in C : x \in D
    BY <1>7, <2>1
  <2>3. (\E x \in D : key2[x] = k /\ free2[x]) <=> own
    BY <1>7, <2>2, Zenon
  <2>4. \A j \in Keys : j # k => ((\E x \in D : key2[x] = j /\ free2[x])
                                    <=> (\E x \in C : key[x] = j /\ free[x]))
    BY <1>7, <2>2, Zenon
  <2>5. OwnsElsewhere(k, key, free, C, key2, free2, D)
    BY <2>4, Zenon DEF OwnsElsewhere
  <2>6. PICK T, U : T = OwnedOf(key2, free2, D) /\ U = OwnedOf(key, free, C)
    OBVIOUS
  <2>7. T \in [Keys -> BOOLEAN] /\ U \in [Keys -> BOOLEAN]
    BY <2>6 DEF OwnedOf
  <2>8. \A j \in Keys : j # k => T[j] = U[j]
    BY <2>5, <2>6, OwnedElsewhere
  <2>9. T[k] <=> own
    BY <2>3, <2>6, Zenon DEF OwnedOf
  <2>10. T[k] = own
    BY <2>7, <2>9
  <2>11. T = [U EXCEPT ![k] = own]
    BY <2>7, <2>8, <2>10
  <2>12. OwnedMap' = OwnedOf(key2, free2, D) /\ OwnedMap = OwnedOf(key, free, C)
    BY <1>4, <1>6, <2>1, Zenon DEF OwnedMap, OwnedOf
  <2> QED BY <2>6, <2>11, <2>12
<1>10. PICK F : F = {}
  OBVIOUS
<1>11. F \subseteq existing /\ existing' = existing \ F /\ d \in existing'
  BY <1>2, <1>10
<1>12. F = {StoredMap[x] : x \in {y \in {k} : OwnedMap[y]}}
  BY <1>5, <1>10, Zenon
<1> QED BY <1>2, <1>8, <1>9, <1>11, <1>12, PutIs, Zenon

\* What Unset does to it.
LEMMA UnsetIsDelete ==
    ASSUME NearKeys, MapInv, HeldOnce, NEW k \in Keys, Unset(k)
    PROVE  MTable!Delete({k})
<1>1. PICK e : e = EntryFor(k)
  OBVIOUS
<1>2. /\ mUsed \in SUBSET Cells /\ mKey \in [Cells -> Keys \cup {Null}]
      /\ \A x \in mUsed : mKey[x] \in Keys
      /\ \A x, y \in mUsed : mKey[x] = mKey[y] => x = y
  BY DEF MapInv, Chains
<1>3. /\ e \in mUsed /\ mUsed' = mUsed \ {e}
      /\ existing' = existing \ Freed({e}) /\ got' = got
      /\ \A x \in mUsed' : mKey'[x] = mKey[x] /\ mData'[x] = mData[x] /\ mFree'[x] = mFree[x]
  BY <1>1, MapUnsetInv DEF Unset, Erase
<1>4. SameKey(mKey[e], k)
  BY <1>1, <1>3, EntryForFinds, HeadsDiffer DEF Unset
<1>5. mKey[e] = k /\ \A x \in mUsed : mKey[x] = k => x = e
  BY <1>2, <1>3, <1>4 DEF NearKeys
<1>6. PICK F, K : F = Freed({e}) /\ K = {k}
  OBVIOUS
<1>7. F = {StoredMap[x] : x \in {y \in K : OwnedMap[y]}}
  <2>1. PICK E : E = {e}
    OBVIOUS
  <2>2. K \in SUBSET Keys /\ E = {x \in mUsed : mKey[x] \in K}
    BY <1>3, <1>5, <1>6, <2>1
  <2>3. {StoredMap[x] : x \in {y \in K : OwnedMap[y]}} = Freed(E)
    BY <2>2, MapDisposes
  <2> QED BY <1>6, <2>1, <2>3, Zenon
<1>8. F \subseteq existing /\ existing' = existing \ F
  BY <1>3, <1>6, FreedExists
<1>9. PICK key, dat, free, C, key2, dat2, free2, D :
        /\ key = mKey /\ dat = mData /\ free = mFree /\ C = mUsed
        /\ key2 = mKey' /\ dat2 = mData' /\ free2 = mFree' /\ D = mUsed'
  OBVIOUS
<1>10. LeftWithout(K, key, dat, C, key2, dat2, D)
  BY <1>2, <1>3, <1>5, <1>6, <1>9 DEF LeftWithout
<1>11. StoredMap' = [j \in Keys |-> IF j \in K THEN Null ELSE StoredMap[j]]
  <2>1. \A j \in Keys :
          TableOf(key2, dat2, D)[j] = IF j \in K THEN Null ELSE TableOf(key, dat, C)[j]
    BY <1>10, TableLoses
  <2>2. PICK T, U : T = TableOf(key2, dat2, D) /\ U = TableOf(key, dat, C)
    OBVIOUS
  <2>3. T = [j \in Keys |-> T[j]] /\ \A j \in Keys : T[j] = IF j \in K THEN Null ELSE U[j]
    BY <2>1, <2>2, TableFunction
  <2>4. T = [j \in Keys |-> IF j \in K THEN Null ELSE U[j]]
    BY <2>3
  <2>5. StoredMap' = T /\ StoredMap = U
    BY <1>9, <2>2 DEF StoredMap, TableOf
  <2> QED BY <2>4, <2>5
<1>12. OwnedMap' = [j \in Keys |-> OwnedMap[j] /\ j \notin K]
  <2>1. /\ \A x \in C : x \in D <=> key[x] \notin K
        /\ \A x \in D : x \in C /\ key2[x] = key[x] /\ free2[x] = free[x]
    BY <1>2, <1>3, <1>5, <1>6, <1>9
  <2>2. \A j \in Keys : (\E x \in D : key2[x] = j /\ free2[x])
                          <=> ((\E x \in C : key[x] = j /\ free[x]) /\ j \notin K)
    BY <2>1, Zenon
  <2>3. OwnsLess(K, key, free, C, key2, free2, D)
    BY <2>2, Zenon DEF OwnsLess
  <2>4. PICK T, U : T = OwnedOf(key2, free2, D) /\ U = OwnedOf(key, free, C)
    OBVIOUS
  <2>5. T \in [Keys -> BOOLEAN] /\ U \in [Keys -> BOOLEAN]
    BY <2>4 DEF OwnedOf
  <2>6. \A j \in Keys : T[j] <=> (U[j] /\ j \notin K)
    <3>1. \A j \in Keys :
            OwnedOf(key2, free2, D)[j] <=> (OwnedOf(key, free, C)[j] /\ j \notin K)
      BY <2>3, OwnedLoses
    <3> QED BY <2>4, <3>1, Zenon
  <2>7. T = [j \in Keys |-> U[j] /\ j \notin K]
    BY <2>5, <2>6
  <2>8. OwnedMap' = OwnedOf(key2, free2, D) /\ OwnedMap = OwnedOf(key, free, C)
    BY <1>9, Zenon DEF OwnedMap, OwnedOf
  <2> QED BY <2>4, <2>7, <2>8
<1>13. MTable!Delete(K)
  BY <1>3, <1>7, <1>8, <1>11, <1>12, DeleteIs, Zenon
<1> QED BY <1>6, <1>13, Zenon

\* What Clear does to it.
LEMMA ClearIsDelete ==
    ASSUME MapInv, HeldOnce, Clear
    PROVE  MTable!Delete(Keys)
<1>1. /\ \A x \in mUsed : mKey[x] \in Keys
      /\ mUsed' = {} /\ existing' = existing \ Freed(mUsed) /\ got' = got
  BY MapClearInv DEF Clear, Erase, MapInv, Chains
<1>2. PICK F : F = Freed(mUsed)
  OBVIOUS
<1>3. F = {StoredMap[x] : x \in {y \in Keys : OwnedMap[y]}}
  <2>1. mUsed = {x \in mUsed : mKey[x] \in Keys}
    BY <1>1
  <2>2. {StoredMap[x] : x \in {y \in Keys : OwnedMap[y]}} = Freed(mUsed)
    <3>1. PICK K, E : K = Keys /\ E = mUsed
      OBVIOUS
    <3>2. K \in SUBSET Keys /\ E = {x \in mUsed : mKey[x] \in K}
      BY <2>1, <3>1
    <3>3. {StoredMap[x] : x \in {y \in K : OwnedMap[y]}} = Freed(E)
      BY <3>2, MapDisposes
    <3> QED BY <3>1, <3>3, Zenon
  <2> QED BY <1>2, <2>2, Zenon
<1>4. F \subseteq existing /\ existing' = existing \ F
  BY <1>1, <1>2, FreedExists
<1>5. StoredMap' = [j \in Keys |-> IF j \in Keys THEN Null ELSE StoredMap[j]]
  <2>1. StoredMap' = [j \in Keys |-> Null]
    BY <1>1 DEF StoredMap, TableOf
  <2> QED BY <2>1
<1>6. OwnedMap' = [j \in Keys |-> OwnedMap[j] /\ j \notin Keys]
  <2>1. \A j \in Keys : {x \in mUsed' : mKey'[x] = j} = {}
    BY <1>1
  <2>2. OwnedMap' = [j \in Keys |-> FALSE]
    BY <2>1 DEF OwnedMap, OwnedOf
  <2>3. [j \in Keys |-> OwnedMap[j] /\ j \notin Keys] = [j \in Keys |-> FALSE]
    BY Zenon
  <2> QED BY <2>2, <2>3, Zenon
<1> QED BY <1>1, <1>3, <1>4, <1>5, <1>6, DeleteIs, Zenon

\* Each step of the map is one of the table's, if what is set is fresh and no two keys
\* compare equal.
LEMMA MapStep ==
    ASSUME SetsFresh, NearKeys, MapInv, HeldOnce, MapNext
    PROVE  MTable!Next
<1>1. ASSUME NEW d \in Data, Create(d) PROVE MTable!Next
  <2>1. MTable!Create(d)
    <3>1. /\ d \notin existing /\ existing' = existing \cup {d}
          /\ UNCHANGED <<mNext, mKey, mData, mFree, mUsed, got>>
      BY <1>1 DEF Create
    <3>2. StoredMap' = StoredMap /\ OwnedMap' = OwnedMap
      BY <3>1 DEF StoredMap, OwnedMap, TableOf, OwnedOf
    <3> QED BY <3>1, <3>2, CreateIs
  <2> QED BY <2>1 DEF MTable!Next
<1>2. ASSUME NEW k \in Keys, NEW d \in Data, NEW own \in BOOLEAN, Replace(k, d, own)
      PROVE  MTable!Next
  BY <1>2, ReplaceIsPut DEF MTable!Next
<1>3. ASSUME NEW k \in Keys, NEW d \in Data, NEW own \in BOOLEAN, Add(k, d, own)
      PROVE  MTable!Next
  BY <1>3, AddIsPut DEF MTable!Next
<1>4. ASSUME NEW k \in Keys, Unset(k) PROVE MTable!Next
  BY <1>4, UnsetIsDelete DEF MTable!Next
<1>5. ASSUME NEW k \in Keys, Get(k) PROVE MTable!Next
  <2>1. /\ got' = <<k, IF EntryFor(k) = Null THEN Null ELSE mData[EntryFor(k)]>>
        /\ UNCHANGED <<mNext, mKey, mData, mFree, mUsed, existing>>
    BY <1>5 DEF Get
  <2>2. StoredMap[k] = IF EntryFor(k) = Null THEN Null ELSE mData[EntryFor(k)]
    <3>1. /\ \A x, y \in mUsed : mKey[x] = mKey[y] => x = y
          /\ \A x \in mUsed : mKey[x] \in Keys
      BY DEF MapInv, Chains
    <3>2. /\ \A x \in mUsed : mKey[x] = k => StoredMap[k] = mData[x]
          /\ (\A x \in mUsed : mKey[x] # k) => StoredMap[k] = Null
      BY <3>1, TableIs DEF StoredMap
    <3> QED BY <3>1, <3>2, EntryForFinds DEF NearKeys
  <2>3. StoredMap' = StoredMap /\ OwnedMap' = OwnedMap
    BY <2>1 DEF StoredMap, OwnedMap, TableOf, OwnedOf
  <2>4. got' = <<k, StoredMap[k]>> /\ existing' = existing
    BY <2>1, <2>2
  <2>5. MTable!Lookup(k)
    BY <2>3, <2>4, LookupIs
  <2> QED BY <2>5 DEF MTable!Next
<1>6. ASSUME Clear PROVE MTable!Next
  BY <1>6, ClearIsDelete DEF MTable!Next
<1> QED BY <1>1, <1>2, <1>3, <1>4, <1>5, <1>6 DEF MapNext

-----------------------------------------------------------------------------
(* The theorems                                                            *)

ContainersInv == ListInv /\ HashInv /\ MapInv

\* A container that is left alone keeps its pointers.
LEMMA LeftAlone ==
    /\ ListInv /\ UNCHANGED listVars => ListInv'
    /\ HashInv /\ UNCHANGED hashVars => HashInv'
    /\ MapInv /\ UNCHANGED mapVars => MapInv'
    /\ HeldOnce /\ UNCHANGED mapVars => HeldOnce'
<1>1. ASSUME ListInv, UNCHANGED listVars PROVE ListInv'
  <2>1. /\ next' = next /\ prev' = prev /\ data' = data /\ count' = count
        /\ used' = used /\ walk' = walk /\ popped' = popped
    BY <1>1 DEF listVars
  <2>2. PICK f, k : Position(f, k)
    BY <1>1 DEF ListInv
  <2>3. Position(f, k)'
    BY <2>1, <2>2 DEF Position, ChainNow, PassedUp, PassedDown, Doubly
  <2>4. ListTypes' /\ WalkTypes'
    BY <1>1, <2>1 DEF ListInv, ListTypes, WalkTypes
  <2> QED BY <2>3, <2>4 DEF ListInv
<1>2. ASSUME HashInv, UNCHANGED hashVars PROVE HashInv'
  BY <1>2 DEF hashVars, HashInv
<1>3. ASSUME MapInv, UNCHANGED mapVars PROVE MapInv'
  BY <1>3 DEF mapVars, MapInv
<1>4. ASSUME HeldOnce, UNCHANGED mapVars PROVE HeldOnce'
  BY <1>4 DEF mapVars, HeldOnce
<1> QED BY <1>1, <1>2, <1>3, <1>4

\* A step is one of one container, or of none, and leaves the others alone.
LEMMA OneAtATime ==
    ASSUME [Next]_<<listVars, hashVars, mapVars, part>>
    PROVE  /\ ListNext \/ UNCHANGED listVars
           /\ HashNext \/ UNCHANGED hashVars
           /\ MapNext \/ UNCHANGED mapVars
  BY DEF Next

\* The pointers of all three containers survive each step.
LEMMA ContainersInvStep ==
    ContainersInv /\ [Next]_<<listVars, hashVars, mapVars, part>> => ContainersInv'
  BY OneAtATime, LeftAlone, ListStep, HashStep, MapStepInv DEF ContainersInv

\* At first all three are empty.
LEMMA ContainersInvInit ==
    Init => ContainersInv
  BY ListStart, HashStart, MapStart DEF Init, ContainersInv

\* In every container the pointers agree with each other, with the memory in use and
\* with the counts, whatever calls are made, for any number of nodes, keys and data.
THEOREM ContainersWellFormed == Spec => []WellFormed
<1>1. ContainersInv => WellFormed
  BY ListInvWellFormed, HashInvWellFormed, MapInvWellFormed DEF ContainersInv, WellFormed
<1> QED
  BY <1>1, ContainersInvInit, ContainersInvStep, PTL DEF Spec

\* The list does to the sequence of data what a deque does: no element is lost, doubled
\* or moved by a push, a pop, a removal of any of the three kinds, or fini.
THEOREM ListImplementsDeque == Spec => ListIsDeque
<1>1. Init => Sequence!Init
  BY ListStart DEF Init
<1>2. ContainersInv /\ [Next]_<<listVars, hashVars, mapVars, part>>
        => [Sequence!Next]_<<Elems, Removing, popped>>
  <2> SUFFICES ASSUME ContainersInv, [Next]_<<listVars, hashVars, mapVars, part>>
               PROVE  Sequence!Next \/ UNCHANGED <<Elems, Removing, popped>>
    OBVIOUS
  <2>1. CASE ListNext
    BY <2>1, ListStep DEF ContainersInv
  <2>2. CASE UNCHANGED listVars
    BY <2>2 DEF listVars, Elems, Removing, Remaining, Chain
  <2> QED BY <2>1, <2>2, OneAtATime
<1> QED
  BY <1>1, <1>2, ContainersInvInit, ContainersInvStep, PTL
     DEF Spec, ListIsDeque, Sequence!Spec, Elems, Removing

\* The variables of the table that the map is.
MapAsTable ==
    <<[k \in Keys |->
          IF EntryOf(k) = {} THEN Null ELSE mData[CHOOSE e \in EntryOf(k) : TRUE]],
      [k \in Keys |-> \E e \in EntryOf(k) : mFree[e]], existing, got>>

\* The hash list, whatever keys share a chain, and the map are tables: a key finds what
\* was stored for it as long as it is stored, and the map frees the data it owns once,
\* when it leaves the map.  Of the map this needs keys that its compare function tells
\* apart, and data that is not set twice.
THEOREM ContainersImplementTables ==
    ASSUME SetsFresh, NearKeys
    PROVE  Spec => TablesHold
<1>1. Init => HTable!Init /\ MTable!Init /\ HeldOnce
  BY HashStart, MapStart DEF Init
<1>2. ContainersInv /\ [Next]_<<listVars, hashVars, mapVars, part>>
        => [HTable!Next]_<<HashStored, [k \in Keys |-> FALSE], Data, found>>
  <2> SUFFICES ASSUME ContainersInv, [Next]_<<listVars, hashVars, mapVars, part>>
               PROVE  HTable!Next \/ UNCHANGED <<HashStored, [k \in Keys |-> FALSE], Data, found>>
    OBVIOUS
  <2>1. CASE HashNext
    BY <2>1, HashStep DEF ContainersInv
  <2>2. CASE UNCHANGED hashVars
    BY <2>2 DEF hashVars, HashStored
  <2> QED BY <2>1, <2>2, OneAtATime
<1>3. ContainersInv /\ HeldOnce /\ [Next]_<<listVars, hashVars, mapVars, part>>
        => HeldOnce' /\ [MTable!Next]_<<StoredMap, OwnedMap, existing, got>>
  <2> SUFFICES ASSUME ContainersInv, HeldOnce, [Next]_<<listVars, hashVars, mapVars, part>>
               PROVE  /\ HeldOnce'
                      /\ MTable!Next \/ UNCHANGED <<StoredMap, OwnedMap, existing, got>>
    OBVIOUS
  <2>1. CASE MapNext
    BY <2>1, SetsFresh, NearKeys, MapStep, HeldOnceStep DEF ContainersInv
  <2>2. CASE UNCHANGED mapVars
    <3>1. HeldOnce'
      BY <2>2, LeftAlone
    <3>2. UNCHANGED <<StoredMap, OwnedMap, existing, got>>
      BY <2>2 DEF mapVars, StoredMap, OwnedMap, TableOf, OwnedOf
    <3> QED BY <3>1, <3>2
  <2> QED BY <2>1, <2>2, OneAtATime
<1>4. <<StoredMap, OwnedMap, existing, got>> = MapAsTable
  BY Zenon DEF MapAsTable, StoredMap, OwnedMap, TableOf, OwnedOf, EntryOf
<1>5. <<StoredMap, OwnedMap, existing, got>>' = MapAsTable'
  BY Zenon DEF MapAsTable, StoredMap, OwnedMap, TableOf, OwnedOf, EntryOf
<1>6. ContainersInv /\ HeldOnce /\ [Next]_<<listVars, hashVars, mapVars, part>>
        => HeldOnce' /\ [MTable!Next]_MapAsTable
  BY <1>3, <1>4, <1>5
<1>7. Spec => HTable!Spec
  BY <1>1, <1>2, ContainersInvInit, ContainersInvStep, PTL DEF Spec, HTable!Spec
<1>8. Spec => MTable!Spec
  BY <1>1, <1>6, ContainersInvInit, ContainersInvStep, PTL DEF Spec, MTable!Spec, MapAsTable
<1> QED
  BY <1>7, <1>8 DEF TablesHold, HashIsTable, MapIsTable
=============================================================================
