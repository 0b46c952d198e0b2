-------------------------- MODULE SearchMerge_proofs --------------------------
(* Proofs about the merge of results, for any engines and any lists: what   *)
(* the operators of Ranking do to sequences; that an answer of the hybrid   *)
(* search is clean and its engines are heard; and that each paper that the  *)
(* academic engines returned is merged once.                                *)
EXTENDS SearchMerge, FiniteSetTheorems, SequenceTheorems, WellFoundedInduction, TLAPS

-----------------------------------------------------------------------------
(* Sets in order                                                           *)

Linear(R, S) ==
  /\ \A x, y \in S : <<x, y>> \in R \/ <<y, x>> \in R
  /\ \A x, y \in S : <<x, y>> \in R /\ <<y, x>> \in R => x = y
  /\ \A x, y, z \in S : <<x, y>> \in R /\ <<y, z>> \in R => <<x, z>> \in R

\* f goes through S from its first element to its last.
Enumerates(f, S, R) ==
  /\ f \in [1..Cardinality(S) -> S]
  /\ \A x \in S : \E k \in 1..Cardinality(S) : f[k] = x
  /\ \A i, j \in 1..Cardinality(S) : <<f[i], f[j]>> \in R <=> i <= j

LEMMA InOrderEnumerates ==
  ASSUME NEW S, IsFiniteSet(S), NEW R, Linear(R, S)
  PROVE  Enumerates(InOrder(S, R), S, R) /\ Cardinality(S) \in Nat
  <1> DEFINE n == Cardinality(S)
             Upto(x) == {y \in S : <<y, x>> \in R}
             rank == [x \in S |-> Cardinality(Upto(x))]
             f == InOrder(S, R)
  <1>1. n \in Nat /\ IsFiniteSet(1..n) /\ Cardinality(1..n) = n
    <2>1. n \in Nat
      BY FS_CardinalityType
    <2> HIDE DEF n
    <2> QED BY <2>1, FS_Interval
  <1>2. \A x \in S : IsFiniteSet(Upto(x)) /\ rank[x] \in 1..n
    <2> TAKE x \in S
    <2>1. Upto(x) \in SUBSET S /\ x \in Upto(x)
      BY DEF Linear
    <2>2. IsFiniteSet(Upto(x)) /\ Cardinality(Upto(x)) <= n /\ Cardinality(Upto(x)) \in Nat
      BY <2>1, FS_Subset, FS_CardinalityType
    <2>3. Cardinality(Upto(x)) # 0
      BY <2>1, <2>2, FS_EmptySet
    <2> HIDE DEF Upto, n
    <2> QED BY <1>1, <2>2, <2>3
  <1>3. \A x, y \in S : <<x, y>> \in R /\ x # y => rank[x] < rank[y]
    <2> SUFFICES ASSUME NEW x \in S, NEW y \in S, <<x, y>> \in R, x # y
                 PROVE  rank[x] < rank[y]
      OBVIOUS
    <2>1. Upto(x) \in SUBSET Upto(y) /\ y \in Upto(y) /\ y \notin Upto(x)
      BY DEF Linear
    <2>2. IsFiniteSet(Upto(y)) /\ IsFiniteSet(Upto(x)) /\ rank[x] \in 1..n /\ rank[y] \in 1..n
      BY <1>2
    <2>3. Cardinality(Upto(x)) <= Cardinality(Upto(y)) /\ Cardinality(Upto(x)) # Cardinality(Upto(y))
      BY <2>1, <2>2, FS_Subset
    <2> HIDE DEF Upto, n
    <2> QED BY <1>1, <2>2, <2>3
  <1>4. ASSUME NEW x \in S, NEW y \in S
        PROVE  /\ rank[x] = rank[y] => x = y
               /\ <<x, y>> \in R <=> rank[x] <= rank[y]
    <2> HIDE DEF rank, n
    <2>1. rank[x] \in Nat /\ rank[y] \in Nat
      <3>1. rank[x] \in 1..n /\ rank[y] \in 1..n
        BY <1>2
      <3> QED BY <1>1, <3>1
    <2>2. <<x, y>> \in R /\ x # y => rank[x] < rank[y]
      BY <1>3
    <2>3. <<y, x>> \in R /\ x # y => rank[y] < rank[x]
      BY <1>3
    <2>4. (<<x, y>> \in R \/ <<y, x>> \in R) /\ <<x, x>> \in R
      BY DEF Linear
    <2> QED BY <2>1, <2>2, <2>3, <2>4
  <1>6. \A k \in 1..n : \E x \in S : rank[x] = k
    <2> SUFFICES ASSUME NEW k \in 1..n, \A x \in S : rank[x] # k
                 PROVE  FALSE
      OBVIOUS
    <2>1. IsFiniteSet(1..n \ {k}) /\ Cardinality(1..n \ {k}) = n - 1
      <3> HIDE DEF n
      <3> QED BY <1>1, FS_RemoveElement
    <2>2. rank \in [S -> 1..n \ {k}]
      BY <1>2
    <2> HIDE DEF rank
    <2>3. \E x, y \in S : x # y /\ rank[x] = rank[y]
      <3>1. Cardinality(1..n \ {k}) < Cardinality(S)
        BY <1>1, <2>1
      <3> HIDE DEF n
      <3> QED BY <2>1, <2>2, <3>1, FS_PigeonHole
    <2> QED BY <2>3, <1>4
  <1>7. f = [k \in 1..n |-> CHOOSE x \in S : rank[x] = k]
    BY DEF InOrder
  <1> HIDE DEF rank, f, n
  <1>8. \A k \in 1..n : f[k] \in S /\ rank[f[k]] = k
    BY <1>6, <1>7
  <1>9. \A x \in S : f[rank[x]] = x
    BY <1>2, <1>4, <1>8
  <1>10. f \in [1..n -> S] /\ \A i, j \in 1..n : <<f[i], f[j]>> \in R <=> i <= j
    BY <1>1, <1>4, <1>7, <1>8
  <1> QED BY <1>1, <1>2, <1>9, <1>10 DEF Enumerates, f, n
-----------------------------------------------------------------------------
(* Sequences                                                               *)

Upward(ix) == {p \in ix \X ix : p[1] <= p[2]}

\* Order by a, and by b where that is the same.
LEMMA LinearByTwo ==
  ASSUME NEW S, NEW a \in [S -> Int], NEW b \in [S -> Int], NEW R,
         \A x, y \in S : a[x] = a[y] /\ b[x] = b[y] => x = y,
         \A x, y \in S : <<x, y>> \in R <=> (a[x] < a[y] \/ (a[x] = a[y] /\ b[x] <= b[y]))
  PROVE  Linear(R, S)
  <1>1. ASSUME NEW x \in S, NEW y \in S
        PROVE  /\ <<x, y>> \in R \/ <<y, x>> \in R
               /\ <<x, y>> \in R /\ <<y, x>> \in R => x = y
    <2>1. a[x] \in Int /\ a[y] \in Int /\ b[x] \in Int /\ b[y] \in Int
      OBVIOUS
    <2>2. /\ <<x, y>> \in R <=> (a[x] < a[y] \/ (a[x] = a[y] /\ b[x] <= b[y]))
          /\ <<y, x>> \in R <=> (a[y] < a[x] \/ (a[y] = a[x] /\ b[y] <= b[x]))
      OBVIOUS
    <2> QED BY <2>1, <2>2
  <1>2. ASSUME NEW x \in S, NEW y \in S, NEW z \in S, <<x, y>> \in R, <<y, z>> \in R
        PROVE  <<x, z>> \in R
    <2>1. a[x] \in Int /\ a[y] \in Int /\ a[z] \in Int /\ b[x] \in Int /\ b[y] \in Int /\ b[z] \in Int
      OBVIOUS
    <2>2. /\ a[x] < a[y] \/ (a[x] = a[y] /\ b[x] <= b[y])
          /\ a[y] < a[z] \/ (a[y] = a[z] /\ b[y] <= b[z])
      BY <1>2
    <2> QED BY <2>1, <2>2
  <1> QED BY <1>1, <1>2 DEF Linear

LEMMA UpwardLinear ==
  ASSUME NEW ix \in SUBSET Int
  PROVE  Linear(Upward(ix), ix)
  BY DEF Linear, Upward

LEMMA LeastNat ==
  ASSUME NEW T \in SUBSET Nat, T # {}
  PROVE  \E j \in T : \A l \in T : j <= l
  <1>1. PICK j \in T : \A l \in T : <<l, j>> \notin OpToRel(<, Nat)
    BY NatLessThanWellFounded, WFMin
  <1>2. ASSUME NEW l \in T, l < j PROVE FALSE
    <2>1. <<l, j>> \in OpToRel(<, Nat)
      BY <1>2, Zenon DEF OpToRel
    <2> QED BY <1>1, <2>1
  <1> QED BY <1>2

LEMMA Indexes ==
  ASSUME NEW s, NEW X, s \in Seq(X)
  PROVE  Len(s) \in Nat /\ DOMAIN s = 1..Len(s) /\ IsFiniteSet(DOMAIN s) /\ Cardinality(DOMAIN s) = Len(s)
  <1>1. Len(s) \in Nat /\ DOMAIN s = 1..Len(s)
    OBVIOUS
  <1> QED BY <1>1, FS_Interval

LEMMA TakeIs ==
  ASSUME NEW s, NEW X, s \in Seq(X), NEW n \in Nat
  PROVE  /\ Take(s, n) \in Seq(X)
         /\ Len(Take(s, n)) = IF n < Len(s) THEN n ELSE Len(s)
         /\ \A i \in 1..Len(Take(s, n)) : Take(s, n)[i] = s[i]
  BY DEF Take

\* The list picked keeps the order of the indexes.
LEMMA PickIs ==
  ASSUME NEW s, NEW X, s \in Seq(X), NEW ix \in SUBSET DOMAIN s
  PROVE  /\ IsFiniteSet(ix) /\ Cardinality(ix) \in Nat
         /\ Pick(s, ix) \in Seq(X) /\ Len(Pick(s, ix)) = Cardinality(ix)
         /\ \E f \in [1..Cardinality(ix) -> ix] :
              /\ \A i \in ix : \E k \in 1..Cardinality(ix) : f[k] = i
              /\ \A i, j \in 1..Cardinality(ix) : f[i] <= f[j] <=> i <= j
              /\ \A k \in 1..Cardinality(ix) : Pick(s, ix)[k] = s[f[k]]
  <1>1. ix \subseteq Int /\ IsFiniteSet(ix) /\ Cardinality(ix) \in Nat
    BY Indexes, FS_Subset, FS_CardinalityType
  <1> DEFINE f == InOrder(ix, Upward(ix))
  <1>2. Enumerates(f, ix, Upward(ix))
    BY <1>1, InOrderEnumerates, UpwardLinear
  <1> DEFINE n == Cardinality(ix)
  <1>3. Pick(s, ix) = [k \in DOMAIN f |-> s[f[k]]]
    BY DEF Pick, Upward
  <1> HIDE DEF f
  <1>4. f \in [1..n -> ix] /\ \A i, j \in 1..n : <<f[i], f[j]>> \in Upward(ix) <=> i <= j
    BY <1>2 DEF Enumerates
  <1>5. \A i, j \in 1..n : f[i] <= f[j] <=> i <= j
    BY <1>4 DEF Upward
  <1>6. \A i \in ix : \E k \in 1..n : f[k] = i
    BY <1>2 DEF Enumerates
  <1>7. Pick(s, ix) = [k \in 1..n |-> s[f[k]]] /\ \A k \in 1..n : s[f[k]] \in X
    BY <1>3, <1>4, ElementOfSeq
  <1> HIDE DEF n
  <1>8. Pick(s, ix) \in Seq(X) /\ Len(Pick(s, ix)) = n
    BY <1>1, <1>7 DEF n
  <1> QED BY <1>1, <1>4, <1>5, <1>6, <1>7, <1>8 DEF n

\* t holds all of s, in the order R.
Arranges(t, s, R) ==
  \E f \in [1..Len(s) -> 1..Len(s)] :
    /\ \A i \in 1..Len(s) : \E k \in 1..Len(s) : f[k] = i
    /\ \A i, j \in 1..Len(s) : <<f[i], f[j]>> \in R <=> i <= j
    /\ \A i, j \in 1..Len(s) : f[i] = f[j] => i = j
    /\ \A k \in 1..Len(s) : t[k] = s[f[k]]

LEMMA ArrangedIs ==
  ASSUME NEW s, NEW X, s \in Seq(X), NEW R, Linear(R, DOMAIN s)
  PROVE  /\ Arranged(s, R) \in Seq(X) /\ Len(Arranged(s, R)) = Len(s)
         /\ Arranges(Arranged(s, R), s, R)
  <1> DEFINE f == InOrder(DOMAIN s, R)
             n == Len(s)
  <1>1. n \in Nat /\ DOMAIN s = 1..n /\ IsFiniteSet(DOMAIN s) /\ Cardinality(DOMAIN s) = n
    BY Indexes
  <1>2. Enumerates(f, DOMAIN s, R)
    BY <1>1, InOrderEnumerates
  <1>3. Arranged(s, R) = [k \in DOMAIN f |-> s[f[k]]]
    BY DEF Arranged
  <1> HIDE DEF f, n
  <1>4. /\ f \in [1..n -> 1..n]
        /\ \A i \in 1..n : \E k \in 1..n : f[k] = i
        /\ \A i, j \in 1..n : <<f[i], f[j]>> \in R <=> i <= j
    BY <1>1, <1>2 DEF Enumerates
  <1>5. ASSUME NEW i \in 1..n, NEW j \in 1..n, f[i] = f[j]
        PROVE  i = j
    <2>1. <<f[i], f[i]>> \in R
      BY <1>1, <1>4
    <2>2. <<f[i], f[j]>> \in R /\ <<f[j], f[i]>> \in R
      BY <2>1, <1>5
    <2>3. i <= j /\ j <= i
      BY <2>2, <1>4
    <2> QED BY <1>1, <2>3
  <1>6. \A k \in 1..n : s[f[k]] \in X
    BY <1>1, <1>4, ElementOfSeq DEF n
  <1>7. Arranged(s, R) = [k \in 1..n |-> s[f[k]]]
    BY <1>3, <1>4
  <1>8. Arranged(s, R) \in Seq(X) /\ Len(Arranged(s, R)) = n
    BY <1>1, <1>6, <1>7
  <1>9. \A k \in 1..n : Arranged(s, R)[k] = s[f[k]]
    BY <1>7
  <1>10. Arranges(Arranged(s, R), s, R)
    BY <1>4, <1>5, <1>9 DEF n, Arranges
  <1> QED BY <1>8, <1>10 DEF n
Places(lists) == UNION {{e} \X (DOMAIN lists[e]) : e \in DOMAIN lists}

LEMMA PlacesFinite ==
  ASSUME NEW lists, NEW X, lists \in Seq(Seq(X))
  PROVE  IsFiniteSet(Places(lists))
  <1> DEFINE f == [e \in DOMAIN lists |-> {e} \X (DOMAIN lists[e])]
             S == {{e} \X (DOMAIN lists[e]) : e \in DOMAIN lists}
  <1>1. IsFiniteSet(DOMAIN lists)
    BY Indexes
  <1>2. IsFiniteSet(S)
    <2>1. f \in Surjection(DOMAIN lists, S)
      BY DEF Surjection
    <2> HIDE DEF f, S
    <2> QED BY <1>1, <2>1, FS_Surjection
  <1>3. ASSUME NEW e \in DOMAIN lists PROVE IsFiniteSet({e} \X (DOMAIN lists[e]))
    <2>1. lists[e] \in Seq(X)
      BY ElementOfSeq, Indexes
    <2>2. IsFiniteSet(DOMAIN lists[e]) /\ IsFiniteSet({e})
      BY <2>1, Indexes, FS_Singleton
    <2> QED BY <2>2, FS_Product
  <1>4. \A T \in S : IsFiniteSet(T)
    BY <1>3
  <1> HIDE DEF S
  <1>5. IsFiniteSet(UNION S)
    BY <1>2, <1>4, FS_UNION
  <1> QED BY <1>5 DEF Places, S

\* The lists come one after another.
LEMMA FlatIs ==
  ASSUME NEW lists, NEW X, lists \in Seq(Seq(X))
  PROVE  /\ Flat(lists) \in Seq(X)
         /\ \E at \in [DOMAIN Flat(lists) -> Places(lists)] :
              /\ \A p \in Places(lists) : \E k \in DOMAIN Flat(lists) : at[k] = p
              /\ \A k \in DOMAIN Flat(lists) : Flat(lists)[k] = lists[at[k][1]][at[k][2]]
              /\ \A k, l \in DOMAIN Flat(lists) : at[k][1] < at[l][1] => k < l
  <1> DEFINE S == Places(lists)
             at == InOrder(S, Lexicographic(S))
             n == Cardinality(S)
  <1>1. ASSUME NEW p \in S
        PROVE  /\ p = <<p[1], p[2]>> /\ p[1] \in DOMAIN lists /\ p[2] \in DOMAIN lists[p[1]]
               /\ p[1] \in Nat /\ p[2] \in Nat /\ lists[p[1]] \in Seq(X)
    <2>1. PICK e \in DOMAIN lists : p \in {e} \X (DOMAIN lists[e])
      BY DEF Places
    <2>2. lists[e] \in Seq(X) /\ e \in Nat
      BY ElementOfSeq, Indexes
    <2>3. DOMAIN lists[e] \subseteq Nat
      BY <2>2, Indexes
    <2> QED BY <2>1, <2>2, <2>3
  <1>2. Linear(Lexicographic(S), S)
    <2> HIDE DEF S
    <2> DEFINE first == [p \in S |-> p[1]]
               second == [p \in S |-> p[2]]
    <2>1. \A x, y \in S : <<x, y>> \in Lexicographic(S) <=> (x[1] < y[1] \/ (x[1] = y[1] /\ x[2] <= y[2]))
      BY DEF Lexicographic
    <2>2. first \in [S -> Int] /\ second \in [S -> Int]
      BY <1>1
    <2>3. ASSUME NEW x \in S, NEW y \in S, x[1] = y[1], x[2] = y[2] PROVE x = y
      <3>1. x = <<x[1], x[2]>> /\ y = <<y[1], y[2]>>
        BY <1>1
      <3> QED BY <2>3, <3>1
    <2>4. /\ \A x, y \in S : first[x] = first[y] /\ second[x] = second[y] => x = y
          /\ \A x, y \in S : <<x, y>> \in Lexicographic(S) <=>
               (first[x] < first[y] \/ (first[x] = first[y] /\ second[x] <= second[y]))
      BY <2>1, <2>3
    <2> HIDE DEF first, second
    <2> QED BY <2>2, <2>4, LinearByTwo
  <1>3. Enumerates(at, S, Lexicographic(S)) /\ n \in Nat
    BY <1>2, PlacesFinite, InOrderEnumerates
  <1>4. Flat(lists) = [k \in DOMAIN at |-> lists[at[k][1]][at[k][2]]]
    BY DEF Flat, Places
  <1> HIDE DEF S, at, n
  <1>5. /\ at \in [1..n -> S]
        /\ \A p \in S : \E k \in 1..n : at[k] = p
        /\ \A k, l \in 1..n : <<at[k], at[l]>> \in Lexicographic(S) <=> k <= l
    BY <1>3 DEF Enumerates, n
  <1>6. ASSUME NEW k \in 1..n PROVE lists[at[k][1]][at[k][2]] \in X
    <2>1. at[k] \in S
      BY <1>5
    <2>2. lists[at[k][1]] \in Seq(X) /\ at[k][2] \in DOMAIN lists[at[k][1]]
      BY <1>1, <2>1
    <2> QED BY <2>2, ElementOfSeq, Indexes
  <1>7. Flat(lists) = [k \in 1..n |-> lists[at[k][1]][at[k][2]]]
    BY <1>4, <1>5
  <1>8. Flat(lists) \in Seq(X) /\ DOMAIN Flat(lists) = 1..n
    BY <1>3, <1>6, <1>7
  <1>9. ASSUME NEW k \in 1..n, NEW l \in 1..n, at[k][1] < at[l][1]
        PROVE  k < l
    <2>1. at[k] \in S /\ at[l] \in S /\ at[k][1] \in Nat /\ at[l][1] \in Nat
      BY <1>1, <1>5
    <2>2. <<at[l], at[k]>> \notin Lexicographic(S)
      BY <2>1, <1>9 DEF Lexicographic
    <2> QED BY <1>3, <1>5, <2>2
  <1>10. \A k \in 1..n : Flat(lists)[k] = lists[at[k][1]][at[k][2]]
    BY <1>7
  <1> HIDE DEF Flat
  <1>11. /\ at \in [DOMAIN Flat(lists) -> Places(lists)]
         /\ \A p \in Places(lists) : \E k \in DOMAIN Flat(lists) : at[k] = p
         /\ \A k \in DOMAIN Flat(lists) : Flat(lists)[k] = lists[at[k][1]][at[k][2]]
         /\ \A k, l \in DOMAIN Flat(lists) : at[k][1] < at[l][1] => k < l
    BY <1>5, <1>8, <1>9, <1>10 DEF S
  <1> QED BY <1>8, <1>11
\* The first of each id stays.
Firsts(s, ids) == {i \in DOMAIN s : \A j \in 1..(i-1) : ids[j] # ids[i]}

\* t holds them, in the order of s.
HoldsFirsts(t, s, ids) ==
  \E f \in [DOMAIN t -> DOMAIN s] :
    /\ \A k \in DOMAIN t : t[k] = s[f[k]]
    /\ \A k, l \in DOMAIN t : ids[f[k]] = ids[f[l]] => k = l
    /\ \A k \in DOMAIN t : \A j \in DOMAIN s : ids[j] = ids[f[k]] => f[k] <= j
    /\ \A i \in DOMAIN s : \E k \in DOMAIN t : ids[f[k]] = ids[i]
    /\ \A i \in Firsts(s, ids) : \E k \in DOMAIN t : f[k] = i

LEMMA FirstIs ==
  ASSUME NEW s, NEW X, s \in Seq(X), NEW ids, DOMAIN ids = DOMAIN s
  PROVE  /\ Pick(s, Firsts(s, ids)) \in Seq(X)
         /\ HoldsFirsts(Pick(s, Firsts(s, ids)), s, ids)
  <1> DEFINE ix == Firsts(s, ids)
             t == Pick(s, ix)
             n == Cardinality(ix)
  <1>0. Len(s) \in Nat /\ DOMAIN s = 1..Len(s)
    BY Indexes
  <1>1. ASSUME NEW i \in ix, NEW j \in DOMAIN s, ids[j] = ids[i]
        PROVE  i <= j
    BY <1>0, <1>1 DEF Firsts
  <1>2. ASSUME NEW i \in DOMAIN s
        PROVE  \E j \in ix : ids[j] = ids[i]
    <2> DEFINE T == {j \in DOMAIN s : ids[j] = ids[i]}
    <2>1. T \subseteq Nat /\ i \in T
      BY <1>0
    <2>2. \E j \in T : \A l \in T : j <= l
      BY <2>1, LeastNat
    <2>3. PICK j \in T : \A l \in T : j <= l
      BY <2>2
    <2>4. j \in ix
      <3>1. ASSUME NEW l \in 1..(j-1), ids[l] = ids[j] PROVE FALSE
        <4>1. l \in T
          BY <1>0, <3>1
        <4>2. j <= l
          BY <2>3, <4>1
        <4> QED BY <1>0, <4>2
      <3> QED BY <3>1, <2>3 DEF Firsts
    <2> QED BY <2>4
  <1>3. ix \in SUBSET DOMAIN s
    BY DEF Firsts
  <1> HIDE DEF ix
  <1>4. /\ t \in Seq(X) /\ Len(t) = n /\ n \in Nat
        /\ \E f \in [1..n -> ix] :
             /\ \A i \in ix : \E k \in 1..n : f[k] = i
             /\ \A i, j \in 1..n : f[i] <= f[j] <=> i <= j
             /\ \A k \in 1..n : t[k] = s[f[k]]
    BY <1>3, PickIs
  <1> HIDE DEF t, n
  <1>5. PICK f \in [1..n -> ix] :
             /\ \A i \in ix : \E k \in 1..n : f[k] = i
             /\ \A i, j \in 1..n : f[i] <= f[j] <=> i <= j
             /\ \A k \in 1..n : t[k] = s[f[k]]
    BY <1>4
  <1>6. DOMAIN t = 1..n
    BY <1>4
  <1>7. f \in [DOMAIN t -> DOMAIN s]
    BY <1>3, <1>6
  <1>8. ASSUME NEW k \in 1..n, NEW l \in 1..n, ids[f[k]] = ids[f[l]]
        PROVE  k = l
    <2>1. f[k] \in ix /\ f[l] \in ix /\ f[k] \in DOMAIN s /\ f[l] \in DOMAIN s
      BY <1>3
    <2>2. f[k] <= f[l] /\ f[l] <= f[k]
      BY <2>1, <1>1, <1>8
    <2> QED BY <2>2, <1>5, <1>4
  <1>9. \A k \in 1..n : \A j \in DOMAIN s : ids[j] = ids[f[k]] => f[k] <= j
    BY <1>1
  <1>10. ASSUME NEW i \in DOMAIN s PROVE \E k \in 1..n : ids[f[k]] = ids[i]
    BY <1>2, <1>5
  <1>11. \A i \in ix : \E k \in 1..n : f[k] = i
    BY <1>5
  <1>12. \A k \in 1..n : t[k] = s[f[k]]
    BY <1>5
  <1>13. /\ \A k \in DOMAIN t : t[k] = s[f[k]]
         /\ \A k, l \in DOMAIN t : ids[f[k]] = ids[f[l]] => k = l
         /\ \A k \in DOMAIN t : \A j \in DOMAIN s : ids[j] = ids[f[k]] => f[k] <= j
         /\ \A i \in DOMAIN s : \E k \in DOMAIN t : ids[f[k]] = ids[i]
         /\ \A i \in ix : \E k \in DOMAIN t : f[k] = i
    BY <1>6, <1>8, <1>9, <1>10, <1>11, <1>12
  <1>14. HoldsFirsts(t, s, ids)
    BY <1>7, <1>13 DEF HoldsFirsts, ix
  <1> QED BY <1>4, <1>14 DEF t, ix
-----------------------------------------------------------------------------
(* Lists of results                                                        *)

\* The results of t are those of different places of s, but for their scores.
Drawn(t, s) ==
  /\ t \in Seq(Results)
  /\ \E g \in [DOMAIN t -> DOMAIN s] :
       /\ \A i, j \in DOMAIN t : g[i] = g[j] => i = j
       /\ \A i \in DOMAIN t : t[i].url = s[g[i]].url /\ t[i].engine = s[g[i]].engine

LEMMA DrawnSelf ==
  ASSUME NEW s \in Seq(Results)
  PROVE  Drawn(s, s)
  <1> DEFINE g == [i \in DOMAIN s |-> i]
  <1>1. /\ g \in [DOMAIN s -> DOMAIN s]
        /\ \A i, j \in DOMAIN s : g[i] = g[j] => i = j
        /\ \A i \in DOMAIN s : s[i].url = s[g[i]].url /\ s[i].engine = s[g[i]].engine
    OBVIOUS
  <1> HIDE DEF g
  <1> QED BY <1>1 DEF Drawn

LEMMA DrawnAgain ==
  ASSUME NEW r, NEW s, NEW t, Drawn(t, s), Drawn(s, r)
  PROVE  Drawn(t, r)
  <1>1. PICK g \in [DOMAIN t -> DOMAIN s] :
          /\ \A i, j \in DOMAIN t : g[i] = g[j] => i = j
          /\ \A i \in DOMAIN t : t[i].url = s[g[i]].url /\ t[i].engine = s[g[i]].engine
    BY DEF Drawn
  <1>2. PICK h \in [DOMAIN s -> DOMAIN r] :
          /\ \A i, j \in DOMAIN s : h[i] = h[j] => i = j
          /\ \A i \in DOMAIN s : s[i].url = r[h[i]].url /\ s[i].engine = r[h[i]].engine
    BY DEF Drawn
  <1> DEFINE f == [i \in DOMAIN t |-> h[g[i]]]
  <1>3. /\ f \in [DOMAIN t -> DOMAIN r]
        /\ \A i, j \in DOMAIN t : f[i] = f[j] => i = j
        /\ \A i \in DOMAIN t : t[i].url = r[f[i]].url /\ t[i].engine = r[f[i]].engine
    BY <1>1, <1>2
  <1> HIDE DEF f
  <1> QED BY <1>3 DEF Drawn

LEMMA TakeDrawn ==
  ASSUME NEW s \in Seq(Results), NEW n \in Nat
  PROVE  Drawn(Take(s, n), s)
  <1> DEFINE t == Take(s, n)
             g == [i \in DOMAIN t |-> i]
  <1>1. /\ t \in Seq(Results) /\ Len(t) \in Nat /\ Len(s) \in Nat /\ Len(t) <= Len(s)
        /\ \A i \in 1..Len(t) : t[i] = s[i]
    BY TakeIs
  <1> HIDE DEF t
  <1>2. DOMAIN t = 1..Len(t) /\ DOMAIN s = 1..Len(s)
    BY <1>1
  <1>3. /\ g \in [DOMAIN t -> DOMAIN s]
        /\ \A i, j \in DOMAIN t : g[i] = g[j] => i = j
        /\ \A i \in DOMAIN t : t[i].url = s[g[i]].url /\ t[i].engine = s[g[i]].engine
    BY <1>1, <1>2
  <1> HIDE DEF g
  <1> QED BY <1>1, <1>3 DEF Drawn, t

LEMMA PickDrawn ==
  ASSUME NEW s \in Seq(Results), NEW ix \in SUBSET DOMAIN s
  PROVE  Drawn(Pick(s, ix), s)
  <1> DEFINE t == Pick(s, ix)
             n == Cardinality(ix)
  <1>1. /\ n \in Nat /\ t \in Seq(Results) /\ Len(t) = n
        /\ \E f \in [1..n -> ix] :
              /\ \A i \in ix : \E k \in 1..n : f[k] = i
              /\ \A i, j \in 1..n : f[i] <= f[j] <=> i <= j
              /\ \A k \in 1..n : t[k] = s[f[k]]
    BY PickIs
  <1> HIDE DEF t, n
  <1>2. PICK f \in [1..n -> ix] :
              /\ \A i, j \in 1..n : f[i] <= f[j] <=> i <= j
              /\ \A k \in 1..n : t[k] = s[f[k]]
    BY <1>1
  <1>3. DOMAIN t = 1..n /\ DOMAIN s \subseteq Nat
    BY <1>1
  <1>4. ASSUME NEW i \in 1..n, NEW j \in 1..n, f[i] = f[j] PROVE i = j
    <2>1. f[i] \in Nat /\ f[j] \in Nat
      BY <1>3
    <2>2. f[i] <= f[j] /\ f[j] <= f[i]
      BY <2>1, <1>4
    <2> QED BY <2>2, <1>1, <1>2
  <1>5. f \in [DOMAIN t -> DOMAIN s]
    BY <1>3
  <1>6. /\ \A i, j \in DOMAIN t : f[i] = f[j] => i = j
        /\ \A i \in DOMAIN t : t[i].url = s[f[i]].url /\ t[i].engine = s[f[i]].engine
    BY <1>2, <1>3, <1>4
  <1> QED BY <1>1, <1>5, <1>6 DEF Drawn, t

LEMMA ArrangedDrawn ==
  ASSUME NEW s \in Seq(Results), NEW R, Linear(R, DOMAIN s)
  PROVE  Drawn(Arranged(s, R), s)
  <1> DEFINE t == Arranged(s, R)
             n == Len(s)
  <1>0. Linear(R, DOMAIN s) /\ s \in Seq(Results)
    OBVIOUS
  <1> HIDE DEF Linear
  <1>1. /\ t \in Seq(Results) /\ Len(t) = n
        /\ \E f \in [1..n -> 1..n] :
              /\ \A i, j \in 1..n : f[i] = f[j] => i = j
              /\ \A k \in 1..n : t[k] = s[f[k]]
    <2>1. t \in Seq(Results) /\ Len(t) = n /\ Arranges(t, s, R)
      BY <1>0, ArrangedIs
    <2> QED BY <2>1 DEF Arranges
  <1>2. DOMAIN t = 1..n /\ DOMAIN s = 1..n
    BY <1>1
  <1> HIDE DEF t, n
  <1>3. PICK f \in [1..n -> 1..n] :
              /\ \A i, j \in 1..n : f[i] = f[j] => i = j
              /\ \A k \in 1..n : t[k] = s[f[k]]
    BY <1>1
  <1>4. /\ f \in [DOMAIN t -> DOMAIN s]
        /\ \A i, j \in DOMAIN t : f[i] = f[j] => i = j
        /\ \A i \in DOMAIN t : t[i].url = s[f[i]].url /\ t[i].engine = s[f[i]].engine
    BY <1>2, <1>3
  <1> QED BY <1>1, <1>4 DEF Drawn, t

LEMMA ByScoreIs ==
  ASSUME NEW s \in Seq(Results)
  PROVE  Drawn(ByScore(s), s) /\ Len(ByScore(s)) = Len(s)
  <1> DEFINE R == HigherFirst(s)
  <1>1. \A i \in DOMAIN s : i \in Nat /\ s[i].score \in Nat
    <2>1. \A i \in DOMAIN s : s[i] \in Results
      BY ElementOfSeq, Indexes
    <2> QED BY <2>1, Indexes DEF Results
  <1>2. Linear(R, DOMAIN s)
    <2> DEFINE low == [i \in DOMAIN s |-> 0 - s[i].score]
               id == [i \in DOMAIN s |-> i]
    <2>1. ASSUME NEW i \in DOMAIN s, NEW j \in DOMAIN s
          PROVE  <<i, j>> \in R <=> (low[i] < low[j] \/ (low[i] = low[j] /\ id[i] <= id[j]))
      <3>1. <<i, j>> \in R <=> (s[i].score > s[j].score \/ (s[i].score = s[j].score /\ i <= j))
        BY DEF HigherFirst
      <3> HIDE DEF R
      <3> QED BY <1>1, <3>1
    <2>2. low \in [DOMAIN s -> Int] /\ id \in [DOMAIN s -> Int]
      BY <1>1
    <2>3. \A i, j \in DOMAIN s : id[i] = id[j] => i = j
      OBVIOUS
    <2> HIDE DEF low, id, R
    <2> QED BY <2>1, <2>2, <2>3, LinearByTwo
  <1>3. ByScore(s) = Arranged(s, R)
    BY DEF ByScore
  <1> HIDE DEF R
  <1> QED BY <1>2, <1>3, ArrangedDrawn, ArrangedIs
\* Among those of an engine, a later result has a later place.
SameEngine(s, i) == {j \in 1..i : s[j].engine = s[i].engine}

LEMMA PlacesGrow ==
  ASSUME NEW s \in Seq(Results)
  PROVE  /\ \A i \in DOMAIN s : PlaceOf(s, i) \in Nat \ {0} /\ i \in Nat /\ s[i].engine \in Nat
         /\ \A i, j \in DOMAIN s : i < j /\ s[i].engine = s[j].engine => PlaceOf(s, i) < PlaceOf(s, j)
  <1>1. Len(s) \in Nat /\ DOMAIN s = 1..Len(s)
    BY Indexes
  <1>2. ASSUME NEW i \in DOMAIN s
        PROVE  /\ IsFiniteSet(SameEngine(s, i)) /\ PlaceOf(s, i) = Cardinality(SameEngine(s, i))
               /\ PlaceOf(s, i) \in Nat \ {0} /\ i \in Nat /\ s[i].engine \in Nat
    <2>1. IsFiniteSet(1..i) /\ i \in Nat
      BY <1>1, FS_Interval
    <2>2. SameEngine(s, i) \in SUBSET (1..i) /\ i \in SameEngine(s, i)
      BY <1>1 DEF SameEngine
    <2>3. IsFiniteSet(SameEngine(s, i)) /\ Cardinality(SameEngine(s, i)) \in Nat
      BY <2>1, <2>2, FS_Subset, FS_CardinalityType
    <2>4. Cardinality(SameEngine(s, i)) # 0
      BY <2>2, <2>3, FS_EmptySet
    <2>5. PlaceOf(s, i) = Cardinality(SameEngine(s, i))
      BY DEF PlaceOf, SameEngine
    <2>6. s[i] \in Results
      BY ElementOfSeq, <1>1
    <2> QED BY <2>1, <2>3, <2>4, <2>5, <2>6 DEF Results
  <1>3. ASSUME NEW i \in DOMAIN s, NEW j \in DOMAIN s, i < j, s[i].engine = s[j].engine
        PROVE  PlaceOf(s, i) < PlaceOf(s, j)
    <2>1. SameEngine(s, i) \in SUBSET SameEngine(s, j) /\ j \in SameEngine(s, j) /\ j \notin SameEngine(s, i)
      BY <1>1, <1>3 DEF SameEngine
    <2>2. Cardinality(SameEngine(s, i)) <= Cardinality(SameEngine(s, j))
          /\ Cardinality(SameEngine(s, i)) # Cardinality(SameEngine(s, j))
      BY <1>2, <2>1, FS_Subset
    <2> QED BY <1>2, <2>2
  <1> QED BY <1>2, <1>3

LEMMA InRoundsLinear ==
  ASSUME NEW s \in Seq(Results)
  PROVE  Linear(InRounds(s), DOMAIN s)
  <1> DEFINE R == InRounds(s)
             p(i) == PlaceOf(s, i)
  <1>1. \A i \in DOMAIN s : p(i) \in Nat /\ i \in Nat /\ s[i].engine \in Nat
    BY PlacesGrow
  <1>2. ASSUME NEW i \in DOMAIN s, NEW j \in DOMAIN s, p(i) = p(j), s[i].engine = s[j].engine
        PROVE  i = j
    <2>1. ~ (i < j) /\ ~ (j < i)
      BY <1>1, <1>2, PlacesGrow
    <2> QED BY <1>1, <2>1
  <1>3. ASSUME NEW i \in DOMAIN s, NEW j \in DOMAIN s
        PROVE  <<i, j>> \in R <=> (p(i) < p(j) \/ (p(i) = p(j) /\ s[i].engine <= s[j].engine))
    BY DEF InRounds
  <1> DEFINE place == [i \in DOMAIN s |-> p(i)]
             engine == [i \in DOMAIN s |-> s[i].engine]
  <1>4. /\ place \in [DOMAIN s -> Int] /\ engine \in [DOMAIN s -> Int]
        /\ \A i, j \in DOMAIN s : place[i] = place[j] /\ engine[i] = engine[j] => i = j
        /\ \A i, j \in DOMAIN s : <<i, j>> \in R <=>
             (place[i] < place[j] \/ (place[i] = place[j] /\ engine[i] <= engine[j]))
    <2> HIDE DEF R, p
    <2> QED BY <1>1, <1>2, <1>3
  <1> HIDE DEF R, place, engine
  <1>5. Linear(R, DOMAIN s)
    BY <1>4, LinearByTwo
  <1> QED BY <1>5 DEF R

LEMMA RoundRobinDrawn ==
  ASSUME NEW s \in Seq(Results), NEW n \in Nat
  PROVE  Drawn(RoundRobin(s, n), s) /\ Len(RoundRobin(s, n)) = IF n < Len(s) THEN n ELSE Len(s)
  <1> DEFINE t == Arranged(s, InRounds(s))
  <1>1. Drawn(t, s) /\ t \in Seq(Results) /\ Len(t) = Len(s)
    BY InRoundsLinear, ArrangedDrawn, ArrangedIs
  <1>2. Drawn(Take(t, n), t) /\ Len(Take(t, n)) = IF n < Len(t) THEN n ELSE Len(t)
    BY <1>1, TakeDrawn, TakeIs
  <1> HIDE DEF t
  <1> QED BY <1>1, <1>2, DrawnAgain DEF RoundRobin, t

-----------------------------------------------------------------------------
(* The lists of the engines                                                *)

Of(e) == {r \in Results : r.engine = e}

LEMMA OfResults ==
  ASSUME NEW e
  PROVE  Seq(Of(e)) \subseteq Seq(Results)
  <1>1. Of(e) \subseteq Results
    BY DEF Of
  <1> QED BY <1>1

\* The first result of each url of a list.
IsFirst(s, i) == \A j \in 1..(i-1) : s[j].url # s[i].url

LEMMA FirstOfUrl ==
  ASSUME NEW e, NEW s \in Seq(Of(e))
  PROVE  /\ FirstPer(Url, s) \in Seq(Of(e))
         /\ \A i \in DOMAIN s : IsFirst(s, i) =>
              \E k \in DOMAIN FirstPer(Url, s) : FirstPer(Url, s)[k] = s[i]
  <1> DEFINE ids == [i \in DOMAIN s |-> s[i].url]
             t == FirstPer(Url, s)
  <1>1. Len(s) \in Nat /\ DOMAIN s = 1..Len(s)
    BY Indexes
  <1>2. t = Pick(s, Firsts(s, ids))
    <2>1. \A i \in DOMAIN s : \A j \in 1..(i-1) : ids[j] = s[j].url /\ ids[i] = s[i].url
      BY <1>1
    <2>2. Firsts(s, ids) = {i \in DOMAIN s : \A j \in 1..(i-1) : s[j].url # s[i].url}
      BY <2>1 DEF Firsts
    <2> QED BY <2>2 DEF FirstPer, Url
  <1>3. DOMAIN ids = DOMAIN s
    OBVIOUS
  <1> HIDE DEF t
  <1>4. /\ t \in Seq(Of(e))
        /\ \E f \in [DOMAIN t -> DOMAIN s] :
             /\ \A k \in DOMAIN t : t[k] = s[f[k]]
             /\ \A i \in Firsts(s, ids) : \E k \in DOMAIN t : f[k] = i
    <2> HIDE DEF ids
    <2>1. t \in Seq(Of(e)) /\ HoldsFirsts(t, s, ids)
      BY <1>2, <1>3, FirstIs
    <2> QED BY <2>1 DEF HoldsFirsts
  <1>5. ASSUME NEW i \in DOMAIN s, IsFirst(s, i)
        PROVE  \E k \in DOMAIN t : t[k] = s[i]
    <2>1. i \in Firsts(s, ids)
      BY <1>1, <1>5 DEF IsFirst, Firsts
    <2> HIDE DEF ids
    <2>2. \E k \in DOMAIN t : t[k] = s[i]
      BY <2>1, <1>4
    <2> QED BY <2>2
  <1> QED BY <1>4, <1>5 DEF t
LEMMA RoomIs ==
  ASSUME NEW c \in Confs, NEW e \in DOMAIN c.max, NEW s
  PROVE  EngineRoom(c, e, s) \in Nat \ {0}
  <1>1. /\ DefaultEngineMax \in Nat \ {0} /\ c.max \in Seq(Nat) /\ c.maxSize \in Nat
    BY HybridAssumption
  <1> DEFINE n == Len(c.max)
  <1>2. n \in Nat \ {0} /\ c.max[e] \in Nat
    BY <1>1
  <1> HIDE DEF n
  <1>3. c.maxSize > 0 => Share(c.maxSize, n) \in Nat \ {0}
    <2> SUFFICES ASSUME c.maxSize > 0 PROVE Share(c.maxSize, n) \in Nat \ {0}
      OBVIOUS
    <2>1. PICK m \in Nat : m = c.maxSize + n - 1 /\ m >= n
      BY <1>1, <1>2
    <2>2. m \div n \in Nat /\ m \div n >= 1
      BY <1>2, <2>1
    <2> QED BY <2>1, <2>2 DEF Share
  <1>4. (IF c.max[e] = 0 THEN DefaultEngineMax ELSE c.max[e]) \in Nat \ {0}
    BY <1>1, <1>2
  <1> QED BY <1>3, <1>4 DEF EngineRoom, n

\* What an engine contributes are results of its own, and at least one when
\* the first result of some url has the required score.
LEMMA BucketIs ==
  ASSUME NEW c \in Confs, NEW e \in DOMAIN c.max, NEW s \in Seq(Of(e))
  PROVE  /\ Bucket(c, e, s) \in Seq(Of(e))
         /\ (\E i \in DOMAIN s : IsFirst(s, i) /\ s[i].score >= c.min[e]) => Bucket(c, e, s) # <<>>
  <1> DEFINE u == FirstPer(Url, s)
             a == AboveMinimum(c.min[e], u)
             ix == {i \in DOMAIN u : u[i].score >= c.min[e]}
  <1>1. /\ u \in Seq(Of(e))
        /\ \A i \in DOMAIN s : IsFirst(s, i) => \E k \in DOMAIN u : u[k] = s[i]
    BY FirstOfUrl
  <1> HIDE DEF u
  <1>2. Pick(u, ix) \in Seq(Of(e)) /\ Len(Pick(u, ix)) = Cardinality(ix) /\ IsFiniteSet(ix) /\ Cardinality(ix) \in Nat
    <2>1. ix \in SUBSET DOMAIN u
      OBVIOUS
    <2> HIDE DEF ix
    <2> QED BY <1>1, <2>1, PickIs
  <1>3. a = u \/ a = Pick(u, ix)
    BY DEF AboveMinimum
  <1> HIDE DEF ix, a
  <1>4. a \in Seq(Of(e))
    BY <1>1, <1>2, <1>3
  <1>5. Bucket(c, e, s) = Take(a, EngineRoom(c, e, a))
    BY DEF Bucket, a, u
  <1>6. EngineRoom(c, e, a) \in Nat \ {0}
    BY RoomIs
  <1>7. /\ Bucket(c, e, s) \in Seq(Of(e))
        /\ Len(Bucket(c, e, s)) = IF EngineRoom(c, e, a) < Len(a) THEN EngineRoom(c, e, a) ELSE Len(a)
    BY <1>4, <1>5, <1>6, TakeIs
  <1>8. ASSUME NEW i \in DOMAIN s, IsFirst(s, i), s[i].score >= c.min[e]
        PROVE  Len(a) # 0
    <2>1. PICK k \in DOMAIN u : u[k] = s[i]
      BY <1>1, <1>8
    <2>2. k \in ix
      BY <2>1, <1>8 DEF ix
    <2>3. Cardinality(ix) # 0
      BY <2>2, <1>2, FS_EmptySet
    <2>4. Len(u) # 0
      BY <1>1, Indexes
    <2> QED BY <1>2, <1>3, <2>3, <2>4
  <1> QED BY <1>4, <1>6, <1>7, <1>8

-----------------------------------------------------------------------------
(* The merge                                                               *)

\* What the engines of an order contribute.
Contributed(buckets, order) ==
  /\ buckets \in Seq(Seq(Results))
  /\ order \in [DOMAIN buckets -> Nat]
  /\ \A b, d \in DOMAIN buckets : order[b] < order[d] => b < d
  /\ \A b \in DOMAIN buckets : buckets[b] \in Seq(Of(order[b]))

\* A page is credited to the first engine that contributed it.
Credited(m, buckets, order) ==
  \A k \in DOMAIN m, b \in DOMAIN buckets :
    order[b] < m[k].engine => \A i \in DOMAIN buckets[b] : buckets[b][i].url # m[k].url

Pages(m) == \A i, j \in DOMAIN m : m[i].url = m[j].url => i = j
Keyed(m) == \A i, j \in DOMAIN m : UrlKey(m[i]) = UrlKey(m[j]) => i = j

LEMMA DrawnClean ==
  ASSUME NEW t, NEW m, Drawn(t, m), NEW buckets, NEW order
  PROVE  /\ Pages(m) => Pages(t)
         /\ Keyed(m) => Keyed(t)
         /\ Credited(m, buckets, order) => Credited(t, buckets, order)
  <1>1. PICK g \in [DOMAIN t -> DOMAIN m] :
          /\ \A i, j \in DOMAIN t : g[i] = g[j] => i = j
          /\ \A i \in DOMAIN t : t[i].url = m[g[i]].url /\ t[i].engine = m[g[i]].engine
    BY DEF Drawn
  <1>2. \A i \in DOMAIN t : UrlKey(t[i]) = UrlKey(m[g[i]])
    BY <1>1 DEF UrlKey
  <1>3. Pages(m) => Pages(t)
    BY <1>1 DEF Pages
  <1>4. Keyed(m) => Keyed(t)
    BY <1>1, <1>2 DEF Keyed
  <1>5. Credited(m, buckets, order) => Credited(t, buckets, order)
    BY <1>1 DEF Credited
  <1> QED BY <1>3, <1>4, <1>5

\* A list of the results at the places Q, in the order of the buckets.
At(buckets, p) == buckets[p[1]][p[2]]
FromPlaces(all, buckets, Q) ==
  /\ all \in Seq(Results)
  /\ \E at \in [DOMAIN all -> Q] :
       /\ \A p \in Q : \E k \in DOMAIN all : at[k] = p
       /\ \A k \in DOMAIN all : all[k] = At(buckets, at[k])
       /\ \A k, l \in DOMAIN all : at[k][1] < at[l][1] => k < l

\* Of pages that are told apart by their urls or less, the first result of each
\* is credited.
LEMMA FirstCredited ==
  ASSUME NEW buckets, NEW order, Contributed(buckets, order),
         NEW Q \in SUBSET Places(buckets), NEW all, FromPlaces(all, buckets, Q),
         \A p \in Q, q \in Places(buckets) : At(buckets, p).url = At(buckets, q).url => q \in Q,
         NEW ids, \A i, j \in DOMAIN all : all[i].url = all[j].url => ids[i] = ids[j],
         NEW m, HoldsFirsts(m, all, ids)
  PROVE  /\ Pages(m) /\ Credited(m, buckets, order)
         /\ \A p \in Q : \E k \in DOMAIN m, i, j \in DOMAIN all :
              At(buckets, p) = all[i] /\ m[k] = all[j] /\ ids[i] = ids[j]
  <1>1. PICK at \in [DOMAIN all -> Q] :
          /\ \A p \in Q : \E k \in DOMAIN all : at[k] = p
          /\ \A k \in DOMAIN all : all[k] = At(buckets, at[k])
          /\ \A k, l \in DOMAIN all : at[k][1] < at[l][1] => k < l
    BY DEF FromPlaces
  <1>2. PICK f \in [DOMAIN m -> DOMAIN all] :
          /\ \A k \in DOMAIN m : m[k] = all[f[k]]
          /\ \A k, l \in DOMAIN m : ids[f[k]] = ids[f[l]] => k = l
          /\ \A k \in DOMAIN m : \A j \in DOMAIN all : ids[j] = ids[f[k]] => f[k] <= j
          /\ \A i \in DOMAIN all : \E k \in DOMAIN m : ids[f[k]] = ids[i]
    BY DEF HoldsFirsts
  <1>3. Pages(m)
    <2> SUFFICES ASSUME NEW k \in DOMAIN m, NEW l \in DOMAIN m, m[k].url = m[l].url
                 PROVE  k = l
      BY DEF Pages
    <2>1. ids[f[k]] = ids[f[l]]
      BY <1>2
    <2> QED BY <1>2, <2>1
  <1>4. ASSUME NEW k \in DOMAIN m, NEW b \in DOMAIN buckets, order[b] < m[k].engine,
               NEW i \in DOMAIN buckets[b], buckets[b][i].url = m[k].url
        PROVE  FALSE
    <2>1. at[f[k]] \in Q /\ m[k] = At(buckets, at[f[k]])
      BY <1>1, <1>2
    <2>2. PICK d \in DOMAIN buckets : at[f[k]][1] = d /\ at[f[k]][2] \in DOMAIN buckets[d]
      BY <2>1 DEF Places
    <2>3. <<b, i>> \in Places(buckets) /\ At(buckets, <<b, i>>).url = At(buckets, at[f[k]]).url
      BY <1>4, <2>1 DEF Places, At
    <2>4. <<b, i>> \in Q
      BY <2>1, <2>3
    <2>5. PICK q \in DOMAIN all : at[q] = <<b, i>>
      BY <1>1, <2>4
    <2>6. all[q].url = all[f[k]].url
      <3>1. all[q] = At(buckets, at[q]) /\ all[f[k]] = At(buckets, at[f[k]])
        BY <1>1, <1>2
      <3> QED BY <2>3, <2>5, <3>1
    <2>7. f[k] <= q
      BY <1>2, <2>6
    <2>8. m[k].engine = order[d]
      <3>1. m[k] = buckets[d][at[f[k]][2]]
        BY <2>1, <2>2 DEF At
      <3>2. buckets[d] \in Seq(Of(order[d]))
        BY DEF Contributed
      <3>3. m[k] \in Of(order[d])
        BY <3>1, <3>2, <2>2, ElementOfSeq, Indexes
      <3> QED BY <3>3 DEF Of
    <2>9. b < d
      BY <2>8, <1>4 DEF Contributed
    <2>10. q < f[k]
      BY <2>2, <2>5, <2>9, <1>1, <1>2
    <2>11. q \in Nat /\ f[k] \in Nat
      <3>1. all \in Seq(Results)
        BY DEF FromPlaces
      <3>2. DOMAIN all = 1..Len(all) /\ Len(all) \in Nat
        BY <3>1, Indexes
      <3> QED BY <3>2
    <2> QED BY <2>7, <2>10, <2>11
  <1>5. Credited(m, buckets, order)
    BY <1>4 DEF Credited
  <1>6. ASSUME NEW p \in Q
        PROVE  \E k \in DOMAIN m, i, j \in DOMAIN all :
                 At(buckets, p) = all[i] /\ m[k] = all[j] /\ ids[i] = ids[j]
    <2>1. PICK i \in DOMAIN all : at[i] = p
      BY <1>1
    <2>2. PICK k \in DOMAIN m : ids[f[k]] = ids[i]
      BY <1>2
    <2> QED BY <1>1, <1>2, <2>1, <2>2
  <1> QED BY <1>3, <1>5, <1>6

LEMMA FlatFrom ==
  ASSUME NEW buckets \in Seq(Seq(Results))
  PROVE  FromPlaces(Flat(buckets), buckets, Places(buckets))
  BY FlatIs DEF FromPlaces, At

\* The first contribution of each url.
LEMMA MergedIs ==
  ASSUME NEW buckets, NEW order, Contributed(buckets, order)
  PROVE  LET m == FirstPer(Url, Flat(buckets))
         IN  /\ m \in Seq(Results) /\ Pages(m) /\ Credited(m, buckets, order)
             /\ \A p \in Places(buckets) : \E k \in DOMAIN m : m[k].url = At(buckets, p).url
             /\ \A k \in DOMAIN m : \E p \in Places(buckets) : m[k] = At(buckets, p)
  <1> DEFINE all == Flat(buckets)
             ids == [i \in DOMAIN all |-> all[i].url]
             m == FirstPer(Url, all)
  <1>1. all \in Seq(Results) /\ FromPlaces(all, buckets, Places(buckets))
    BY FlatFrom DEF Contributed, FromPlaces
  <1> HIDE DEF all
  <1>2. m = Pick(all, Firsts(all, ids))
    <2>0. Len(all) \in Nat /\ DOMAIN all = 1..Len(all)
      BY <1>1, Indexes
    <2>1. \A i \in DOMAIN all : \A j \in 1..(i-1) : ids[j] = all[j].url /\ ids[i] = all[i].url
      BY <2>0
    <2>2. Firsts(all, ids) = {i \in DOMAIN all : \A j \in 1..(i-1) : all[j].url # all[i].url}
      BY <2>1 DEF Firsts
    <2> QED BY <2>2 DEF FirstPer, Url
  <1>3. DOMAIN ids = DOMAIN all /\ \A i, j \in DOMAIN all : all[i].url = all[j].url <=> ids[i] = ids[j]
    OBVIOUS
  <1> HIDE DEF ids, m
  <1>4. m \in Seq(Results) /\ HoldsFirsts(m, all, ids)
    BY <1>1, <1>2, <1>3, FirstIs
  <1>5. /\ Pages(m) /\ Credited(m, buckets, order)
        /\ \A p \in Places(buckets) : \E k \in DOMAIN m, i, j \in DOMAIN all :
             At(buckets, p) = all[i] /\ m[k] = all[j] /\ ids[i] = ids[j]
    BY <1>1, <1>3, <1>4, FirstCredited
  <1>6. \A p \in Places(buckets) : \E k \in DOMAIN m : m[k].url = At(buckets, p).url
    BY <1>3, <1>5
  <1>7. ASSUME NEW k \in DOMAIN m
        PROVE  \E p \in Places(buckets) : m[k] = At(buckets, p)
    <2>1. PICK i \in DOMAIN all : m[k] = all[i]
      BY <1>4 DEF HoldsFirsts
    <2>2. PICK at \in [DOMAIN all -> Places(buckets)] : \A l \in DOMAIN all : all[l] = At(buckets, at[l])
      BY <1>1 DEF FromPlaces
    <2> QED BY <2>1, <2>2
  <1> QED BY <1>4, <1>5, <1>6, <1>7 DEF m, all

LEMMA PlainIs ==
  ASSUME NEW c \in Confs, NEW buckets, NEW order, Contributed(buckets, order)
  PROVE  LET t == PlainMerge(c, buckets)
         IN  /\ t \in Seq(Results) /\ Pages(t) /\ Credited(t, buckets, order)
             /\ c.maxSize > 0 => Len(t) <= c.maxSize
             /\ Len(FirstPer(Url, Flat(buckets))) >= 1 => Len(t) >= 1
  <1> DEFINE m == FirstPer(Url, Flat(buckets))
             t == PlainMerge(c, buckets)
  <1>1. m \in Seq(Results) /\ Pages(m) /\ Credited(m, buckets, order)
    BY MergedIs
  <1>2. c.maxSize \in Nat
    BY HybridAssumption
  <1>3. t = IF c.maxSize = 0 \/ Len(m) <= c.maxSize THEN m
            ELSE IF Scored(m) THEN Take(ByScore(m), c.maxSize)
            ELSE RoundRobin(m, c.maxSize)
    BY DEF PlainMerge
  <1> HIDE DEF m, t
  <1>4. Len(m) \in Nat
    BY <1>1
  <1>5. CASE c.maxSize = 0 \/ Len(m) <= c.maxSize
    BY <1>1, <1>2, <1>3, <1>5 DEF t, m
  <1>6. CASE ~ (c.maxSize = 0 \/ Len(m) <= c.maxSize) /\ Scored(m)
    <2>1. t = Take(ByScore(m), c.maxSize)
      BY <1>3, <1>6
    <2>2. Drawn(ByScore(m), m) /\ ByScore(m) \in Seq(Results) /\ Len(ByScore(m)) = Len(m)
      BY <1>1, ByScoreIs DEF Drawn
    <2>3. Drawn(t, ByScore(m)) /\ Len(t) = c.maxSize
      <3> DEFINE u == ByScore(m)
      <3>1. u \in Seq(Results) /\ t = Take(u, c.maxSize) /\ Len(u) = Len(m)
        BY <2>1, <2>2
      <3> HIDE DEF u
      <3>2. Drawn(t, u) /\ Len(t) = IF c.maxSize < Len(u) THEN c.maxSize ELSE Len(u)
        BY <1>2, <3>1, TakeDrawn, TakeIs
      <3> QED BY <1>2, <1>4, <1>6, <3>1, <3>2 DEF u
    <2>4. Drawn(t, m)
      BY <2>2, <2>3, DrawnAgain
    <2>5. Len(t) >= 1
      BY <1>2, <1>6, <2>3
    <2>6. t \in Seq(Results) /\ Pages(t) /\ Credited(t, buckets, order)
      BY <1>1, <2>4, DrawnClean DEF Drawn
    <2> QED BY <1>2, <2>3, <2>5, <2>6 DEF t, m
  <1>7. CASE ~ (c.maxSize = 0 \/ Len(m) <= c.maxSize) /\ ~ Scored(m)
    <2>1. t = RoundRobin(m, c.maxSize)
      BY <1>3, <1>7
    <2>2. Drawn(t, m) /\ Len(t) = c.maxSize
      BY <1>1, <1>2, <1>4, <1>7, <2>1, RoundRobinDrawn
    <2>3. Len(t) >= 1
      BY <1>2, <1>7, <2>2
    <2>4. t \in Seq(Results) /\ Pages(t) /\ Credited(t, buckets, order)
      BY <1>1, <2>2, DrawnClean DEF Drawn
    <2> QED BY <1>2, <2>2, <2>3, <2>4 DEF t, m
  <1> QED BY <1>5, <1>6, <1>7

-----------------------------------------------------------------------------
(* The merge with scoring                                                  *)

LEMMA RescoredDrawn ==
  ASSUME NEW s \in Seq(Results), NEW f \in [DOMAIN s -> Scores]
  PROVE  LET t == [i \in DOMAIN s |-> [s[i] EXCEPT !.score = f[i]]]
         IN  Drawn(t, s) /\ Len(t) = Len(s)
  <1> DEFINE t == [i \in DOMAIN s |-> [s[i] EXCEPT !.score = f[i]]]
             g == [i \in DOMAIN s |-> i]
  <1>1. Len(s) \in Nat /\ DOMAIN s = 1..Len(s) /\ Scores \subseteq Nat
    BY Indexes, HybridAssumption
  <1>2. ASSUME NEW i \in DOMAIN s
        PROVE  /\ t[i] \in Results
               /\ t[i].url = s[i].url /\ t[i].engine = s[i].engine
    <2>1. s[i] \in Results /\ f[i] \in Nat
      BY <1>1, ElementOfSeq
    <2> QED BY <2>1 DEF Results
  <1>3. t \in Seq(Results) /\ Len(t) = Len(s) /\ DOMAIN t = DOMAIN s
    <2>1. DOMAIN t = 1..Len(s) /\ \A i \in 1..Len(s) : t[i] \in Results
      BY <1>1, <1>2
    <2>2. t = [i \in 1..Len(s) |-> t[i]]
      BY <1>1
    <2> HIDE DEF t
    <2> QED BY <1>1, <2>1, <2>2
  <1> HIDE DEF t
  <1>4. /\ g \in [DOMAIN t -> DOMAIN s]
        /\ \A i, j \in DOMAIN t : g[i] = g[j] => i = j
        /\ \A i \in DOMAIN t : t[i].url = s[g[i]].url /\ t[i].engine = s[g[i]].engine
    BY <1>2, <1>3
  <1> HIDE DEF g
  <1>5. Drawn(t, s)
    BY <1>3, <1>4 DEF Drawn
  <1> QED BY <1>3, <1>5 DEF t

LEMMA ScoreFloorIs ==
  ASSUME NEW s \in Seq(Results), NEW threshold
  PROVE  /\ Drawn(ScoreFloor(threshold, s), s)
         /\ \A n \in 1..2 : Len(s) >= n => Len(ScoreFloor(threshold, s)) >= n
  <1> DEFINE above == {i \in 2..Len(s) : s[i].score >= threshold}
             ix == {1} \cup above
             t == ScoreFloor(threshold, s)
  <1>1. t = IF above = {} THEN Take(s, 2) ELSE Pick(s, ix)
    BY DEF ScoreFloor
  <1>2. Len(s) \in Nat /\ DOMAIN s = 1..Len(s)
    BY Indexes
  <1> HIDE DEF t
  <1>3. CASE above = {}
    <2>1. t = Take(s, 2)
      BY <1>1, <1>3
    <2>2. Drawn(t, s) /\ Len(t) = IF 2 < Len(s) THEN 2 ELSE Len(s)
      BY <2>1, TakeDrawn, TakeIs
    <2> QED BY <1>2, <2>2 DEF t
  <1>4. CASE above # {}
    <2>1. PICK i \in above : TRUE
      BY <1>4
    <2>2. ix \in SUBSET DOMAIN s /\ 1 \in ix /\ i \in ix /\ i # 1
      BY <1>2, <2>1
    <2> DEFINE n == Cardinality(ix)
    <2>3. t = Pick(s, ix)
      BY <1>1, <1>4
    <2> HIDE DEF above, ix
    <2>4. /\ n \in Nat /\ Len(t) = n
          /\ \E f \in [1..n -> ix] : \A j \in ix : \E k \in 1..n : f[k] = j
      BY <2>2, <2>3, PickIs
    <2> HIDE DEF n
    <2>5. PICK f \in [1..n -> ix] : \A j \in ix : \E k \in 1..n : f[k] = j
      BY <2>4
    <2>6. PICK k \in 1..n : f[k] = 1
      BY <2>2, <2>5
    <2>7. PICK l \in 1..n : f[l] = i
      BY <2>2, <2>5
    <2>8. n >= 2
      <3>1. k # l
        BY <2>2, <2>6, <2>7
      <3> QED BY <2>4, <3>1
    <2>9. Drawn(t, s)
      BY <2>2, <2>3, PickDrawn
    <2> QED BY <2>4, <2>8, <2>9 DEF t
  <1> QED BY <1>3, <1>4

LEMMA RerankedIs ==
  ASSUME NEW s \in Seq(Results), NEW target \in Nat, NEW t \in Reranked(target, s)
  PROVE  /\ Drawn(t, s)
         /\ Len(s) >= 1 => Len(t) >= 1
         /\ Len(s) >= 2 /\ target # 1 => Len(t) >= 2
  <1> DEFINE n == IF target = 0 \/ target > Len(s) THEN Len(s) ELSE target
  <1>1. Len(s) \in Nat /\ DOMAIN s = 1..Len(s)
    BY Indexes
  <1>2. CASE Len(s) <= 1
    <2>1. t = s
      BY <1>2 DEF Reranked
    <2> QED BY <1>1, <1>2, <2>1, DrawnSelf
  <1>3. CASE ~ (Len(s) <= 1)
    <2>1. n \in Nat /\ n <= Len(s) /\ n >= 1 /\ (target # 1 => n >= 2)
      BY <1>1, <1>3
    <2>2. \E p \in [1..n -> 1..Len(s)] :
            /\ \A i, j \in 1..n : p[i] = p[j] => i = j
            /\ t = [i \in 1..n |-> s[p[i]]]
      BY <1>3 DEF Reranked
    <2> HIDE DEF n
    <2>3. PICK p \in [1..n -> 1..Len(s)] :
            /\ \A i, j \in 1..n : p[i] = p[j] => i = j
            /\ t = [i \in 1..n |-> s[p[i]]]
      BY <2>2
    <2>4. \A i \in 1..n : s[p[i]] \in Results
      BY <1>1, ElementOfSeq
    <2>5. t \in Seq(Results) /\ DOMAIN t = 1..n /\ Len(t) = n
      BY <2>1, <2>3, <2>4
    <2>6. \A i \in DOMAIN t : t[i] = s[p[i]]
      BY <2>3, <2>5
    <2>7. /\ p \in [DOMAIN t -> DOMAIN s]
          /\ \A i, j \in DOMAIN t : p[i] = p[j] => i = j
          /\ \A i \in DOMAIN t : t[i].url = s[p[i]].url /\ t[i].engine = s[p[i]].engine
      BY <1>1, <2>3, <2>5, <2>6
    <2>8. Drawn(t, s)
      BY <2>5, <2>7 DEF Drawn
    <2> QED BY <2>1, <2>5, <2>8
  <1> QED BY <1>2, <1>3
\* The results with a key, and the first of each key.
WithKey(all) == Pick(all, {i \in DOMAIN all : UrlKey(all[i]) # NoKey})
KeyMerged(buckets) == FirstPer(UrlKey, WithKey(Flat(buckets)))

HasKey(buckets) == {p \in Places(buckets) : UrlKey(At(buckets, p)) # NoKey}

LEMMA WithKeyFrom ==
  ASSUME NEW buckets \in Seq(Seq(Results))
  PROVE  FromPlaces(WithKey(Flat(buckets)), buckets, HasKey(buckets))
  <1> DEFINE all == Flat(buckets)
             ix == {i \in DOMAIN all : UrlKey(all[i]) # NoKey}
             t == Pick(all, ix)
             n == Cardinality(ix)
             Q == HasKey(buckets)
  <1>1. FromPlaces(all, buckets, Places(buckets))
    BY FlatFrom
  <1> HIDE DEF all
  <1>2. PICK at \in [DOMAIN all -> Places(buckets)] :
          /\ \A p \in Places(buckets) : \E k \in DOMAIN all : at[k] = p
          /\ \A k \in DOMAIN all : all[k] = At(buckets, at[k])
          /\ \A k, l \in DOMAIN all : at[k][1] < at[l][1] => k < l
    BY <1>1 DEF FromPlaces
  <1>3. all \in Seq(Results) /\ ix \in SUBSET DOMAIN all
    BY <1>1 DEF FromPlaces
  <1>4. ix \subseteq Nat
    BY <1>3, Indexes
  <1>5. \A i \in ix : at[i] \in Q
    BY <1>2 DEF HasKey
  <1>6. \A p \in Q : \E i \in ix : at[i] = p
    BY <1>2 DEF HasKey
  <1> HIDE DEF ix, t, n, Q
  <1>7. /\ n \in Nat /\ t \in Seq(Results) /\ Len(t) = n
        /\ \E f \in [1..n -> ix] :
              /\ \A i \in ix : \E k \in 1..n : f[k] = i
              /\ \A i, j \in 1..n : f[i] <= f[j] <=> i <= j
              /\ \A k \in 1..n : t[k] = all[f[k]]
    BY <1>3, PickIs DEF t, n
  <1>8. PICK f \in [1..n -> ix] :
              /\ \A i \in ix : \E k \in 1..n : f[k] = i
              /\ \A i, j \in 1..n : f[i] <= f[j] <=> i <= j
              /\ \A k \in 1..n : t[k] = all[f[k]]
    BY <1>7
  <1>9. DOMAIN t = 1..n
    BY <1>7
  <1> DEFINE g == [k \in 1..n |-> at[f[k]]]
  <1>10. g \in [DOMAIN t -> Q]
    BY <1>5, <1>9
  <1>11. ASSUME NEW p \in Q PROVE \E k \in 1..n : g[k] = p
    <2>1. PICK i \in ix : at[i] = p
      BY <1>6
    <2>2. PICK k \in 1..n : f[k] = i
      BY <1>8
    <2> QED BY <2>1, <2>2
  <1>12. \A k \in 1..n : t[k] = At(buckets, g[k])
    BY <1>2, <1>3, <1>8
  <1>13. ASSUME NEW k \in 1..n, NEW l \in 1..n, g[k][1] < g[l][1]
         PROVE  k < l
    <2>1. f[k] \in DOMAIN all /\ f[l] \in DOMAIN all /\ f[k] \in Nat /\ f[l] \in Nat
      BY <1>3, <1>4
    <2>2. f[k] < f[l]
      BY <1>2, <1>13, <2>1
    <2>3. ~ (l <= k)
      BY <1>8, <2>1, <2>2
    <2> QED BY <1>7, <2>3
  <1> HIDE DEF g
  <1>14. /\ \A p \in Q : \E k \in DOMAIN t : g[k] = p
         /\ \A k \in DOMAIN t : t[k] = At(buckets, g[k])
         /\ \A k, l \in DOMAIN t : g[k][1] < g[l][1] => k < l
    BY <1>9, <1>11, <1>12, <1>13
  <1>15. FromPlaces(t, buckets, Q)
    BY <1>7, <1>10, <1>14 DEF FromPlaces
  <1> QED BY <1>15 DEF t, ix, all, Q, WithKey

\* The first contribution of each key.
LEMMA KeyMergedIs ==
  ASSUME NEW buckets, NEW order, Contributed(buckets, order)
  PROVE  LET m == KeyMerged(buckets)
         IN  /\ m \in Seq(Results) /\ Keyed(m) /\ Credited(m, buckets, order)
             /\ \A p \in HasKey(buckets) : \E k \in DOMAIN m : UrlKey(m[k]) = UrlKey(At(buckets, p))
  <1> DEFINE all == WithKey(Flat(buckets))
             ids == [i \in DOMAIN all |-> UrlKey(all[i])]
             m == FirstPer(UrlKey, all)
  <1>1. all \in Seq(Results) /\ FromPlaces(all, buckets, HasKey(buckets))
    BY WithKeyFrom DEF Contributed, FromPlaces
  <1> HIDE DEF all
  <1>2. m = Pick(all, Firsts(all, ids))
    <2>0. Len(all) \in Nat /\ DOMAIN all = 1..Len(all)
      BY <1>1, Indexes
    <2>1. \A i \in DOMAIN all : \A j \in 1..(i-1) : ids[j] = UrlKey(all[j]) /\ ids[i] = UrlKey(all[i])
      BY <2>0
    <2>2. Firsts(all, ids) = {i \in DOMAIN all : \A j \in 1..(i-1) : UrlKey(all[j]) # UrlKey(all[i])}
      BY <2>1 DEF Firsts
    <2> QED BY <2>2 DEF FirstPer
  <1>3. /\ DOMAIN ids = DOMAIN all
        /\ \A i, j \in DOMAIN all : all[i].url = all[j].url => ids[i] = ids[j]
        /\ \A i \in DOMAIN all : ids[i] = UrlKey(all[i])
    BY DEF UrlKey
  <1>4. /\ HasKey(buckets) \in SUBSET Places(buckets)
        /\ \A p \in HasKey(buckets), q \in Places(buckets) :
             At(buckets, p).url = At(buckets, q).url => q \in HasKey(buckets)
    BY DEF HasKey, UrlKey
  <1> HIDE DEF ids, m
  <1>5. m \in Seq(Results) /\ HoldsFirsts(m, all, ids)
    BY <1>1, <1>2, <1>3, FirstIs
  <1>6. /\ Credited(m, buckets, order)
        /\ \A p \in HasKey(buckets) : \E k \in DOMAIN m, i, j \in DOMAIN all :
             At(buckets, p) = all[i] /\ m[k] = all[j] /\ ids[i] = ids[j]
    BY <1>1, <1>3, <1>4, <1>5, FirstCredited
  <1>7. \A p \in HasKey(buckets) : \E k \in DOMAIN m : UrlKey(m[k]) = UrlKey(At(buckets, p))
    BY <1>3, <1>6
  <1>8. Keyed(m)
    <2>1. PICK f \in [DOMAIN m -> DOMAIN all] :
          /\ \A k \in DOMAIN m : m[k] = all[f[k]]
          /\ \A k, l \in DOMAIN m : ids[f[k]] = ids[f[l]] => k = l
      BY <1>5 DEF HoldsFirsts
    <2>2. \A k \in DOMAIN m : ids[f[k]] = UrlKey(m[k])
      BY <1>3, <2>1
    <2> QED BY <2>1, <2>2 DEF Keyed
  <1> QED BY <1>5, <1>6, <1>7, <1>8 DEF m, all, KeyMerged

LEMMA EnhancedDrawn ==
  ASSUME NEW c \in Confs, NEW buckets, KeyMerged(buckets) \in Seq(Results),
         NEW s \in EnhancedMerges(c, buckets, Scores)
  PROVE  /\ Drawn(s, KeyMerged(buckets))
         /\ c.maxSize > 0 => Len(s) <= c.maxSize
         /\ Len(KeyMerged(buckets)) >= 1 => Len(s) >= 1
         /\ Len(KeyMerged(buckets)) >= 2 /\ c.maxSize # 1 /\ (c.mmr => c.target # 1) => Len(s) >= 2
  <1> DEFINE m == KeyMerged(buckets)
             Rescored(f) == [i \in DOMAIN m |-> [m[i] EXCEPT !.score = f[i]]]
             scored == {ByScore(Rescored(f)) : f \in [DOMAIN m -> Scores]}
             floored == {ScoreFloor(c.threshold, u) : u \in scored}
             diverse == IF c.mmr THEN UNION {Reranked(c.target, w) : w \in floored} ELSE floored
  <1>1. EnhancedMerges(c, buckets, Scores)
          = IF c.maxSize > 0 THEN {Take(d, c.maxSize) : d \in diverse} ELSE diverse
    BY DEF EnhancedMerges, KeyMerged, WithKey
  <1>2. PICK d \in diverse : s = IF c.maxSize > 0 THEN Take(d, c.maxSize) ELSE d
    <2> HIDE DEF diverse
    <2> QED BY <1>1
  <1>21. PICK w \in floored : d \in (IF c.mmr THEN Reranked(c.target, w) ELSE {w})
    <2> HIDE DEF floored
    <2> QED BY <1>2
  <1>22. PICK u \in scored : w = ScoreFloor(c.threshold, u)
    <2> HIDE DEF scored
    <2> QED BY <1>21
  <1>23. PICK f \in [DOMAIN m -> Scores] : u = ByScore(Rescored(f))
    BY <1>22
  <1> HIDE DEF scored, floored, diverse
  <1>3. c.maxSize \in Nat /\ c.target \in Nat
    BY HybridAssumption
  <1> DEFINE r == Rescored(f)
  <1>4. Drawn(r, m) /\ r \in Seq(Results) /\ Len(r) = Len(m)
    <2>1. m \in Seq(Results)
      OBVIOUS
    <2> HIDE DEF m
    <2>2. Drawn(r, m) /\ Len(r) = Len(m)
      BY <2>1, RescoredDrawn
    <2> QED BY <2>2 DEF Drawn
  <1> HIDE DEF m, r
  <1>5. Drawn(u, r) /\ u \in Seq(Results) /\ Len(u) = Len(r)
    <2>1. u = ByScore(r)
      BY <1>23 DEF r
    <2>2. Drawn(u, r) /\ Len(u) = Len(r)
      BY <1>4, <2>1, ByScoreIs
    <2> QED BY <2>2 DEF Drawn
  <1>6. Drawn(w, u) /\ w \in Seq(Results) /\ (Len(u) >= 1 => Len(w) >= 1) /\ (Len(u) >= 2 => Len(w) >= 2)
    <2>1. Drawn(w, u) /\ (Len(u) >= 1 => Len(w) >= 1) /\ (Len(u) >= 2 => Len(w) >= 2)
      BY <1>5, <1>22, ScoreFloorIs
    <2> QED BY <2>1 DEF Drawn
  <1>7. d \in (IF c.mmr THEN Reranked(c.target, w) ELSE {w})
    BY <1>21
  <1>8. /\ Drawn(d, w) /\ d \in Seq(Results)
        /\ Len(w) >= 1 => Len(d) >= 1
        /\ Len(w) >= 2 /\ (c.mmr => c.target # 1) => Len(d) >= 2
    <2>1. CASE c.mmr
      <3>1. d \in Reranked(c.target, w)
        BY <1>7, <2>1
      <3>2. /\ Drawn(d, w)
            /\ Len(w) >= 1 => Len(d) >= 1
            /\ Len(w) >= 2 /\ c.target # 1 => Len(d) >= 2
        <4>1. w \in Seq(Results) /\ c.target \in Nat
          BY <1>3, <1>6
        <4> QED BY <3>1, <4>1, RerankedIs
      <3>3. d \in Seq(Results)
        BY <3>2 DEF Drawn
      <3> QED BY <2>1, <3>2, <3>3
    <2>2. CASE ~ c.mmr
      BY <1>6, <1>7, <2>2, DrawnSelf
    <2> QED BY <2>1, <2>2
  <1>9. /\ Drawn(s, d)
        /\ c.maxSize > 0 => Len(s) <= c.maxSize
        /\ Len(d) >= 1 => Len(s) >= 1
        /\ Len(d) >= 2 /\ c.maxSize # 1 => Len(s) >= 2
    <2>0. Len(d) \in Nat
      BY <1>8
    <2>1. CASE c.maxSize > 0
      <3>1. s = Take(d, c.maxSize)
        BY <1>2, <2>1
      <3>2. Drawn(s, d) /\ Len(s) = IF c.maxSize < Len(d) THEN c.maxSize ELSE Len(d)
        BY <1>3, <1>8, <3>1, TakeDrawn, TakeIs
      <3> QED BY <1>3, <2>0, <2>1, <3>2
    <2>2. CASE ~ (c.maxSize > 0)
      BY <1>2, <1>8, <2>2, DrawnSelf
    <2> QED BY <2>1, <2>2
  <1>10. Drawn(s, m)
    BY <1>4, <1>5, <1>6, <1>8, <1>9, DrawnAgain
  <1> QED BY <1>4, <1>5, <1>6, <1>8, <1>9, <1>10 DEF m
-----------------------------------------------------------------------------
(* The search                                                              *)

Stages == {"idle", "search", "record", "send", "done"}

\* An engine that is done has its outcome in the channel.
TypeInv ==
  /\ conf \in Confs
  /\ pc \in [Engines -> Stages]
  /\ DOMAIN outcome = Engines
  /\ \A e \in Engines : outcome[e] = Failed \/ outcome[e] \in Seq(Of(e))
  /\ channel \in Seq(Engines)
  /\ \A e \in Engines : pc[e] = "done" => e \in ToSet(channel)
  /\ search \in {"idle", "wait", "merge", "done"}

\* All are, when the outcomes are merged.
MergeInv ==
  /\ search \in {"merge", "done"} => \A e \in Engines : pc[e] = "done"
  /\ search = "done" => answer \in Answers(EngineBuckets)

HybridInv == TypeInv /\ MergeInv

LEMMA Init_Hybrid == Init => HybridInv
  BY DEF Init, HybridInv, TypeInv, MergeInv, Stages

LEMMA ResultsOfType ==
  ASSUME NEW c \in Confs, NEW e \in DOMAIN c.max, NEW list \in Lists(Len(c.max), e)
  PROVE  ResultsOf(e, list) \in Seq(Of(e))
  <1>1. list \in Seq(Urls \X Nat) /\ e \in Nat
    <2>1. c.max \in Seq(Nat) /\ \A d \in DOMAIN c.max : Lists(Len(c.max), d) \subseteq Seq(Urls \X Nat)
      BY HybridAssumption
    <2>2. Lists(Len(c.max), e) \subseteq Seq(Urls \X Nat)
      BY <2>1
    <2>3. DOMAIN c.max = 1..Len(c.max) /\ Len(c.max) \in Nat
      BY <2>1
    <2> QED BY <2>2, <2>3
  <1>2. Len(list) \in Nat /\ DOMAIN list = 1..Len(list)
    BY <1>1
  <1>3. \A i \in 1..Len(list) : [url |-> list[i][1], engine |-> e, score |-> list[i][2]] \in Of(e)
    <2> TAKE i \in 1..Len(list)
    <2>1. list[i] \in Urls \X Nat
      BY <1>1, ElementOfSeq
    <2>2. list[i][1] \in Urls /\ list[i][2] \in Nat
      BY <2>1
    <2> QED BY <1>1, <2>2 DEF Of, Results
  <1> QED BY <1>2, <1>3 DEF ResultsOf

LEMMA Next_Hybrid ==
  ASSUME HybridInv, [Next]_vars
  PROVE  HybridInv'
  <1> USE DEF HybridInv
  <1>0. /\ conf' = conf /\ Engines' = Engines
        /\ TypeInv
    BY DEF Next, vars, Start, Wait, Merge, Return, RecordEvent, Send, Engines
  <1>1. CASE Start
    BY <1>0, <1>1 DEF Start, TypeInv, MergeInv, Stages
  <1>2. CASE Wait
    BY <1>0, <1>2 DEF Wait, TypeInv, MergeInv, Stages
  <1>3. CASE Merge
    <2>1. EngineBuckets' = EngineBuckets /\ Answers(EngineBuckets)' = Answers(EngineBuckets)
      BY <1>0, <1>3 DEF Merge, EngineBuckets, Successes, Answers
    <2>2. answer' \in Answers(EngineBuckets)
      BY <1>3 DEF Merge
    <2> QED BY <1>0, <1>3, <2>1, <2>2 DEF Merge, TypeInv, MergeInv
  <1>4. ASSUME NEW e \in Engines, Return(e)
        PROVE  HybridInv'
    <2>1. outcome' = [outcome EXCEPT ![e] = outcome'[e]] /\ (outcome'[e] = Failed \/ outcome'[e] \in Seq(Of(e)))
      BY <1>0, <1>4, ResultsOfType DEF Return, TypeInv, Engines
    <2> QED BY <1>0, <1>4, <2>1 DEF Return, TypeInv, MergeInv, Stages
  <1>5. ASSUME NEW e \in Engines, RecordEvent(e)
        PROVE  HybridInv'
    BY <1>0, <1>5 DEF RecordEvent, TypeInv, MergeInv, Stages
  <1>6. ASSUME NEW e \in Engines, Send(e)
        PROVE  HybridInv'
    <2>1. channel' \in Seq(Engines) /\ ToSet(channel') = ToSet(channel) \cup {e}
      BY <1>6 DEF Send, TypeInv, ToSet
    <2> QED BY <1>0, <1>6, <2>1 DEF Send, TypeInv, MergeInv, Stages
  <1>7. CASE UNCHANGED vars
    BY <1>0, <1>7 DEF vars, TypeInv, MergeInv, EngineBuckets, Successes, Answers
  <1> QED BY <1>1, <1>2, <1>3, <1>4, <1>5, <1>6, <1>7 DEF Next

\* The buckets that are merged are those of the engines that succeeded, in the
\* order of the configuration.
LEMMA BucketsAre ==
  ASSUME TypeInv
  PROVE  /\ Contributed(EngineBuckets, Successes)
         /\ (\A e \in Engines : pc[e] = "done") =>
              \A e \in Engines : outcome[e] # Failed =>
                \E b \in DOMAIN EngineBuckets :
                  Successes[b] = e /\ EngineBuckets[b] = Bucket(conf, e, outcome[e])
  <1> DEFINE S == {e \in ToSet(channel) : outcome[e] # Failed}
             n == Cardinality(S)
             order == Successes
             buckets == EngineBuckets
  <1>1. conf \in Confs /\ Engines = DOMAIN conf.max /\ IsFiniteSet(Engines) /\ Engines \subseteq Nat
    <2>1. conf \in Confs /\ conf.max \in Seq(Nat)
      BY HybridAssumption DEF TypeInv
    <2>2. Engines = 1..Len(conf.max) /\ Len(conf.max) \in Nat /\ IsFiniteSet(Engines)
      BY <2>1, Indexes DEF Engines
    <2> QED BY <2>1, <2>2 DEF Engines
  <1>2. S \subseteq Engines /\ IsFiniteSet(S)
    <2>1. ToSet(channel) \subseteq Engines
      BY ElementOfSeq DEF TypeInv, ToSet
    <2> QED BY <1>1, <2>1, FS_Subset
  <1>3. order = InOrder(S, Upward(S))
    BY DEF Successes, Upward
  <1>4. Enumerates(order, S, Upward(S)) /\ n \in Nat
    <2>1. S \in SUBSET Int
      BY <1>1, <1>2
    <2> HIDE DEF S
    <2> QED BY <1>2, <1>3, <2>1, UpwardLinear, InOrderEnumerates
  <1> HIDE DEF S, n, order
  <1>5. /\ order \in [1..n -> S]
        /\ \A x \in S : \E k \in 1..n : order[k] = x
        /\ \A i, j \in 1..n : <<order[i], order[j]>> \in Upward(S) <=> i <= j
    BY <1>4 DEF Enumerates, n
  <1>6. buckets = [b \in 1..n |-> Bucket(conf, order[b], outcome[order[b]])]
    BY <1>5 DEF EngineBuckets, order
  <1> HIDE DEF buckets
  <1>7. ASSUME NEW b \in 1..n
        PROVE  /\ order[b] \in Engines /\ order[b] \in Nat
               /\ buckets[b] \in Seq(Of(order[b])) /\ buckets[b] \in Seq(Results)
    <2>1. order[b] \in Engines /\ order[b] \in Nat /\ outcome[order[b]] # Failed
      BY <1>1, <1>2, <1>5 DEF S
    <2>2. outcome[order[b]] \in Seq(Of(order[b]))
      BY <2>1 DEF TypeInv
    <2>3. Bucket(conf, order[b], outcome[order[b]]) \in Seq(Of(order[b]))
      BY <1>1, <2>1, <2>2, BucketIs
    <2>4. buckets[b] \in Seq(Of(order[b]))
      BY <1>6, <2>3
    <2> QED BY <2>1, <2>4, OfResults
  <1>8. buckets \in Seq(Seq(Results)) /\ DOMAIN buckets = 1..n
    BY <1>4, <1>6, <1>7
  <1>9. ASSUME NEW b \in 1..n, NEW d \in 1..n, order[b] < order[d]
        PROVE  b < d
    <2>1. <<order[d], order[b]>> \notin Upward(S)
      BY <1>7, <1>9 DEF Upward
    <2>2. ~ (d <= b)
      BY <1>5, <2>1
    <2> QED BY <1>4, <2>2
  <1>10. Contributed(buckets, order)
    BY <1>5, <1>7, <1>8, <1>9 DEF Contributed
  <1>11. ASSUME \A e \in Engines : pc[e] = "done", NEW e \in Engines, outcome[e] # Failed
         PROVE  \E b \in 1..n : order[b] = e /\ buckets[b] = Bucket(conf, e, outcome[e])
    <2>1. e \in S
      BY <1>11 DEF TypeInv, S
    <2> QED BY <1>5, <1>6, <2>1
  <1> QED BY <1>8, <1>10, <1>11 DEF buckets, order

-----------------------------------------------------------------------------
LEMMA Spec_Hybrid == Spec => []HybridInv
  <1>1. Init => HybridInv
    BY Init_Hybrid
  <1>2. HybridInv /\ [Next]_vars => HybridInv'
    BY Next_Hybrid
  <1> QED BY <1>1, <1>2, PTL DEF Spec

\* The answer is the list of the merge.
LEMMA AnswerIs ==
  ASSUME HybridInv, search = "done"
  PROVE  /\ Contributed(EngineBuckets, Successes) /\ conf \in Confs
         /\ ~ conf.enhance => answer = OrFailed(PlainMerge(conf, EngineBuckets))
         /\ conf.enhance => \E s \in EnhancedMerges(conf, EngineBuckets, Scores) : answer = OrFailed(s)
         /\ \A e \in Engines : outcome[e] # Failed =>
              \E b \in DOMAIN EngineBuckets :
                Successes[b] = e /\ EngineBuckets[b] = Bucket(conf, e, outcome[e])
  <1>1. TypeInv /\ (\A e \in Engines : pc[e] = "done") /\ answer \in Answers(EngineBuckets)
    BY DEF HybridInv, MergeInv
  <1>2. conf \in Confs
    BY <1>1 DEF TypeInv
  <1>3. /\ ~ conf.enhance => answer = OrFailed(PlainMerge(conf, EngineBuckets))
        /\ conf.enhance => \E s \in EnhancedMerges(conf, EngineBuckets, Scores) : answer = OrFailed(s)
    BY <1>1 DEF Answers
  <1> QED BY <1>1, <1>2, <1>3, BucketsAre

LEMMA CleanWhenDone == HybridInv => AnswerIsClean
  <1> SUFFICES ASSUME HybridInv, search = "done", answer # Failed
               PROVE  /\ conf.maxSize > 0 => Len(answer) <= conf.maxSize
                      /\ \A i, j \in DOMAIN answer :
                           LET id(r) == IF conf.enhance THEN UrlKey(r) ELSE Url(r)
                           IN id(answer[i]) = id(answer[j]) => i = j
                      /\ \A i \in DOMAIN answer, e \in Engines :
                           (e < answer[i].engine /\ outcome[e] # Failed) =>
                             \A r \in ToSet(Bucket(conf, e, outcome[e])) : r.url # answer[i].url
    BY DEF AnswerIsClean, Answered
  <1> DEFINE buckets == EngineBuckets
             order == Successes
  <1>1. Contributed(buckets, order) /\ conf \in Confs
    BY AnswerIs
  <1>2. /\ Credited(answer, buckets, order)
        /\ IF conf.enhance THEN Keyed(answer) ELSE Pages(answer)
        /\ conf.maxSize > 0 => Len(answer) <= conf.maxSize
    <2> HIDE DEF buckets, order
    <2>1. CASE ~ conf.enhance
      <3>1. answer = OrFailed(PlainMerge(conf, buckets))
        BY <2>1, AnswerIs DEF buckets
      <3>2. answer = PlainMerge(conf, buckets)
        BY <3>1 DEF OrFailed
      <3> QED BY <1>1, <2>1, <3>2, PlainIs
    <2>2. CASE conf.enhance
      <3>1. PICK s \in EnhancedMerges(conf, buckets, Scores) : answer = OrFailed(s)
        BY <2>2, AnswerIs DEF buckets
      <3>2. answer = s
        BY <3>1 DEF OrFailed
      <3> DEFINE m == KeyMerged(buckets)
      <3>3. m \in Seq(Results) /\ Keyed(m) /\ Credited(m, buckets, order)
        BY <1>1, KeyMergedIs
      <3>4. Drawn(s, m) /\ (conf.maxSize > 0 => Len(s) <= conf.maxSize)
        <4>1. conf \in Confs /\ KeyMerged(buckets) \in Seq(Results)
          BY <1>1, <3>3
        <4> HIDE DEF m
        <4>2. Drawn(s, KeyMerged(buckets)) /\ (conf.maxSize > 0 => Len(s) <= conf.maxSize)
          BY <4>1, EnhancedDrawn
        <4> QED BY <4>2 DEF m
      <3> HIDE DEF m
      <3> QED BY <2>2, <3>2, <3>3, <3>4, DrawnClean
    <2> QED BY <2>1, <2>2
  <1>3. ASSUME NEW i \in DOMAIN answer, NEW e \in Engines, e < answer[i].engine, outcome[e] # Failed,
               NEW r \in ToSet(Bucket(conf, e, outcome[e]))
        PROVE  r.url # answer[i].url
    <2>1. PICK b \in DOMAIN buckets : order[b] = e /\ buckets[b] = Bucket(conf, e, outcome[e])
      BY <1>3, AnswerIs
    <2>2. PICK k \in DOMAIN buckets[b] : r = buckets[b][k]
      BY <2>1 DEF ToSet
    <2> HIDE DEF buckets, order
    <2> QED BY <1>2, <1>3, <2>1, <2>2 DEF Credited
  <1> QED BY <1>2, <1>3 DEF Keyed, Pages, Url

\* Whatever the engines return and in whatever order they send it, an answer
\* holds each page once, within the configured size, and credits it to the
\* first engine of the configuration that contributed it.
THEOREM Spec_AnswerIsClean == Spec => []AnswerIsClean
  BY Spec_Hybrid, CleanWhenDone, PTL

OfEngine(s, e) == {i \in DOMAIN s : s[i].engine = e}

LEMMA UptoIs ==
  ASSUME NEW n \in Nat
  PROVE  IsFiniteSet(1..n) /\ Cardinality(1..n) = n
  BY FS_Interval

LEMMA IntoIs ==
  ASSUME NEW S, NEW T, IsFiniteSet(T), NEW h \in [S -> T], \A i, j \in S : h[i] = h[j] => i = j
  PROVE  Cardinality(S) <= Cardinality(T)
  <1>1. h \in Injection(S, T)
    BY DEF Injection, IsInjective
  <1> QED BY <1>1, FS_Injection

\* Cut after n results, the rounds give each engine its share: one with two
\* results fewer than another has all its results in the list.
LEMMA RoundsAreFair ==
  ASSUME NEW m \in Seq(Results), NEW n \in Nat, n <= Len(m), NEW e, NEW f,
         Count(RoundRobin(m, n), f) >= Count(RoundRobin(m, n), e) + 2
  PROVE  Count(RoundRobin(m, n), e) = Count(m, e)
  <1> DEFINE N == Len(m)
             u == Arranged(m, InRounds(m))
             t == RoundRobin(m, n)
  <1>1. N \in Nat /\ DOMAIN m = 1..N /\ IsFiniteSet(DOMAIN m)
    BY Indexes
  <1>2. /\ u \in Seq(Results) /\ Len(u) = N
        /\ \E g \in [1..N -> 1..N] :
             /\ \A i \in 1..N : \E k \in 1..N : g[k] = i
             /\ \A i, j \in 1..N : <<g[i], g[j]>> \in InRounds(m) <=> i <= j
             /\ \A i, j \in 1..N : g[i] = g[j] => i = j
             /\ \A k \in 1..N : u[k] = m[g[k]]
    <2>1. Linear(InRounds(m), DOMAIN m) /\ m \in Seq(Results)
      BY InRoundsLinear
    <2> HIDE DEF Linear
    <2>2. u \in Seq(Results) /\ Len(u) = N /\ Arranges(u, m, InRounds(m))
      BY <2>1, ArrangedIs
    <2> QED BY <2>2 DEF Arranges
  <1> HIDE DEF u
  <1>3. PICK g \in [1..N -> 1..N] :
             /\ \A i \in 1..N : \E k \in 1..N : g[k] = i
             /\ \A i, j \in 1..N : <<g[i], g[j]>> \in InRounds(m) <=> i <= j
             /\ \A i, j \in 1..N : g[i] = g[j] => i = j
             /\ \A k \in 1..N : u[k] = m[g[k]]
    BY <1>2
  <1>4. t = Take(u, n)
    BY DEF RoundRobin, u
  <1> HIDE DEF t, N
  <1>5. n <= N
    BY DEF N
  <1>6. DOMAIN t = 1..n /\ \A k \in 1..n : k \in 1..N /\ g[k] \in 1..N /\ t[k] = m[g[k]]
    <2>1. u \in Seq(Results) /\ Len(u) = N
      BY <1>2
    <2>2. /\ t \in Seq(Results) /\ Len(t) = IF n < Len(u) THEN n ELSE Len(u)
          /\ \A k \in 1..Len(t) : t[k] = u[k]
      BY <1>4, <2>1, TakeIs
    <2>3. Len(t) = n
      BY <1>1, <1>5, <2>1, <2>2
    <2>4. DOMAIN t = 1..n /\ \A k \in 1..n : t[k] = u[k]
      BY <2>2, <2>3
    <2>5. \A k \in 1..n : k \in 1..N
      BY <1>1, <1>5
    <2> QED BY <1>3, <2>4, <2>5
  <1>7. ASSUME NEW x
        PROVE  /\ OfEngine(t, x) \subseteq 1..n /\ IsFiniteSet(OfEngine(t, x)) /\ Count(t, x) \in Nat
               /\ Count(t, x) = Cardinality(OfEngine(t, x))
               /\ \A k \in 1..n : k \in OfEngine(t, x) <=> g[k] \in OfEngine(m, x)
    <2>1. OfEngine(t, x) \subseteq 1..n /\ Count(t, x) = Cardinality(OfEngine(t, x))
      BY <1>6 DEF OfEngine, Count
    <2>2. IsFiniteSet(OfEngine(t, x)) /\ Cardinality(OfEngine(t, x)) \in Nat
      <3>1. IsFiniteSet(1..n)
        BY UptoIs
      <3>2. IsFiniteSet(OfEngine(t, x))
        BY <2>1, <3>1, FS_Subset
      <3> QED BY <3>2, FS_CardinalityType
    <2>3. \A k \in 1..n : k \in OfEngine(t, x) <=> g[k] \in OfEngine(m, x)
      BY <1>1, <1>6 DEF OfEngine
    <2> QED BY <2>1, <2>2, <2>3
  <1>8. CASE \A i \in OfEngine(m, e) : \E k \in 1..n : g[k] = i
    <2> DEFINE h == [k \in OfEngine(t, e) |-> g[k]]
    <2>1. h \in [OfEngine(t, e) -> OfEngine(m, e)]
      BY <1>7
    <2>2. \A i \in OfEngine(m, e) : \E k \in OfEngine(t, e) : h[k] = i
      BY <1>7, <1>8
    <2>3. \A k, l \in OfEngine(t, e) : h[k] = h[l] => k = l
      <3>1. OfEngine(t, e) \subseteq 1..N
        BY <1>6, <1>7
      <3> QED BY <1>3, <3>1
    <2> HIDE DEF h
    <2>4. h \in Surjection(OfEngine(t, e), OfEngine(m, e)) /\ h \in Injection(OfEngine(t, e), OfEngine(m, e))
      BY <2>1, <2>2, <2>3 DEF Surjection, Injection, IsInjective
    <2>5. Cardinality(OfEngine(m, e)) = Cardinality(OfEngine(t, e))
      BY <1>7, <2>4, FS_Surjection
    <2> QED BY <1>7, <2>5 DEF Count, OfEngine, t
  <1>9. CASE ~ \A i \in OfEngine(m, e) : \E k \in 1..n : g[k] = i
    <2> DEFINE T == {i \in OfEngine(m, e) : \A k \in 1..n : g[k] # i}
    <2>1. T # {} /\ T \in SUBSET Nat
      <3>1. PICK i \in OfEngine(m, e) : \A k \in 1..n : g[k] # i
        BY <1>9
      <3>2. OfEngine(m, e) \subseteq Nat
        BY <1>1 DEF OfEngine
      <3> QED BY <3>1, <3>2
    <2>2. PICK j \in T : \A i \in T : j <= i
      BY <2>1, LeastNat
    <2>3. j \in 1..N /\ m[j].engine = e /\ \A k \in 1..n : g[k] # j
      BY <1>1 DEF OfEngine
    <2>4. PICK l \in 1..N : g[l] = j
      BY <1>3, <2>3
    <2> DEFINE p == PlaceOf(m, j)
    <2>5. /\ p \in Nat \ {0}
          /\ \A i \in 1..N : PlaceOf(m, i) \in Nat \ {0}
          /\ \A i, k \in 1..N : i < k /\ m[i].engine = m[k].engine => PlaceOf(m, i) < PlaceOf(m, k)
      BY <1>1, <2>3, PlacesGrow
    <2>6. \A k \in 1..n : PlaceOf(m, g[k]) <= p
      <3> TAKE k \in 1..n
      <3>1. k \in 1..N /\ k <= l
        BY <1>1, <1>6, <2>3, <2>4
      <3>2. <<g[k], j>> \in InRounds(m)
        BY <1>3, <2>4, <3>1
      <3>3. PlaceOf(m, g[k]) < p \/ PlaceOf(m, g[k]) = p
        BY <3>2 DEF InRounds
      <3>4. PlaceOf(m, g[k]) \in Nat
        BY <1>6, <2>5
      <3> QED BY <2>5, <3>3, <3>4
    <2>7. p - 1 <= Count(t, e)
      <3> DEFINE S == SameEngine(m, j)
                 before == S \ {j}
                 h == [i \in before |-> CHOOSE k \in 1..n : g[k] = i]
      <3>1. j \in S /\ IsFiniteSet(S) /\ p = Cardinality(S)
        <4>1. S \subseteq 1..j /\ j \in S /\ j \in Nat
          BY <1>1, <2>3 DEF SameEngine
        <4>2. IsFiniteSet(S)
          <5>1. IsFiniteSet(1..j)
            BY <4>1, UptoIs
          <5> HIDE DEF S
          <5> QED BY <4>1, <5>1, FS_Subset
        <4> QED BY <4>1, <4>2 DEF PlaceOf, SameEngine
      <3>2. ASSUME NEW i \in before
            PROVE  i \in OfEngine(m, e) /\ \E k \in 1..n : g[k] = i
        <4>1. i \in 1..N /\ i < j /\ m[i].engine = e
          BY <1>1, <2>3 DEF SameEngine
        <4>2. i \in OfEngine(m, e)
          BY <1>1, <4>1 DEF OfEngine
        <4>3. ~ (j <= i)
          BY <1>1, <2>3, <4>1
        <4>4. i \notin T
          BY <2>2, <4>3
        <4> QED BY <4>2, <4>4
      <3> HIDE DEF S, T, p
      <3>3. \A i \in before : h[i] \in 1..n /\ g[h[i]] = i
        BY <3>2
      <3>4. \A i \in before : h[i] \in OfEngine(t, e)
        BY <1>7, <3>2, <3>3
      <3>5. \A i, k \in before : h[i] = h[k] => i = k
        BY <3>3
      <3> DEFINE b == before
      <3> HIDE DEF h
      <3>6. h \in [b -> OfEngine(t, e)]
        BY <3>4 DEF h
      <3>8. Cardinality(b) <= Cardinality(OfEngine(t, e))
        <4>1. \A i, k \in b : h[i] = h[k] => i = k
          BY <3>5
        <4> HIDE DEF b
        <4> QED BY <1>7, <3>6, <4>1, IntoIs
      <3>9. Cardinality(b) = p - 1
        BY <3>1, FS_RemoveElement
      <3> QED BY <1>7, <3>8, <3>9
    <2>8. Count(t, f) <= p
      <3> DEFINE h == [k \in OfEngine(t, f) |-> PlaceOf(m, g[k])]
      <3> HIDE DEF p
      <3>1. \A k \in OfEngine(t, f) : /\ k \in 1..n /\ k \in 1..N /\ g[k] \in 1..N /\ m[g[k]].engine = f
                                      /\ h[k] \in 1..p
        <4> TAKE k \in OfEngine(t, f)
        <4>1. k \in 1..n /\ k \in 1..N /\ g[k] \in 1..N /\ g[k] \in OfEngine(m, f)
          BY <1>6, <1>7
        <4>2. PlaceOf(m, g[k]) \in Nat \ {0} /\ PlaceOf(m, g[k]) <= p
          BY <2>5, <2>6, <4>1
        <4> QED BY <2>5, <4>1, <4>2 DEF OfEngine
      <3>2. ASSUME NEW k \in OfEngine(t, f), NEW i \in OfEngine(t, f), h[k] = h[i]
            PROVE  k = i
        <4>1. PlaceOf(m, g[k]) = PlaceOf(m, g[i]) /\ PlaceOf(m, g[i]) \in Nat
          BY <2>5, <3>1, <3>2
        <4>2. m[g[k]].engine = m[g[i]].engine
          BY <3>1
        <4>3. ~ (g[k] < g[i]) /\ ~ (g[i] < g[k])
          <5>1. /\ g[k] < g[i] => PlaceOf(m, g[k]) < PlaceOf(m, g[i])
                /\ g[i] < g[k] => PlaceOf(m, g[i]) < PlaceOf(m, g[k])
            BY <2>5, <3>1, <4>2
          <5> QED BY <4>1, <5>1
        <4>4. g[k] = g[i]
          BY <1>1, <3>1, <4>3
        <4> QED BY <1>3, <3>1, <4>4
      <3>3. h \in [OfEngine(t, f) -> 1..p]
        BY <3>1
      <3> HIDE DEF h
      <3>5. IsFiniteSet(1..p) /\ Cardinality(1..p) = p
        BY <2>5, UptoIs
      <3>6. Cardinality(OfEngine(t, f)) <= Cardinality(1..p)
        BY <3>2, <3>3, <3>5, IntoIs
      <3> QED BY <1>7, <3>5, <3>6
    <2>9. Count(t, f) \in Nat /\ Count(t, e) \in Nat /\ Count(t, f) >= Count(t, e) + 2
      BY <1>7 DEF t
    <2> HIDE DEF p
    <2> QED BY <2>5, <2>7, <2>8, <2>9
  <1> QED BY <1>8, <1>9

\* An engine whose first result of some page has the required score has a place
\* in the buckets.
LEMMA HasPlace ==
  ASSUME HybridInv, search = "done", NEW e \in Engines, outcome[e] # Failed,
         NEW i \in DOMAIN outcome[e], IsFirst(outcome[e], i), ~ (outcome[e][i].score < conf.min[e])
  PROVE  \E b \in DOMAIN EngineBuckets :
           /\ EngineBuckets[b] = Bucket(conf, e, outcome[e])
           /\ 1 \in DOMAIN EngineBuckets[b]
  <1>1. conf \in Confs /\ e \in DOMAIN conf.max /\ outcome[e] \in Seq(Of(e))
    BY DEF HybridInv, TypeInv, Engines
  <1>2. outcome[e][i].score \in Nat
    <2>1. outcome[e][i] \in Of(e)
      BY <1>1, ElementOfSeq, Indexes
    <2> QED BY <2>1 DEF Of, Results
  <1>3. conf.min[e] \in Nat
    <2>1. conf.min \in Seq(Nat) /\ conf.max \in Seq(Nat) /\ Len(conf.min) = Len(conf.max)
      BY <1>1, HybridAssumption
    <2>2. DOMAIN conf.min = DOMAIN conf.max
      BY <2>1
    <2> QED BY <1>1, <2>1, <2>2
  <1>4. Bucket(conf, e, outcome[e]) \in Seq(Of(e)) /\ Bucket(conf, e, outcome[e]) # <<>>
    <2>1. outcome[e][i].score >= conf.min[e]
      BY <1>2, <1>3
    <2> QED BY <1>1, <2>1, BucketIs
  <1>5. PICK b \in DOMAIN EngineBuckets : EngineBuckets[b] = Bucket(conf, e, outcome[e])
    BY AnswerIs
  <1>6. 1 \in DOMAIN EngineBuckets[b]
    <2> DEFINE t == Bucket(conf, e, outcome[e])
    <2>1. t \in Seq(Of(e)) /\ t # <<>>
      BY <1>4
    <2> HIDE DEF t
    <2>2. 1 \in DOMAIN t
      BY <2>1
    <2> QED BY <1>5, <2>2 DEF t
  <1> QED BY <1>5, <1>6

LEMMA NoneIsLost ==
  ASSUME HybridInv, search = "done", answer = Failed, NEW e \in Engines, outcome[e] # Failed
  PROVE  \/ \A i \in DOMAIN outcome[e] :
              \/ \E j \in 1..(i-1) : outcome[e][j].url = outcome[e][i].url
              \/ outcome[e][i].score < conf.min[e]
         \/ conf.enhance /\ \A r \in ToSet(Bucket(conf, e, outcome[e])) : UrlKey(r) = NoKey
  <1> SUFFICES ASSUME NEW i \in DOMAIN outcome[e],
                      ~ \E j \in 1..(i-1) : outcome[e][j].url = outcome[e][i].url,
                      ~ (outcome[e][i].score < conf.min[e])
               PROVE  conf.enhance /\ \A r \in ToSet(Bucket(conf, e, outcome[e])) : UrlKey(r) = NoKey
    OBVIOUS
  <1> DEFINE buckets == EngineBuckets
             order == Successes
  <1>1. IsFirst(outcome[e], i)
    BY DEF IsFirst
  <1>2. PICK b \in DOMAIN buckets : buckets[b] = Bucket(conf, e, outcome[e]) /\ 1 \in DOMAIN buckets[b]
    BY <1>1, HasPlace
  <1>3. Contributed(buckets, order) /\ conf \in Confs
    BY AnswerIs
  <1>4. conf.enhance
    <2> SUFFICES ASSUME ~ conf.enhance PROVE FALSE
      OBVIOUS
    <2> DEFINE m == FirstPer(Url, Flat(buckets))
               t == PlainMerge(conf, buckets)
    <2>1. answer = OrFailed(t)
      BY AnswerIs
    <2> HIDE DEF buckets, order
    <2>2. m \in Seq(Results) /\ \A p \in Places(buckets) : \E k \in DOMAIN m : m[k].url = At(buckets, p).url
      BY <1>3, MergedIs
    <2>3. <<b, 1>> \in Places(buckets)
      BY <1>2 DEF Places
    <2>4. t \in Seq(Results) /\ (Len(m) >= 1 => Len(t) >= 1)
      BY <1>3, PlainIs
    <2> HIDE DEF m, t
    <2>5. PICK k \in DOMAIN m : TRUE
      BY <2>2, <2>3
    <2>6. Len(m) >= 1
      BY <2>2, <2>5
    <2>7. t # <<>> /\ t # Failed
      BY <2>4, <2>6, HybridAssumption
    <2> QED BY <2>1, <2>7 DEF OrFailed
  <1>5. ASSUME NEW r \in ToSet(Bucket(conf, e, outcome[e])), UrlKey(r) # NoKey
        PROVE  FALSE
    <2> DEFINE m == KeyMerged(buckets)
    <2>1. PICK s \in EnhancedMerges(conf, buckets, Scores) : answer = OrFailed(s)
      BY <1>4, AnswerIs
    <2>2. PICK l \in DOMAIN buckets[b] : r = buckets[b][l]
      BY <1>2 DEF ToSet
    <2> HIDE DEF buckets, order
    <2>3. m \in Seq(Results) /\ \A p \in HasKey(buckets) : \E k \in DOMAIN m : UrlKey(m[k]) = UrlKey(At(buckets, p))
      BY <1>3, KeyMergedIs
    <2>4. <<b, l>> \in HasKey(buckets)
      BY <1>5, <2>2 DEF HasKey, Places, At
    <2>5. Drawn(s, m) /\ (Len(m) >= 1 => Len(s) >= 1)
      <3>1. KeyMerged(buckets) \in Seq(Results)
        BY <2>3
      <3> HIDE DEF m
      <3>2. Drawn(s, KeyMerged(buckets)) /\ (Len(KeyMerged(buckets)) >= 1 => Len(s) >= 1)
        BY <1>3, <3>1, EnhancedDrawn
      <3> QED BY <3>2 DEF m
    <2> HIDE DEF m
    <2>6. Len(m) >= 1
      <3>1. PICK k \in DOMAIN m : TRUE
        BY <2>3, <2>4
      <3> QED BY <2>3, <3>1
    <2>7. s \in Seq(Results) /\ Len(s) >= 1
      BY <2>5, <2>6 DEF Drawn
    <2>8. s # <<>> /\ s # Failed
      BY <2>7, HybridAssumption
    <2> QED BY <2>1, <2>8 DEF OrFailed
  <1> QED BY <1>4, <1>5

LEMMA NoneIsCrowdedOut ==
  ASSUME HybridInv, search = "done", answer # Failed, ~ conf.enhance, ~ Scored(Distinct),
         NEW e \in Engines, NEW f \in Engines, Count(answer, f) >= Count(answer, e) + 2
  PROVE  Count(answer, e) = Count(Distinct, e)
  <1> DEFINE m == FirstPer(Url, Flat(EngineBuckets))
             n == conf.maxSize
  <1>1. m = Distinct
    BY DEF Distinct
  <1>2. m \in Seq(Results)
    BY AnswerIs, MergedIs
  <1>3. n \in Nat
    BY AnswerIs, HybridAssumption
  <1>4. answer = PlainMerge(conf, EngineBuckets)
    <2>1. answer = OrFailed(PlainMerge(conf, EngineBuckets))
      BY AnswerIs
    <2> QED BY <2>1 DEF OrFailed
  <1>5. answer = IF n = 0 \/ Len(m) <= n THEN m
                 ELSE IF Scored(m) THEN Take(ByScore(m), n) ELSE RoundRobin(m, n)
    BY <1>4 DEF PlainMerge
  <1> HIDE DEF m, n
  <1>6. CASE n = 0 \/ Len(m) <= n
    BY <1>1, <1>5, <1>6
  <1>7. CASE ~ (n = 0 \/ Len(m) <= n)
    <2>1. answer = RoundRobin(m, n)
      BY <1>1, <1>5, <1>7
    <2>2. n <= Len(m)
      BY <1>2, <1>3, <1>7
    <2>3. Count(RoundRobin(m, n), f) >= Count(RoundRobin(m, n), e) + 2
      BY <2>1
    <2>4. Count(RoundRobin(m, n), e) = Count(m, e)
      BY <1>2, <1>3, <2>2, <2>3, RoundsAreFair
    <2> QED BY <1>1, <2>1, <2>4
  <1> QED BY <1>6, <1>7

KeySet(s) == {UrlKey(s[i]) : i \in DOMAIN s} \ {NoKey}

LEMMA TwoOf ==
  ASSUME NEW S, Cardinality(S) \in Int, Cardinality(S) >= 2
  PROVE  \E x, y \in S : x # y
  <1>1. S # {}
    BY FS_EmptySet
  <1>2. PICK x \in S : TRUE
    BY <1>1
  <1>3. S # {x}
    BY FS_Singleton
  <1> QED BY <1>2, <1>3

LEMMA KeysAreKept ==
  ASSUME NEW buckets, NEW order, Contributed(buckets, order),
         Cardinality(KeySet(FirstPer(Url, Flat(buckets)))) >= 2
  PROVE  Len(KeyMerged(buckets)) >= 2
  <1> DEFINE d == FirstPer(Url, Flat(buckets))
             m == KeyMerged(buckets)
             all == {UrlKey(d[i]) : i \in DOMAIN d}
             S == KeySet(d)
  <1>1. d \in Seq(Results) /\ \A k \in DOMAIN d : \E p \in Places(buckets) : d[k] = At(buckets, p)
    BY MergedIs
  <1>2. m \in Seq(Results) /\ \A p \in HasKey(buckets) : \E k \in DOMAIN m : UrlKey(m[k]) = UrlKey(At(buckets, p))
    BY KeyMergedIs
  <1> HIDE DEF d, m
  <1>3. Cardinality(S) \in Nat
    <2> DEFINE h == [i \in DOMAIN d |-> UrlKey(d[i])]
    <2>1. h \in Surjection(DOMAIN d, all)
      BY DEF Surjection
    <2>2. IsFiniteSet(DOMAIN d)
      BY <1>1, Indexes
    <2> HIDE DEF h, all
    <2>3. IsFiniteSet(all)
      BY <2>1, <2>2, FS_Surjection
    <2>4. IsFiniteSet(all \ {NoKey})
      BY <2>3, FS_RemoveElement
    <2>5. S = all \ {NoKey}
      BY DEF KeySet, all
    <2> QED BY <2>4, <2>5, FS_CardinalityType
  <1>4. PICK x \in S, y \in S : x # y
    <2>1. Cardinality(S) >= 2
      BY DEF d
    <2> HIDE DEF S
    <2> QED BY <1>3, <2>1, TwoOf
  <1>5. ASSUME NEW z \in S PROVE \E k \in DOMAIN m : UrlKey(m[k]) = z
    <2>1. PICK i \in DOMAIN d : z = UrlKey(d[i]) /\ z # NoKey
      BY DEF KeySet
    <2>2. PICK p \in Places(buckets) : d[i] = At(buckets, p)
      BY <1>1
    <2>3. p \in HasKey(buckets)
      BY <2>1, <2>2 DEF HasKey
    <2> QED BY <1>2, <2>1, <2>2, <2>3
  <1>6. PICK k \in DOMAIN m : UrlKey(m[k]) = x
    BY <1>5
  <1>7. PICK l \in DOMAIN m : UrlKey(m[l]) = y
    BY <1>5
  <1>8. k # l /\ Len(m) \in Nat /\ k \in 1..Len(m) /\ l \in 1..Len(m)
    BY <1>2, <1>4, <1>6, <1>7, Indexes
  <1>9. Len(m) >= 2
    BY <1>8
  <1> QED BY <1>9 DEF m

Asked == {n \in {conf.maxSize, IF conf.mmr THEN conf.target ELSE 0} : n > 0}

LEMMA TwoAreLeft ==
  ASSUME HybridInv, search = "done", answer # Failed, conf.enhance,
         Cardinality(KeySet(Distinct)) >= 2, \A n \in Asked : n >= 2
  PROVE  Len(answer) >= 2
  <1>1. Contributed(EngineBuckets, Successes) /\ conf \in Confs
    BY AnswerIs
  <1>2. PICK s \in EnhancedMerges(conf, EngineBuckets, Scores) : answer = OrFailed(s)
    BY AnswerIs
  <1>3. answer = s
    BY <1>2 DEF OrFailed
  <1>4. Len(KeyMerged(EngineBuckets)) >= 2
    BY <1>1, KeysAreKept DEF Distinct
  <1>5. KeyMerged(EngineBuckets) \in Seq(Results)
    BY <1>1, KeyMergedIs
  <1>6. conf.maxSize \in Nat /\ conf.target \in Nat /\ conf.mmr \in BOOLEAN
    BY <1>1, HybridAssumption
  <1>7. conf.maxSize # 1 /\ (conf.mmr => conf.target # 1)
    <2>1. conf.maxSize # 1
      BY <1>6 DEF Asked
    <2>2. conf.mmr => conf.target # 1
      BY <1>6 DEF Asked
    <2> QED BY <2>1, <2>2
  <1> QED BY <1>1, <1>2, <1>3, <1>4, <1>5, <1>7, EnhancedDrawn

LEMMA HeardWhenDone == HybridInv => EnginesAreHeard
  <1> SUFFICES ASSUME HybridInv
               PROVE  EnginesAreHeard
    OBVIOUS
  <1>1. (search = "done" /\ answer = Failed) =>
          \A e \in Engines : outcome[e] # Failed =>
            \/ \A i \in DOMAIN outcome[e] :
                 \/ \E j \in 1..(i-1) : outcome[e][j].url = outcome[e][i].url
                 \/ outcome[e][i].score < conf.min[e]
            \/ conf.enhance /\ \A r \in ToSet(Bucket(conf, e, outcome[e])) : UrlKey(r) = NoKey
    BY NoneIsLost
  <1>2. (Answered /\ ~conf.enhance /\ ~Scored(Distinct)) =>
          \A e, f \in Engines :
            Count(answer, f) >= Count(answer, e) + 2 => Count(answer, e) = Count(Distinct, e)
    BY NoneIsCrowdedOut DEF Answered
  <1>3. (Answered /\ conf.enhance /\ Cardinality(KeySet(Distinct)) >= 2 /\ \A n \in Asked : n >= 2) =>
          Len(answer) >= 2
    BY TwoAreLeft DEF Answered
  <1> QED BY <1>1, <1>2, <1>3 DEF EnginesAreHeard, KeySet, Asked

\* A search whose engines gave a page worth showing never fails, no engine is
\* crowded out of an unscored answer, and scoring leaves two results of two.
THEOREM Spec_EnginesAreHeard == Spec => []EnginesAreHeard
  BY Spec_Hybrid, HeardWhenDone, PTL

-----------------------------------------------------------------------------
(* The merge of papers                                                     *)

\* The entries are a sequence of records.
EntriesInv ==
  \E D, U, R : merged.order \in Seq([doi : D, url : U, from : SUBSET R])

\* A DOI, once seen, stays with its entry, which every result with it joined;
\* a url may move on to another entry, but none is begun for it again.
PaperInv ==
  LET m == merged
  IN  /\ \A d \in DOMAIN m.byDOI : m.byDOI[d] \in DOMAIN m.order /\ d # NoDoi
      /\ \A u \in DOMAIN m.byURL : m.byURL[u] \in DOMAIN m.order /\ u # NoKey
      /\ \A n \in DOMAIN m.order :
           /\ m.order[n].doi # NoDoi => m.order[n].doi \in DOMAIN m.byDOI /\ m.byDOI[m.order[n].doi] = n
           /\ m.order[n].url # NoKey => m.order[n].url \in DOMAIN m.byURL
           /\ \A r \in m.order[n].from : r.doi # NoDoi => r.doi \in DOMAIN m.byDOI /\ m.byDOI[r.doi] = n
      /\ \A n, k \in DOMAIN m.order : m.order[n].url = m.order[k].url /\ m.order[n].url # NoKey => n = k

\* The merge of one result keeps the tables.
LEMMA MergeOneKeeps ==
  ASSUME EntriesInv, PaperInv, NEW r, merged' = MergeOne(merged, r)
  PROVE  EntriesInv' /\ PaperInv'
  <1>1. CASE r.doi = NoDoi /\ r.url = NoKey
    <2>1. merged' = merged
      BY <1>1 DEF MergeOne
    <2> QED BY <2>1 DEF EntriesInv, PaperInv
  <1>2. CASE ~(r.doi = NoDoi /\ r.url = NoKey)
    <2> DEFINE m == merged
               n == EntryOf(merged, r)
               E == DOMAIN merged.order
    <2>1. Len(m.order) \in Nat /\ E = 1..Len(m.order)
      <3>1. PICK D, U, R : merged.order \in Seq([doi : D, url : U, from : SUBSET R])
        BY DEF EntriesInv
      <3> QED BY <3>1
    <2>2. \/ r.doi \in DOMAIN m.byDOI /\ n = m.byDOI[r.doi]
          \/ r.doi \notin DOMAIN m.byDOI /\ r.url \in DOMAIN m.byURL /\ n = m.byURL[r.url]
          \/ r.doi \notin DOMAIN m.byDOI /\ r.url \notin DOMAIN m.byURL /\ n = Len(m.order) + 1
      BY DEF EntryOf
    <2>3. n \in E \cup {Len(m.order) + 1}
      BY <2>2 DEF PaperInv
    <2>4. n \notin E => r.doi \notin DOMAIN m.byDOI /\ r.url \notin DOMAIN m.byURL
      BY <2>2 DEF PaperInv
    <2>5. r.doi \in DOMAIN m.byDOI => n = m.byDOI[r.doi]
      BY <2>2
    <2>6. /\ merged'.order = AddTo(m.order, n, r)
          /\ merged'.byDOI = Put(m.byDOI, r.doi, NoDoi, n)
          /\ merged'.byURL = Put(m.byURL, r.url, NoKey, n)
      BY <1>2 DEF MergeOne
    <2> HIDE DEF n
    <2> DEFINE order == merged'.order
               dois == Put(m.byDOI, r.doi, NoDoi, n)
               urls == Put(m.byURL, r.url, NoKey, n)
    <2>7. order = AddTo(merged.order, n, r)
      BY <2>6
    <2>8. /\ r.doi = NoDoi => dois = m.byDOI
          /\ r.doi # NoDoi => /\ DOMAIN dois = DOMAIN m.byDOI \cup {r.doi}
                              /\ dois[r.doi] = n
                              /\ \A d \in DOMAIN m.byDOI : d # r.doi => dois[d] = m.byDOI[d]
      BY DEF Put
    <2>9. /\ r.url = NoKey => urls = m.byURL
          /\ r.url # NoKey => /\ DOMAIN urls = DOMAIN m.byURL \cup {r.url}
                              /\ urls[r.url] = n
                              /\ \A u \in DOMAIN m.byURL : u # r.url => urls[u] = m.byURL[u]
      BY DEF Put
    <2>10. merged'.byDOI = dois /\ merged'.byURL = urls
      BY <2>6
    <2> HIDE DEF order, dois, urls
    <2>11. /\ \E D, U, R : order \in Seq([doi : D, url : U, from : SUBSET R])
           /\ \A k \in E : k # n => k \in DOMAIN order /\ order[k] = m.order[k]
           /\ DOMAIN order = E \cup {n} /\ n \in DOMAIN order
           /\ n \notin E => order[n] = [doi |-> r.doi, url |-> r.url, from |-> {r}]
           /\ n \in E =>
                /\ order[n].url = m.order[n].url
                /\ order[n].from = m.order[n].from \cup {r}
                /\ order[n].doi = IF m.order[n].doi = NoDoi THEN r.doi ELSE m.order[n].doi
      <3>1. PICK D, U, R : merged.order \in Seq([doi : D, url : U, from : SUBSET R])
        BY DEF EntriesInv
      <3> DEFINE D2 == D \cup {r.doi}
                 U2 == U \cup {r.url}
                 R2 == R \cup {r}
                 S == [doi : D2, url : U2, from : SUBSET R2]
                 old == merged.order
      <3>2. [doi : D, url : U, from : SUBSET R] \subseteq S
        OBVIOUS
      <3>3. old \in Seq(S) /\ Len(old) \in Nat /\ DOMAIN old = 1..Len(old)
        <4> DEFINE T == [doi : D, url : U, from : SUBSET R]
        <4>1. old \in Seq(T) /\ T \subseteq S
          BY <3>1, <3>2
        <4> HIDE DEF S, T
        <4>2. Len(old) \in Nat /\ old \in [1..Len(old) -> S]
          BY <4>1
        <4> QED BY <4>2, SeqDef
      <3>4. CASE n = Len(old) + 1
        <4> DEFINE e == [doi |-> r.doi, url |-> r.url, from |-> {r}]
        <4>1. e \in S
          OBVIOUS
        <4>2. order = Append(old, e) /\ n \notin DOMAIN old
          BY <2>7, <3>3, <3>4 DEF AddTo
        <4> HIDE DEF e, S
        <4>3. order \in Seq(S) /\ DOMAIN order = 1..(Len(old) + 1) /\ order[n] = e
              /\ \A k \in DOMAIN old : order[k] = old[k]
          BY <3>3, <3>4, <4>1, <4>2
        <4>4. \E X, Y, Z : order \in Seq([doi : X, url : Y, from : SUBSET Z])
          BY <4>3 DEF S
        <4>5. DOMAIN order = DOMAIN old \cup {n}
          <5>1. \A l \in Nat : 1..(l + 1) = 1..l \cup {l + 1}
            OBVIOUS
          <5> QED BY <3>3, <3>4, <4>3, <5>1
        <4>6. n \notin DOMAIN old => order[n] = [doi |-> r.doi, url |-> r.url, from |-> {r}]
          BY <4>3 DEF e
        <4> QED BY <4>2, <4>3, <4>4, <4>5, <4>6
      <3>5. CASE n \in DOMAIN old
        <4> DEFINE e == [old[n] EXCEPT !.from = old[n].from \cup {r},
                                       !.doi = IF old[n].doi = NoDoi THEN r.doi ELSE old[n].doi]
        <4>1. old[n] \in S
          <5> HIDE DEF S
          <5> QED BY <3>3, <3>5
        <4>2. e \in S /\ e.url = old[n].url /\ e.from = old[n].from \cup {r}
              /\ e.doi = IF old[n].doi = NoDoi THEN r.doi ELSE old[n].doi
          BY <4>1
        <4>3. order = [old EXCEPT ![n] = e]
          <5>1. ~(n > Len(old))
            BY <3>3, <3>5
          <5> QED BY <2>7, <3>3, <3>5, <4>1, <5>1 DEF AddTo
        <4> HIDE DEF e, S
        <4>4. order \in Seq(S) /\ DOMAIN order = DOMAIN old /\ order[n] = e
              /\ \A k \in DOMAIN old : k # n => order[k] = old[k]
          BY <3>3, <3>5, <4>2, <4>3
        <4> QED BY <3>5, <4>2, <4>4 DEF S
      <3> QED BY <2>3, <3>4, <3>5
    \* What the indexes say after the merge.
    <2>12. /\ DOMAIN m.byDOI \subseteq DOMAIN merged'.byDOI
           /\ \A d \in DOMAIN m.byDOI : merged'.byDOI[d] = m.byDOI[d]
           /\ r.doi # NoDoi => r.doi \in DOMAIN merged'.byDOI /\ merged'.byDOI[r.doi] = n
           /\ \A d \in DOMAIN merged'.byDOI : d \in DOMAIN m.byDOI \/ (d = r.doi /\ d # NoDoi)
      BY <2>5, <2>8, <2>10
    <2>13. /\ DOMAIN m.byURL \subseteq DOMAIN merged'.byURL
           /\ r.url # NoKey => r.url \in DOMAIN merged'.byURL
           /\ \A u \in DOMAIN merged'.byURL :
                \/ u \in DOMAIN m.byURL /\ merged'.byURL[u] = m.byURL[u]
                \/ u = r.url /\ u # NoKey /\ merged'.byURL[u] = n
      BY <2>9, <2>10
    <2>14. EntriesInv'
      BY <2>11 DEF EntriesInv, order
    <2>15. \A d \in DOMAIN merged'.byDOI : merged'.byDOI[d] \in DOMAIN order /\ d # NoDoi
      BY <2>11, <2>12 DEF PaperInv
    <2>16. \A u \in DOMAIN merged'.byURL : merged'.byURL[u] \in DOMAIN order /\ u # NoKey
      BY <2>11, <2>13 DEF PaperInv
    <2>17. ASSUME NEW k \in DOMAIN order
           PROVE  /\ order[k].doi # NoDoi =>
                       order[k].doi \in DOMAIN merged'.byDOI /\ merged'.byDOI[order[k].doi] = k
                  /\ order[k].url # NoKey => order[k].url \in DOMAIN merged'.byURL
                  /\ \A t \in order[k].from :
                       t.doi # NoDoi => t.doi \in DOMAIN merged'.byDOI /\ merged'.byDOI[t.doi] = k
      <3>1. CASE k # n
        <4>1. k \in E /\ order[k] = m.order[k]
          BY <2>11, <3>1
        <4> QED BY <2>12, <2>13, <4>1 DEF PaperInv
      <3>2. CASE k = n /\ n \notin E
        BY <2>11, <2>12, <2>13, <3>2
      <3>3. CASE k = n /\ n \in E
        <4>1. order[k].url # NoKey => order[k].url \in DOMAIN merged'.byURL
          BY <2>11, <2>13, <3>3 DEF PaperInv
        <4>2. order[k].doi # NoDoi =>
                order[k].doi \in DOMAIN merged'.byDOI /\ merged'.byDOI[order[k].doi] = k
          <5>1. CASE m.order[n].doi = NoDoi
            BY <2>11, <2>12, <3>3, <5>1
          <5>2. CASE m.order[n].doi # NoDoi
            BY <2>11, <2>12, <3>3, <5>2 DEF PaperInv
          <5> QED BY <5>1, <5>2
        <4>3. ASSUME NEW t \in order[k].from, t.doi # NoDoi
              PROVE  t.doi \in DOMAIN merged'.byDOI /\ merged'.byDOI[t.doi] = k
          <5>1. CASE t = r
            BY <2>12, <3>3, <4>3, <5>1
          <5>2. CASE t # r
            <6>1. t \in m.order[n].from
              BY <2>11, <3>3, <5>2
            <6> QED BY <2>12, <3>3, <4>3, <6>1 DEF PaperInv
          <5> QED BY <5>1, <5>2
        <4> QED BY <4>1, <4>2, <4>3
      <3> QED BY <3>1, <3>2, <3>3
    <2>18. ASSUME NEW i \in DOMAIN order, NEW k \in DOMAIN order,
                  order[i].url = order[k].url, order[i].url # NoKey
           PROVE  i = k
      <3>1. CASE n \in E
        <4>1. \A j \in DOMAIN order : j \in E /\ order[j].url = m.order[j].url
          BY <2>11, <3>1
        <4> QED BY <2>18, <4>1 DEF PaperInv
      <3>2. CASE n \notin E
        <4>1. \A j \in E : m.order[j].url # NoKey => m.order[j].url # r.url
          BY <2>4, <3>2 DEF PaperInv
        <4>2. \A j \in DOMAIN order : j # n => j \in E /\ order[j] = m.order[j]
          BY <2>11
        <4>3. order[n].url = r.url
          BY <2>11, <3>2
        <4> QED BY <2>18, <4>1, <4>2, <4>3 DEF PaperInv
      <3> QED BY <3>1, <3>2
    <2> QED BY <2>14, <2>15, <2>16, <2>17, <2>18 DEF PaperInv, order
  <1> QED BY <1>1, <1>2

\* PapersMergedOnce: results with one DOI end up in one entry, and no two
\* entries show a DOI or a url of each other, whatever the engines returned
\* and however a DOI and a url lead to different entries.  What SMSpec does
\* with the papers is a step of PMSpec or leaves them alone.
THEOREM PMSpec_PapersMergedOnce == PMSpec => []PapersMergedOnce
  <1>1. PMInit => EntriesInv /\ PaperInv
    <2> SUFFICES ASSUME PMInit PROVE EntriesInv /\ PaperInv OBVIOUS
    <2>1. merged.order = <<>> /\ DOMAIN merged.byDOI = {} /\ DOMAIN merged.byURL = {}
      BY DEF PMInit, Empty
    <2>2. EntriesInv
      BY <2>1 DEF EntriesInv
    <2> QED BY <2>1, <2>2 DEF PaperInv
  <1>2. EntriesInv /\ PaperInv /\ [PMNext]_paperVars => EntriesInv' /\ PaperInv'
    <2> SUFFICES ASSUME EntriesInv, PaperInv, [PMNext]_paperVars PROVE EntriesInv' /\ PaperInv'
      OBVIOUS
    <2>1. CASE merged' = merged
      BY <2>1 DEF EntriesInv, PaperInv
    <2>2. CASE MergePaper
      BY <2>2, MergeOneKeeps DEF MergePaper
    <2> QED BY <2>1, <2>2 DEF PMNext, PapersReturn, RankPapers, paperVars
  <1>3. EntriesInv /\ PaperInv => PapersMergedOnce
    <2> SUFFICES ASSUME PaperInv,
                        NEW i \in DOMAIN merged.order, NEW j \in DOMAIN merged.order, i # j
                 PROVE  /\ KeysOf(merged.order[i]) \cap KeysOf(merged.order[j]) = {}
                        /\ \A r \in merged.order[i].from, t \in merged.order[j].from :
                             r.doi = t.doi => r.doi = NoDoi
      BY DEF PapersMergedOnce
    <2> DEFINE p == merged.order[i]
               q == merged.order[j]
    <2>1. p.doi = q.doi => p.doi = NoDoi
      BY DEF PaperInv
    <2>2. p.url = q.url => p.url = NoKey
      BY DEF PaperInv
    <2>3. KeysOf(p) \cap KeysOf(q) = {}
      BY <2>1, <2>2 DEF KeysOf
    <2>4. \A r \in p.from, t \in q.from : r.doi = t.doi => r.doi = NoDoi
      BY DEF PaperInv
    <2> QED BY <2>3, <2>4
  <1> QED BY <1>1, <1>2, <1>3, PTL DEF PMSpec

-----------------------------------------------------------------------------
(* A call of either tool                                                   *)

LEMMA EitherTool == SMSpec => Spec /\ PMSpec
  <1>1. SMInit => Init /\ PMInit
    BY DEF SMInit
  <1>2. [SMNext]_<<vars, paperVars>> => [Next]_vars /\ [PMNext]_paperVars
    BY DEF SMNext
  <1> QED BY <1>1, <1>2, PTL DEF SMSpec, Spec, PMSpec

\* What holds of each merge holds of a call of either tool.
THEOREM SMSpec_MergesAreRight == SMSpec => [](AnswerIsClean /\ EnginesAreHeard /\ PapersMergedOnce)
  BY EitherTool, Spec_AnswerIsClean, Spec_EnginesAreHeard, PMSpec_PapersMergedOnce, PTL
=============================================================================
