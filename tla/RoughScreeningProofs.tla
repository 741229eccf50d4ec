------------------------- MODULE RoughScreeningProofs -------------------------
(***************************************************************************)
(* Proofs about RoughScreening, for any candidates, batches, jobs, limits  *)
(* and thresholds: sorting and selection first, then what the hard filter  *)
(* reads out of a resume, then the run.                                    *)
(***************************************************************************)
EXTENDS RoughScreening, SequenceTheorems, FiniteSetTheorems, TLAPS

-----------------------------------------------------------------------------
(* Sums *)

\* The element a fold takes next.
Some(s) == CHOOSE x \in s : TRUE

\* g adds up f over the subsets of S the way the fold does.
Adds(g, S, f) ==
  g = [s \in SUBSET S |-> IF s = {} THEN 0 ELSE f[Some(s)] + g[s \ {Some(s)}]]

\* The sum of f over S.
Sum(f, S) == FoldFunctionOnSet(Plus, 0, f, S)

\* What a fold is: the value of such a function.
LEMMA SumIsFold ==
  ASSUME NEW f, NEW S
  PROVE  Sum(f, S) = (CHOOSE g : Adds(g, S, f))[S]
BY DEF Sum, FoldFunctionOnSet, MapThenFoldSet, Adds, Some, Plus

\* A set of subsets of a finite set has a smallest member.
LEMMA Smallest ==
  ASSUME NEW S, IsFiniteSet(S), NEW T, T \subseteq SUBSET S, T # {}
  PROVE  \E s \in T : \A t \in T : t \subseteq s => t = s
<1>1. FiniteSubsetsOf(S) = SUBSET S
  BY FS_FiniteSubsetsOfFinite
<1>2. IsWellFoundedOn(StrictSubsetOrdering(S), SUBSET S)
  BY <1>1, FS_StrictSubsetOrderingWellFounded
<1>3. \E s \in T : \A t \in T : ~(<<t, s>> \in StrictSubsetOrdering(S))
  BY <1>2, WFMin
<1> QED
  BY <1>3 DEF StrictSubsetOrdering

\* The element that is taken is one of the set.
LEMMA SomeMember ==
  ASSUME NEW s, s # {}
  PROVE  Some(s) \in s
BY DEF Some

\* Restricted to the subsets of a subset, such a function still is one.
LEMMA AddsBelow ==
  ASSUME NEW f, NEW S, NEW g, Adds(g, S, f), NEW T \in SUBSET S
  PROVE  Adds([s \in SUBSET T |-> g[s]], T, f)
<1> DEFINE h == [s \in SUBSET T |-> g[s]]
<1>1. ASSUME NEW s \in SUBSET T
      PROVE  h[s] = IF s = {} THEN 0 ELSE f[Some(s)] + h[s \ {Some(s)}]
  <2>1. s \in SUBSET S /\ s \ {Some(s)} \in SUBSET T
    OBVIOUS
  <2>2. g[s] = IF s = {} THEN 0 ELSE f[Some(s)] + g[s \ {Some(s)}]
    BY <2>1 DEF Adds
  <2> QED
    BY <2>1, <2>2
<1> QED
  BY <1>1 DEF Adds

\* Over a finite set there is one only.
LEMMA AddsOnce ==
  ASSUME NEW f, NEW S, IsFiniteSet(S), NEW g, Adds(g, S, f), NEW h, Adds(h, S, f)
  PROVE  g = h
<1> DEFINE T == {s \in SUBSET S : g[s] # h[s]}
<1>1. SUFFICES T = {}
  BY DEF Adds
<1>2. SUFFICES ASSUME T # {} PROVE FALSE
  OBVIOUS
<1>3. T \subseteq SUBSET S
  OBVIOUS
<1> HIDE DEF T
<1>4. PICK s \in T : \A t \in T : t \subseteq s => t = s
  BY <1>2, <1>3, Smallest
<1>5. s \in SUBSET S /\ g[s] # h[s]
  BY DEF T
<1>6. s # {}
  BY <1>5 DEF Adds
<1>7. Some(s) \in s
  BY <1>6, SomeMember
<1>8. s \ {Some(s)} \in SUBSET S /\ s \ {Some(s)} \notin T
  BY <1>4, <1>5, <1>7
<1>9. g[s \ {Some(s)}] = h[s \ {Some(s)}]
  BY <1>8 DEF T
<1> QED
  BY <1>5, <1>6, <1>9 DEF Adds

\* And there is one: the fold follows its own equation.
LEMMA AddsExists ==
  ASSUME NEW f, NEW S, IsFiniteSet(S)
  PROVE  \E g : Adds(g, S, f)
<1> DEFINE T == {s \in SUBSET S : ~ \E g : Adds(g, s, f)}
<1>1. SUFFICES T = {}
  OBVIOUS
<1>2. SUFFICES ASSUME T # {} PROVE FALSE
  OBVIOUS
<1>3. T \subseteq SUBSET S
  OBVIOUS
<1>4. \A s \in SUBSET S : s \in T \/ \E g : Adds(g, s, f)
  OBVIOUS
<1>a. \A s \in T : s \in SUBSET S /\ ~ \E g : Adds(g, s, f)
  OBVIOUS
<1> HIDE DEF T
<1>5. PICK s \in T : \A t \in T : t \subseteq s => t = s
  BY <1>2, <1>3, Smallest
<1>6. s \in SUBSET S /\ IsFiniteSet(s)
  BY <1>3, FS_Subset
<1> DEFINE g == [t \in SUBSET s |-> IF t = {} THEN 0 ELSE f[Some(t)] + Sum(f, t \ {Some(t)})]
<1>7. ASSUME NEW u \in SUBSET s, u # s PROVE g[u] = Sum(f, u)
  <2>1. u \in SUBSET S /\ u \notin T /\ IsFiniteSet(u)
    BY <1>5, <1>6, <1>7, FS_Subset
  <2> DEFINE h == CHOOSE h : Adds(h, u, f)
  <2>2. Adds(h, u, f)
    BY <1>4, <2>1
  <2>3. Sum(f, u) = h[u]
    BY SumIsFold
  <2> HIDE DEF h
  <2>4. Sum(f, u) = IF u = {} THEN 0 ELSE f[Some(u)] + h[u \ {Some(u)}]
    BY <2>2, <2>3 DEF Adds
  <2>5. CASE u = {}
    BY <2>4, <2>5
  <2>6. CASE u # {}
    <3> DEFINE v == u \ {Some(u)}
    <3>1. v \in SUBSET u /\ v \in SUBSET s /\ v # s
      BY <2>6, SomeMember
    <3>2. v \in SUBSET S /\ v \notin T /\ IsFiniteSet(v)
      BY <1>5, <1>6, <3>1, FS_Subset
    <3> DEFINE k == CHOOSE k : Adds(k, v, f)
    <3>3. Adds(k, v, f) /\ Sum(f, v) = k[v]
      BY <1>4, <3>2, SumIsFold
    <3> HIDE DEF k, v
    <3>4. Adds([x \in SUBSET v |-> h[x]], v, f)
      BY <2>2, <3>1, AddsBelow
    <3>5. k = [x \in SUBSET v |-> h[x]]
      BY <3>2, <3>3, <3>4, AddsOnce
    <3>6. k[v] = h[v]
      BY <3>5
    <3>7. Sum(f, u) = f[Some(u)] + Sum(f, u \ {Some(u)})
      BY <2>4, <2>6, <3>3, <3>6 DEF v
    <3> QED
      BY <2>6, <3>7
  <2> QED
    BY <2>5, <2>6
<1>8. Adds(g, s, f)
  <2>1. ASSUME NEW t \in SUBSET s, t # {}
        PROVE  g[t] = f[Some(t)] + g[t \ {Some(t)}]
    <3>1. t \ {Some(t)} \in SUBSET s /\ t \ {Some(t)} # s
      BY <2>1, SomeMember
    <3>2. g[t \ {Some(t)}] = Sum(f, t \ {Some(t)})
      BY <1>7, <3>1
    <3>3. g[t] = f[Some(t)] + Sum(f, t \ {Some(t)})
      BY <2>1
    <3> QED
      BY <3>2, <3>3
  <2>2. g[{}] = 0
    OBVIOUS
  <2>3. \A t \in SUBSET s : g[t] = IF t = {} THEN 0 ELSE f[Some(t)] + g[t \ {Some(t)}]
    BY <2>1, <2>2
  <2>4. g = [t \in SUBSET s |-> g[t]]
    OBVIOUS
  <2> HIDE DEF g
  <2> QED
    BY <2>3, <2>4 DEF Adds
<1> QED
  BY <1>8, <1>a

\* Natural numbers add up to a natural number.
LEMMA SumIsNat ==
  ASSUME NEW S, IsFiniteSet(S), NEW f, \A x \in S : f[x] \in Nat
  PROVE  Sum(f, S) \in Nat
<1> DEFINE g == CHOOSE g : Adds(g, S, f)
<1>1. Adds(g, S, f) /\ Sum(f, S) = g[S]
  BY AddsExists, SumIsFold
<1> HIDE DEF g
<1> DEFINE T == {s \in SUBSET S : g[s] \notin Nat}
<1>2. SUFFICES ASSUME T # {} PROVE FALSE
  BY <1>1
<1>3. T \subseteq SUBSET S
  OBVIOUS
<1>4. \A s \in SUBSET S : s \in T <=> g[s] \notin Nat
  OBVIOUS
<1> HIDE DEF T
<1>5. PICK s \in T : \A t \in T : t \subseteq s => t = s
  BY <1>2, <1>3, Smallest
<1>6. s \in SUBSET S /\ g[s] \notin Nat
  BY <1>3, <1>4
<1>7. g[s] = IF s = {} THEN 0 ELSE f[Some(s)] + g[s \ {Some(s)}]
  BY <1>1, <1>6 DEF Adds
<1>8. s # {}
  BY <1>6, <1>7
<1>9. Some(s) \in s
  BY <1>8, SomeMember
<1>10. s \ {Some(s)} \in SUBSET S /\ s \ {Some(s)} \notin T
  BY <1>5, <1>6, <1>9
<1>11. g[s \ {Some(s)}] \in Nat /\ f[Some(s)] \in Nat
  BY <1>4, <1>6, <1>9, <1>10
<1> QED
  BY <1>6, <1>7, <1>8, <1>11

-----------------------------------------------------------------------------
(* Places *)

\* A place in an order by keys, equal keys in their given order: how many are not after it.
Before(key, j, i) == key[j] < key[i] \/ (j <= i /\ ~(key[i] < key[j]))
Place(key, i) == Cardinality({j \in DOMAIN key : Before(key, j, i)})

\* What has keys: finitely many positions.
Keys(key, I) == IsFiniteSet(I) /\ I \subseteq Int /\ DOMAIN key = I /\ \A x \in I : key[x] \in Int

\* Such an order is total.
LEMMA BeforeIsOrder ==
  ASSUME NEW key, NEW I, Keys(key, I), NEW i \in I, NEW j \in I
  PROVE  /\ Before(key, i, i)
         /\ Before(key, i, j) \/ Before(key, j, i)
         /\ Before(key, i, j) /\ Before(key, j, i) => i = j
         /\ Before(key, i, j) => key[i] <= key[j]
         /\ \A k \in I : Before(key, i, j) /\ Before(key, j, k) => Before(key, i, k)
<1>1. /\ \A x \in I : key[x] \in Int
      /\ \A x \in I : x \in Int
  BY DEF Keys
<1> QED
  BY <1>1 DEF Before

\* Places are the numbers up to how many there are.
LEMMA PlaceRange ==
  ASSUME NEW key, NEW I, Keys(key, I), NEW i \in I
  PROVE  Place(key, i) \in 1..Cardinality(I)
<1> DEFINE D == {j \in I : Before(key, j, i)}
<1>1. Place(key, i) = Cardinality(D) /\ IsFiniteSet(I)
  BY DEF Place, Keys
<1>2. D \in SUBSET I /\ i \in D
  BY BeforeIsOrder
<1> HIDE DEF D
<1>3. IsFiniteSet(D) /\ Cardinality(D) <= Cardinality(I)
  BY <1>1, <1>2, FS_Subset
<1>4. Cardinality(D) \in Nat /\ Cardinality(I) \in Nat
  BY <1>1, <1>3, FS_CardinalityType
<1>5. Cardinality(D) # 0
  BY <1>2, <1>3, FS_EmptySet
<1> QED
  BY <1>1, <1>3, <1>4, <1>5

\* Whoever comes before another has a smaller place.
LEMMA PlaceGrows ==
  ASSUME NEW key, NEW I, Keys(key, I), NEW i \in I, NEW j \in I, i # j, Before(key, i, j)
  PROVE  Place(key, i) < Place(key, j)
<1> DEFINE D == {k \in I : Before(key, k, i)}
           E == {k \in I : Before(key, k, j)}
<1>1. Place(key, i) = Cardinality(D) /\ Place(key, j) = Cardinality(E) /\ IsFiniteSet(I)
  BY DEF Place, Keys
<1>2. D \subseteq E
  <2>1. \A k \in I : Before(key, k, i) => Before(key, k, j)
    BY BeforeIsOrder
  <2> QED
    BY <2>1
<1>3. j \in E /\ j \notin D /\ E \in SUBSET I
  BY BeforeIsOrder
<1> HIDE DEF D, E
<1>4. IsFiniteSet(E)
  BY <1>1, <1>3, FS_Subset
<1>5. Cardinality(D) <= Cardinality(E) /\ Cardinality(D) # Cardinality(E) /\ IsFiniteSet(D)
  BY <1>2, <1>3, <1>4, FS_Subset
<1>6. Cardinality(D) \in Nat /\ Cardinality(E) \in Nat
  BY <1>4, <1>5, FS_CardinalityType
<1> QED
  BY <1>1, <1>5, <1>6

\* Each of them is taken by one.
LEMMA PlacesTaken ==
  ASSUME NEW key, NEW I, Keys(key, I)
  PROVE  /\ \A i, j \in I : Place(key, i) = Place(key, j) => i = j
         /\ \A p \in 1..Cardinality(I) : \E i \in I : Place(key, i) = p
<1> DEFINE n == Cardinality(I)
<1>0. n \in Nat /\ IsFiniteSet(I)
  BY FS_CardinalityType DEF Keys
<1>a. \A i \in I : Place(key, i) \in 1..n
  BY PlaceRange
<1> HIDE DEF n
<1>1. ASSUME NEW i \in I, NEW j \in I, Place(key, i) = Place(key, j) PROVE i = j
  <2>1. SUFFICES ASSUME i # j PROVE FALSE
    OBVIOUS
  <2>2. Before(key, i, j) \/ Before(key, j, i)
    BY BeforeIsOrder
  <2>3. Place(key, i) < Place(key, j) \/ Place(key, j) < Place(key, i)
    BY <2>1, <2>2, PlaceGrows
  <2> QED
    BY <1>1, <1>a, <1>0, <2>3
<1> DEFINE f == [i \in I |-> Place(key, i)]
<1>2. f \in Injection(I, 1..n)
  <2>1. f \in [I -> 1..n]
    BY <1>a
  <2>2. \A i, j \in I : f[i] = f[j] => i = j
    BY <1>1
  <2> QED
    BY <2>1, <2>2 DEF Injection, IsInjective
<1>3. IsFiniteSet(1..n) /\ Cardinality(1..n) = Cardinality(I)
  BY <1>0, FS_Interval DEF n
<1>4. f \in Surjection(I, 1..n)
  <2> HIDE DEF f
  <2> QED
    BY <1>2, <1>3, FS_Injection
<1>5. ASSUME NEW p \in 1..n PROVE \E i \in I : Place(key, i) = p
  BY <1>4 DEF Surjection
<1> QED
  BY <1>1, <1>5 DEF n

\* Places and what is at them are a permutation, in the order of the keys.
LEMMA ByPlace ==
  ASSUME NEW key, NEW I, Keys(key, I), NEW n, n = Cardinality(I),
         NEW at, \A p \in 1..n : at[p] \in I /\ Place(key, at[p]) = p
  PROVE  /\ \A p, q \in 1..n : at[p] = at[q] => p = q
         /\ \A i \in I : \E p \in 1..n : at[p] = i
         /\ \A p, q \in 1..n : p <= q => key[at[p]] <= key[at[q]]
<1>1. \A p, q \in 1..n : at[p] = at[q] => p = q
  OBVIOUS
<1>2. ASSUME NEW i \in I PROVE \E p \in 1..n : at[p] = i
  <2> DEFINE p == Place(key, i)
  <2>1. p \in 1..n
    BY PlaceRange
  <2>2. at[p] \in I /\ Place(key, at[p]) = Place(key, i)
    BY <2>1
  <2>3. at[p] = i
    <3> HIDE DEF p
    <3> QED
      BY <2>2, PlacesTaken
  <2> QED
    BY <2>1, <2>3
<1>3. ASSUME NEW p \in 1..n, NEW q \in 1..n, p <= q PROVE key[at[p]] <= key[at[q]]
  <2>1. at[p] \in I /\ at[q] \in I /\ Place(key, at[p]) = p /\ Place(key, at[q]) = q
    OBVIOUS
  <2>2. Before(key, at[p], at[q])
    <3>1. CASE at[p] = at[q]
      BY <2>1, <3>1, BeforeIsOrder
    <3>2. CASE at[p] # at[q] /\ ~Before(key, at[p], at[q])
      <4>1. Before(key, at[q], at[p])
        BY <2>1, <3>2, BeforeIsOrder
      <4>2. Place(key, at[q]) < Place(key, at[p])
        BY <2>1, <3>2, <4>1, PlaceGrows
      <4>3. q < p
        BY <2>1, <4>2
      <4>4. n \in Nat
        BY FS_CardinalityType DEF Keys
      <4> QED
        BY <1>3, <4>3, <4>4
    <3> QED
      BY <3>1, <3>2
  <2> QED
    BY <2>1, <2>2, BeforeIsOrder
<1> QED
  BY <1>1, <1>2, <1>3

-----------------------------------------------------------------------------
(* Selecting and sorting *)

\* What a selection is: its places are taken by the positions, each once.
Picks(at, I) ==
  /\ Cardinality(I) \in Nat
  /\ \A p \in 1..Cardinality(I) : at[p] \in I
  /\ \A p, q \in 1..Cardinality(I) : at[p] = at[q] => p = q
  /\ \A i \in I : \E p \in 1..Cardinality(I) : at[p] = i

\* Kept makes such a selection.
LEMMA KeptPlaces ==
  ASSUME NEW s, NEW n \in Nat, NEW I \in SUBSET (1..n)
  PROVE  /\ Cardinality(I) <= n
         /\ \E at : Picks(at, I) /\ Kept(s, I) = [p \in 1..Cardinality(I) |-> s[at[p]]]
<1> DEFINE key == [i \in I |-> 0]
           m == Cardinality(I)
           place(i) == Cardinality({j \in I : j <= i})
           at == [p \in 1..m |-> CHOOSE i \in I : place(i) = p]
<1>1. IsFiniteSet(I) /\ m <= n
  <2>1. IsFiniteSet(1..n) /\ Cardinality(1..n) = n
    BY FS_Interval
  <2>2. IsFiniteSet(I) /\ Cardinality(I) <= Cardinality(1..n)
    BY <2>1, FS_Subset
  <2> QED
    BY <2>1, <2>2
<1>2. Keys(key, I) /\ m \in Nat
  BY <1>1, FS_CardinalityType DEF Keys
<1>3. ASSUME NEW i \in I PROVE place(i) = Place(key, i)
  <2>1. \A j \in I : j <= i <=> Before(key, j, i)
    BY DEF Before
  <2>2. {j \in I : j <= i} = {j \in DOMAIN key : Before(key, j, i)}
    BY <2>1
  <2> QED
    BY <2>2 DEF Place
<1>4. Kept(s, I) = [p \in 1..m |-> s[at[p]]]
  BY DEF Kept
<1>5. ASSUME NEW p \in 1..m PROVE at[p] \in I /\ Place(key, at[p]) = p
  <2>1. \E i \in I : Place(key, i) = p
    <3> HIDE DEF key
    <3> QED
      BY <1>2, PlacesTaken
  <2>2. \E i \in I : place(i) = p
    BY <1>3, <2>1
  <2>3. at[p] \in I /\ place(at[p]) = p
    <3>1. at[p] = CHOOSE i \in I : place(i) = p
      OBVIOUS
    <3> HIDE DEF place
    <3> QED
      BY <2>2, <3>1
  <2> QED
    BY <1>3, <2>3
<1>6. /\ \A p, q \in 1..m : at[p] = at[q] => p = q
      /\ \A i \in I : \E p \in 1..m : at[p] = i
  <2> HIDE DEF key, at
  <2>1. \A p \in 1..m : at[p] \in I /\ Place(key, at[p]) = p
    BY <1>5
  <2> QED
    BY <1>2, <2>1, ByPlace
<1> HIDE DEF at
<1>7. Picks(at, I)
  BY <1>2, <1>5, <1>6 DEF Picks
<1> QED
  BY <1>1, <1>4, <1>7

\* What stands at the positions of I, each once.
Selected(t, s, I) ==
  /\ \A p \in DOMAIN t : \E i \in I : t[p] = s[i]
  /\ \A i \in I : \E p \in DOMAIN t : t[p] = s[i]
  /\ (\A i, j \in I : s[i] = s[j] => i = j) => \A p, q \in DOMAIN t : t[p] = t[q] => p = q

\* A selection from a sequence is one.
LEMMA KeptIs ==
  ASSUME NEW X, NEW s \in Seq(X), NEW I \in SUBSET DOMAIN s
  PROVE  Kept(s, I) \in Seq(X) /\ Len(Kept(s, I)) <= Len(s) /\ Selected(Kept(s, I), s, I)
<1> DEFINE n == Len(s)
           m == Cardinality(I)
           t == Kept(s, I)
<1>1. n \in Nat /\ DOMAIN s = 1..n /\ \A i \in 1..n : s[i] \in X
  OBVIOUS
<1>2. I \in SUBSET (1..n)
  BY <1>1
<1>3. m <= n /\ \E at : Picks(at, I) /\ t = [p \in 1..m |-> s[at[p]]]
  <2> HIDE DEF n
  <2> QED
    BY <1>1, <1>2, KeptPlaces
<1>4. PICK at : Picks(at, I) /\ t = [p \in 1..m |-> s[at[p]]]
  BY <1>3
<1>5. /\ m \in Nat
      /\ \A p \in 1..m : at[p] \in I
      /\ \A p, q \in 1..m : at[p] = at[q] => p = q
      /\ \A i \in I : \E p \in 1..m : at[p] = i
  BY <1>4 DEF Picks
<1> HIDE DEF n, m, t
<1>6. /\ DOMAIN t = 1..m
      /\ \A p \in 1..m : t[p] = s[at[p]] /\ t[p] \in X
  <2>1. DOMAIN t = 1..m /\ \A p \in 1..m : t[p] = s[at[p]]
    BY <1>4
  <2> QED
    BY <1>1, <1>2, <1>5, <2>1
<1>7. t \in Seq(X) /\ Len(t) = m
  <2>1. t \in [1..m -> X]
    BY <1>4, <1>6
  <2> QED
    BY <1>5, <2>1
<1>8. \A p \in 1..m : \E i \in I : t[p] = s[i]
  BY <1>5, <1>6
<1>9. \A i \in I : \E p \in 1..m : t[p] = s[i]
  BY <1>5, <1>6
<1>10. ASSUME \A i, j \in I : s[i] = s[j] => i = j
       PROVE  \A p, q \in 1..m : t[p] = t[q] => p = q
  BY <1>5, <1>6, <1>10
<1>11. Selected(t, s, I)
  BY <1>6, <1>8, <1>9, <1>10 DEF Selected
<1> QED
  BY <1>3, <1>7, <1>11 DEF n, t

\* Rows with ids of X, nobody twice.
Rows(s, X) ==
  /\ s \in Seq([id : X, score : Int])
  /\ \A i, j \in DOMAIN s : s[i].id = s[j].id => i = j

\* What rows are, position by position.
LEMMA RowsAre ==
  ASSUME NEW X, NEW s, Rows(s, X)
  PROVE  /\ Len(s) \in Nat /\ DOMAIN s = 1..Len(s)
         /\ \A i \in 1..Len(s) : s[i] \in [id : X, score : Int] /\ s[i].id \in X /\ s[i].score \in Int
         /\ \A i, j \in 1..Len(s) : s[i].id = s[j].id => i = j
<1> DEFINE R == [id : X, score : Int]
<1>1. s \in Seq(R) /\ \A i, j \in DOMAIN s : s[i].id = s[j].id => i = j
  BY DEF Rows
<1>2. \A e \in R : e.id \in X /\ e.score \in Int
  OBVIOUS
<1> HIDE DEF R
<1>3. Len(s) \in Nat /\ DOMAIN s = 1..Len(s) /\ \A i \in 1..Len(s) : s[i] \in R
  BY <1>1
<1>4. \A i \in 1..Len(s) : s[i].id \in X /\ s[i].score \in Int
  BY <1>2, <1>3
<1>5. \A i, j \in 1..Len(s) : s[i].id = s[j].id => i = j
  BY <1>1, <1>3
<1> QED
  BY <1>3, <1>4, <1>5 DEF R

\* Selected rows are rows.
LEMMA KeptRows ==
  ASSUME NEW X, NEW s, Rows(s, X), NEW I \in SUBSET DOMAIN s
  PROVE  Rows(Kept(s, I), X) /\ Selected(Kept(s, I), s, I)
<1> DEFINE R == [id : X, score : Int]
           t == Kept(s, I)
<1>1. s \in Seq(R) /\ \A i, j \in DOMAIN s : s[i].id = s[j].id => i = j
  BY DEF Rows
<1>2. \A i, j \in I : s[i] = s[j] => i = j
  BY <1>1
<1> HIDE DEF R
<1>a. t \in Seq(R) /\ Selected(t, s, I)
  BY <1>1, KeptIs
<1> HIDE DEF t
<1>3. /\ t \in Seq(R)
      /\ \A p \in DOMAIN t : \E i \in I : t[p] = s[i]
      /\ \A i \in I : \E p \in DOMAIN t : t[p] = s[i]
      /\ \A p, q \in DOMAIN t : t[p] = t[q] => p = q
  BY <1>2, <1>a DEF Selected
<1>4. ASSUME NEW p \in DOMAIN t, NEW q \in DOMAIN t, t[p].id = t[q].id PROVE p = q
  <2>1. PICK i \in I : t[p] = s[i]
    BY <1>3
  <2>2. PICK j \in I : t[q] = s[j]
    BY <1>3
  <2>3. i = j
    BY <1>1, <1>4, <2>1, <2>2
  <2> QED
    BY <1>3, <2>1, <2>2, <2>3
<1> QED
  BY <1>3, <1>4, <1>a DEF Rows, R, t

\* The same rows, the highest first.
Reordered(t, s) ==
  /\ \A p \in DOMAIN t : \E i \in DOMAIN s : t[p] = s[i]
  /\ \A i \in DOMAIN s : \E p \in DOMAIN t : t[p] = s[i]
  /\ \A p, q \in DOMAIN t : p <= q => t[p].score >= t[q].score

\* What sorting rows by their scores makes of them.
LEMMA SortedRows ==
  ASSUME NEW X, NEW s, Rows(s, X)
  PROVE  Rows(ByScore(s), X) /\ Len(ByScore(s)) = Len(s) /\ Reordered(ByScore(s), s)
<1> DEFINE n == Len(s)
           R == [id : X, score : Int]
           key == [i \in 1..n |-> 0 - s[i].score]
           place(i) == Cardinality({j \in DOMAIN s : s[j].score > s[i].score \/ (j <= i /\ ~(s[i].score > s[j].score))})
           at == [p \in 1..n |-> CHOOSE i \in DOMAIN s : place(i) = p]
           t == ByScore(s)
<1>1. t = [p \in DOMAIN s |-> s[CHOOSE i \in DOMAIN s : place(i) = p]]
  BY DEF ByScore, Sorted
<1>2. /\ n \in Nat /\ DOMAIN s = 1..n
      /\ \A i \in 1..n : s[i] \in R /\ s[i].score \in Int
      /\ \A i, j \in 1..n : s[i].id = s[j].id => i = j
  BY RowsAre
<1>3. Keys(key, 1..n) /\ n = Cardinality(1..n)
  <2>1. IsFiniteSet(1..n) /\ n = Cardinality(1..n)
    BY <1>2, FS_Interval
  <2>2. \A i \in 1..n : key[i] \in Int
    BY <1>2
  <2> QED
    BY <2>1, <2>2 DEF Keys
<1>4. ASSUME NEW i \in 1..n PROVE place(i) = Place(key, i)
  <2>1. \A j \in 1..n : (s[j].score > s[i].score \/ (j <= i /\ ~(s[i].score > s[j].score))) <=> Before(key, j, i)
    BY <1>2 DEF Before
  <2>2. {j \in DOMAIN s : s[j].score > s[i].score \/ (j <= i /\ ~(s[i].score > s[j].score))}
          = {j \in DOMAIN key : Before(key, j, i)}
    BY <1>2, <2>1
  <2> QED
    BY <2>2 DEF Place
<1>5. ASSUME NEW p \in 1..n PROVE at[p] \in 1..n /\ Place(key, at[p]) = p
  <2>1. \E i \in 1..n : Place(key, i) = p
    <3> HIDE DEF key, n
    <3> QED
      BY <1>3, PlacesTaken
  <2>2. \E i \in DOMAIN s : place(i) = p
    BY <1>2, <1>4, <2>1
  <2>3. at[p] \in 1..n /\ place(at[p]) = p
    <3>1. at[p] = CHOOSE i \in DOMAIN s : place(i) = p
      OBVIOUS
    <3> HIDE DEF place
    <3> QED
      BY <1>2, <2>2, <3>1
  <2> QED
    BY <1>4, <2>3
<1>6. DOMAIN t = 1..n /\ \A p \in 1..n : t[p] = s[at[p]]
  BY <1>1, <1>2
<1>k. \A i \in 1..n : key[i] = 0 - s[i].score
  OBVIOUS
<1>d. t = [p \in 1..n |-> t[p]]
  BY <1>1, <1>2
<1> HIDE DEF t, at, key, place, n, R
<1>7. /\ \A p, q \in 1..n : at[p] = at[q] => p = q
      /\ \A i \in 1..n : \E p \in 1..n : at[p] = i
      /\ \A p, q \in 1..n : p <= q => key[at[p]] <= key[at[q]]
  <2> DEFINE I == 1..n
  <2>1. \A p \in I : at[p] \in I /\ Place(key, at[p]) = p
    BY <1>5
  <2>2. Keys(key, I) /\ n = Cardinality(I) /\ \A p \in 1..n : at[p] \in I /\ Place(key, at[p]) = p
    BY <1>3, <2>1
  <2>3. I = 1..n
    OBVIOUS
  <2> HIDE DEF I
  <2>4. /\ \A p, q \in 1..n : at[p] = at[q] => p = q
        /\ \A i \in I : \E p \in 1..n : at[p] = i
        /\ \A p, q \in 1..n : p <= q => key[at[p]] <= key[at[q]]
    BY <2>2, ByPlace
  <2> QED
    BY <2>3, <2>4
<1>8. t \in Seq(R) /\ Len(t) = n
  <2>1. \A p \in 1..n : t[p] \in R
    BY <1>2, <1>5, <1>6
  <2>2. t \in [1..n -> R]
    BY <1>d, <2>1
  <2> QED
    BY <1>2, <2>2
<1>9. ASSUME NEW p \in 1..n, NEW q \in 1..n, t[p].id = t[q].id PROVE p = q
  <2>1. at[p] \in 1..n /\ at[q] \in 1..n /\ s[at[p]].id = s[at[q]].id
    BY <1>5, <1>6, <1>9
  <2>2. at[p] = at[q]
    BY <1>2, <2>1
  <2> QED
    BY <1>7, <2>2
<1>10. \A p \in 1..n : \E i \in 1..n : t[p] = s[i]
  BY <1>5, <1>6
<1>11. \A i \in 1..n : \E p \in 1..n : t[p] = s[i]
  BY <1>5, <1>6, <1>7
<1>12. ASSUME NEW p \in 1..n, NEW q \in 1..n, p <= q PROVE t[p].score >= t[q].score
  <2>1. key[at[p]] <= key[at[q]] /\ at[p] \in 1..n /\ at[q] \in 1..n
    BY <1>5, <1>7, <1>12
  <2>2. 0 - s[at[p]].score <= 0 - s[at[q]].score /\ s[at[p]].score \in Int /\ s[at[q]].score \in Int
    BY <1>2, <1>k, <2>1
  <2>3. s[at[p]].score >= s[at[q]].score
    BY <2>2
  <2> QED
    BY <1>6, <2>3
<1>13. Rows(t, X)
  BY <1>6, <1>8, <1>9 DEF Rows, R
<1>14. Reordered(t, s)
  BY <1>2, <1>6, <1>10, <1>11, <1>12 DEF Reordered
<1> QED
  BY <1>8, <1>13, <1>14 DEF t, n

\* There are as many ids as rows.
LEMMA RowsCounted ==
  ASSUME NEW X, NEW s, Rows(s, X)
  PROVE  IdsIn(s) \subseteq X /\ IsFiniteSet(IdsIn(s)) /\ Cardinality(IdsIn(s)) = Len(s)
<1> DEFINE n == Len(s)
           f == [i \in 1..n |-> s[i].id]
<1>1. n \in Nat /\ DOMAIN s = 1..n /\ (\A i \in 1..n : s[i].id \in X) /\ \A i, j \in 1..n : s[i].id = s[j].id => i = j
  BY RowsAre
<1>2. f \in Surjection(1..n, IdsIn(s)) /\ f \in Injection(1..n, IdsIn(s))
  BY <1>1 DEF Surjection, Injection, IsInjective, IdsIn
<1>3. IsFiniteSet(1..n) /\ Cardinality(1..n) = n
  BY <1>1, FS_Interval
<1> HIDE DEF f, n
<1>4. IsFiniteSet(IdsIn(s)) /\ Cardinality(IdsIn(s)) = Cardinality(1..n)
  BY <1>2, <1>3, FS_Surjection
<1>5. IdsIn(s) \subseteq X
  BY <1>1 DEF IdsIn
<1> QED
  BY <1>3, <1>4, <1>5 DEF n

-----------------------------------------------------------------------------
(* The hard filter *)

\* A set of positions has a first and a last one.
LEMMA EndsOf ==
  ASSUME NEW n \in Nat, NEW J \in SUBSET (1..n), J # {}
  PROVE  /\ \E i \in J : \A j \in J : i <= j
         /\ \E i \in J : \A j \in J : i >= j
<1> DEFINE lower == {1..j : j \in J}
           upper == {j..n : j \in J}
<1>1. lower # {} /\ upper # {}
  OBVIOUS
<1>2. lower \subseteq SUBSET (1..n) /\ upper \subseteq SUBSET (1..n)
  OBVIOUS
<1>3. /\ \A s \in lower : \E j \in J : s = 1..j
      /\ \A j \in J : 1..j \in lower
      /\ \A s \in upper : \E j \in J : s = j..n
      /\ \A j \in J : j..n \in upper
  OBVIOUS
<1> DEFINE N == 1..n
<1>4. IsFiniteSet(N) /\ lower \subseteq SUBSET N /\ upper \subseteq SUBSET N
  BY <1>2, FS_Interval
<1> HIDE DEF lower, upper, N
<1>5. \E i \in J : \A j \in J : i <= j
  <2>1. PICK s \in lower : \A t \in lower : t \subseteq s => t = s
    BY <1>1, <1>4, Smallest
  <2>2. PICK i \in J : s = 1..i
    BY <1>3
  <2>3. ASSUME NEW j \in J, j < i PROVE FALSE
    <3>1. 1..j \subseteq 1..i /\ i \in 1..i /\ i \notin 1..j
      BY <2>3
    <3> QED
      BY <1>3, <2>1, <2>2, <3>1
  <2> QED
    BY <2>3
<1>6. \E i \in J : \A j \in J : i >= j
  <2>1. PICK s \in upper : \A t \in upper : t \subseteq s => t = s
    BY <1>1, <1>4, Smallest
  <2>2. PICK i \in J : s = i..n
    BY <1>3
  <2>3. ASSUME NEW j \in J, j > i PROVE FALSE
    <3>1. j..n \subseteq i..n /\ i \in i..n /\ i \notin j..n
      BY <2>3
    <3> QED
      BY <1>3, <2>1, <2>2, <3>1
  <2> QED
    BY <2>3
<1> QED
  BY <1>5, <1>6

\* The highest of a set of positions is one of them.
LEMMA MaxOf ==
  ASSUME NEW n \in Nat, NEW J \in SUBSET (1..n), J # {}
  PROVE  Max(J) \in J
<1>1. \E i \in J : \A j \in J : i >= j
  BY EndsOf
<1> QED
  BY <1>1 DEF Max

\* Without repetitions, nothing is lost.
LEMMA DedupeIs ==
  ASSUME NEW X, NEW s \in Seq(X)
  PROVE  /\ Dedupe(s) \in Seq(X) /\ Len(Dedupe(s)) <= Len(s) /\ ToSet(Dedupe(s)) = ToSet(s)
         /\ IsInjective(Dedupe(s))
<1> DEFINE I == {i \in DOMAIN s : \A j \in 1..i - 1 : s[j] # s[i]}
           n == Len(s)
           t == Dedupe(s)
<1>1. n \in Nat /\ DOMAIN s = 1..n
  OBVIOUS
<1>2. ASSUME NEW i \in I, NEW j \in I, s[i] = s[j] PROVE i = j
  BY <1>1, <1>2
<1>3. ASSUME NEW k \in 1..n PROVE \E i \in I : s[i] = s[k]
  <2> DEFINE J == {j \in 1..n : s[j] = s[k]}
  <2>1. J \in SUBSET (1..n) /\ J # {}
    OBVIOUS
  <2>2. PICK i \in J : \A j \in J : i <= j
    <3> HIDE DEF J
    <3> QED
      BY <1>1, <2>1, EndsOf
  <2>3. i \in I
    BY <1>1, <2>2
  <2> QED
    BY <2>2, <2>3
<1>4. t = Kept(s, I) /\ I \in SUBSET DOMAIN s
  BY DEF Dedupe
<1> HIDE DEF I, n, t
<1>5. /\ t \in Seq(X) /\ Len(t) <= Len(s)
      /\ \A p \in DOMAIN t : \E i \in I : t[p] = s[i]
      /\ \A i \in I : \E p \in DOMAIN t : t[p] = s[i]
      /\ \A p, q \in DOMAIN t : t[p] = t[q] => p = q
  <2>1. \A i, j \in I : s[i] = s[j] => i = j
    BY <1>2
  <2>2. t \in Seq(X) /\ Len(t) <= Len(s) /\ Selected(t, s, I)
    BY <1>4, KeptIs
  <2> QED
    BY <2>1, <2>2 DEF Selected
<1>6. ToSet(t) = ToSet(s)
  <2>1. ToSet(t) \subseteq ToSet(s)
    BY <1>4, <1>5 DEF ToSet
  <2>2. ASSUME NEW k \in DOMAIN s PROVE s[k] \in ToSet(t)
    <3>1. PICK i \in I : s[i] = s[k]
      BY <1>1, <1>3, <2>2
    <3>2. PICK p \in DOMAIN t : t[p] = s[i]
      BY <1>5
    <3> QED
      BY <3>1, <3>2 DEF ToSet
  <2> QED
    BY <2>1, <2>2 DEF ToSet
<1> QED
  BY <1>5, <1>6 DEF t, IsInjective

\* The names without a rule.
LEMMA UnmatchedIs ==
  ASSUME NEW N, NEW raw \in Seq(N)
  PROVE  Unmatched(raw) \in Seq(N) /\ ToSet(Unmatched(raw)) = {n \in ToSet(raw) : Rule[n] = NoTag}
<1> DEFINE I == {i \in DOMAIN raw : Rule[raw[i]] = NoTag}
           t == Unmatched(raw)
<1>1. t = Kept(raw, I) /\ I \in SUBSET DOMAIN raw
  BY DEF Unmatched
<1>2. \A i \in DOMAIN raw : i \in I <=> Rule[raw[i]] = NoTag
  OBVIOUS
<1> HIDE DEF I, t
<1>3. /\ t \in Seq(N)
      /\ \A p \in DOMAIN t : \E i \in I : t[p] = raw[i]
      /\ \A i \in I : \E p \in DOMAIN t : t[p] = raw[i]
  <2>1. t \in Seq(N) /\ Selected(t, raw, I)
    BY <1>1, KeptIs
  <2> QED
    BY <2>1 DEF Selected
<1>4. ToSet(t) \subseteq {n \in ToSet(raw) : Rule[n] = NoTag}
  BY <1>1, <1>2, <1>3 DEF ToSet
<1>5. ASSUME NEW n \in ToSet(raw), Rule[n] = NoTag PROVE n \in ToSet(t)
  <2>1. PICK i \in DOMAIN raw : raw[i] = n
    BY DEF ToSet
  <2>2. i \in I
    BY <1>2, <1>5, <2>1
  <2> QED
    BY <1>3, <2>1, <2>2 DEF ToSet
<1> QED
  BY <1>3, <1>4, <1>5 DEF t

\* What the embedding finds for a name.
Closest(n) == IF Near[n] = NoTag THEN n ELSE Near[n]

\* What the embedding finds for names: what each is closest to, and no more than there are names.
LEMMA SemanticIs ==
  ASSUME NEW N, NEW names \in Seq(N)
  PROVE  /\ DOMAIN Semantic(names) = 1..Len(Semantic(names)) /\ Len(Semantic(names)) \in Nat
         /\ Len(Semantic(names)) <= Len(names)
         /\ ToSet(Semantic(names)) = {Closest(n) : n \in ToSet(names)}
<1> DEFINE Y == {Closest(n) : n \in N}
           u == [i \in DOMAIN names |-> Closest(names[i])]
           t == Semantic(names)
<1>1. DOMAIN names = 1..Len(names) /\ Len(names) \in Nat /\ \A i \in 1..Len(names) : names[i] \in N
  OBVIOUS
<1>2. u \in Seq(Y) /\ Len(u) = Len(names) /\ DOMAIN u = 1..Len(names)
  <2>1. u \in [1..Len(names) -> Y]
    BY <1>1
  <2> HIDE DEF u, Y
  <2> QED
    BY <1>1, <2>1
<1>3. t = Dedupe(u)
  BY DEF Semantic, Closest
<1>4. ToSet(u) = {Closest(n) : n \in ToSet(names)}
  <2>1. \A i \in DOMAIN names : u[i] = Closest(names[i])
    OBVIOUS
  <2>2. DOMAIN u = DOMAIN names
    OBVIOUS
  <2> HIDE DEF u
  <2> QED
    BY <2>1, <2>2, Zenon DEF ToSet
<1> HIDE DEF u, t, Y
<1>5. t \in Seq(Y) /\ Len(t) <= Len(u) /\ ToSet(t) = ToSet(u)
  BY <1>2, <1>3, DedupeIs
<1> QED
  BY <1>2, <1>4, <1>5 DEF t

\* A name is translated to something a name stands for, though perhaps another name.
LEMMA TranslatedInto ==
  ASSUME NEW N, NEW names \in Seq(N), NEW n
  PROVE  SemanticMap(names, n) \in {n} \cup {Closest(m) : m \in ToSet(names)}
<1> DEFINE at == {i \in DOMAIN names : names[i] = n /\ i \in DOMAIN Semantic(names)}
<1>1. DOMAIN names = 1..Len(names) /\ Len(names) \in Nat
  OBVIOUS
<1>2. at \in SUBSET (1..Len(names)) /\ at \subseteq DOMAIN Semantic(names)
  BY <1>1
<1>3. SemanticMap(names, n) = IF at = {} THEN n ELSE Semantic(names)[Max(at)]
  BY DEF SemanticMap
<1> HIDE DEF at
<1>4. CASE at # {}
  <2>1. Max(at) \in DOMAIN Semantic(names)
    BY <1>1, <1>2, <1>4, MaxOf
  <2>2. SemanticMap(names, n) \in ToSet(Semantic(names))
    BY <1>3, <1>4, <2>1 DEF ToSet
  <2> QED
    BY <2>2, SemanticIs
<1> QED
  BY <1>3, <1>4

\* Without repetitions all that the names stand for is found, though perhaps under another name.
LEMMA AllTranslated ==
  ASSUME NEW N, NEW names \in Seq(N), IsInjective(names), NEW m \in ToSet(names)
  PROVE  \E n \in ToSet(names) : SemanticMap(names, n) = Closest(m)
<1>1. DOMAIN names = 1..Len(names) /\ Len(names) \in Nat
  OBVIOUS
<1>2. /\ DOMAIN Semantic(names) = 1..Len(Semantic(names)) /\ Len(Semantic(names)) \in Nat
      /\ Len(Semantic(names)) <= Len(names)
      /\ ToSet(Semantic(names)) = {Closest(n) : n \in ToSet(names)}
  BY SemanticIs
<1>3. PICK k \in DOMAIN Semantic(names) : Semantic(names)[k] = Closest(m)
  <2>1. Closest(m) \in ToSet(Semantic(names))
    BY <1>2
  <2> QED
    BY <2>1 DEF ToSet
<1>4. k \in DOMAIN names
  BY <1>1, <1>2
<1> DEFINE n == names[k]
           at == {i \in DOMAIN names : names[i] = n /\ i \in DOMAIN Semantic(names)}
<1>5. at = {k}
  BY <1>3, <1>4 DEF IsInjective
<1>6. SemanticMap(names, n) = IF at = {} THEN n ELSE Semantic(names)[Max(at)]
  BY DEF SemanticMap
<1> HIDE DEF at
<1>7. Max(at) = k
  <2>1. at \in SUBSET (1..Len(names)) /\ at # {}
    BY <1>1, <1>4, <1>5
  <2>2. Max(at) \in at
    BY <1>1, <2>1, MaxOf
  <2> QED
    BY <1>5, <2>2
<1>8. SemanticMap(names, n) = Closest(m) /\ n \in ToSet(names)
  BY <1>3, <1>4, <1>5, <1>6, <1>7 DEF ToSet
<1> QED
  BY <1>8

\* The skills of a resume are its names, and what they stand for.
LEMMA NothingForeign ==
  ASSUME NEW N, NEW raw \in Seq(N), NEW e \in BOOLEAN
  PROVE  MatchSkills(raw, e) \subseteq ToSet(raw) \cup {TagOf(n, e) : n \in ToSet(raw)}
<1> DEFINE un == Unmatched(raw)
           S == ToSet(raw) \cup {TagOf(n, e) : n \in ToSet(raw)}
<1>1. un \in Seq(N) /\ ToSet(un) = {n \in ToSet(raw) : Rule[n] = NoTag}
  BY UnmatchedIs
<1>2. ASSUME NEW n \in ToSet(raw) PROVE n \in S /\ TagOf(n, e) \in S
  OBVIOUS
<1> HIDE DEF un, S
<1>3. ASSUME NEW n \in ToSet(raw), Rule[n] = NoTag, e PROVE SemanticMap(un, n) \in S
  <2>1. SemanticMap(un, n) \in {n} \cup {Closest(m) : m \in ToSet(un)}
    BY <1>1, TranslatedInto
  <2>2. ASSUME NEW m \in ToSet(un) PROVE Closest(m) = TagOf(m, e) /\ m \in ToSet(raw)
    BY <1>1, <1>3 DEF Closest, TagOf
  <2> QED
    BY <1>2, <1>3, <2>1, <2>2
<1>4. ASSUME NEW n \in ToSet(raw)
      PROVE  (IF Rule[n] # NoTag THEN Rule[n] ELSE IF e THEN SemanticMap(un, n) ELSE n) \in S
  <2>1. CASE Rule[n] # NoTag
    <3>1. Rule[n] = TagOf(n, e)
      BY <2>1 DEF TagOf
    <3> QED
      BY <1>2, <2>1, <3>1
  <2>2. CASE Rule[n] = NoTag
    BY <1>2, <1>3, <2>2
  <2> QED
    BY <2>1, <2>2
<1> QED
  BY <1>4 DEF MatchSkills, un, S

\* Unless a name without a rule stands there twice, everything they stand for is among them.
LEMMA NothingMissed ==
  ASSUME NEW N, NEW raw \in Seq(N), NEW e \in BOOLEAN, IsInjective(Unmatched(raw)), NEW m \in ToSet(raw)
  PROVE  TagOf(m, e) \in MatchSkills(raw, e)
<1> DEFINE un == Unmatched(raw)
           skill(n) == IF Rule[n] # NoTag THEN Rule[n] ELSE IF e THEN SemanticMap(un, n) ELSE n
<1>1. un \in Seq(N) /\ ToSet(un) = {n \in ToSet(raw) : Rule[n] = NoTag} /\ IsInjective(un)
  BY UnmatchedIs
<1>2. \A n \in ToSet(raw) : skill(n) \in MatchSkills(raw, e)
  BY DEF MatchSkills
<1>3. SUFFICES \E n \in ToSet(raw) : skill(n) = TagOf(m, e)
  BY <1>2
<1> HIDE DEF un
<1>4. CASE Rule[m] # NoTag \/ ~e
  BY <1>4 DEF TagOf
<1>5. CASE Rule[m] = NoTag /\ e
  <2>1. m \in ToSet(un)
    BY <1>1, <1>5
  <2>2. PICK n \in ToSet(un) : SemanticMap(un, n) = Closest(m)
    BY <1>1, <2>1, AllTranslated
  <2>3. n \in ToSet(raw) /\ skill(n) = Closest(m)
    BY <1>1, <1>5, <2>2
  <2>4. Closest(m) = TagOf(m, e)
    BY <1>5 DEF Closest, TagOf
  <2> QED
    BY <2>3, <2>4
<1> QED
  BY <1>4, <1>5

\* Who passes fits by what is known from the resume, and who fits by its tags passes.
THEOREM FilterIsFair ==
  ASSUME NEW c, NEW N, profile[c].raw \in Seq(N), profile[c].embedded \in BOOLEAN
  PROVE  /\ Passes(job, profile[c]) => Fits(c, KnownBy(c))
         /\ Fits(c, Tags(c)) /\ ~NamesRepeat(c) => Passes(job, profile[c])
<1> DEFINE raw == profile[c].raw
           e == profile[c].embedded
           text == profile[c].text
<1>1. Skills(profile[c]) = MatchSkills(raw, e)
  BY DEF Skills
<1>2. Skills(profile[c]) \cup text \subseteq KnownBy(c)
  <2>1. MatchSkills(raw, e) \subseteq ToSet(raw) \cup {TagOf(n, e) : n \in ToSet(raw)}
    BY NothingForeign
  <2>2. KnownBy(c) = ToSet(raw) \cup {TagOf(n, e) : n \in ToSet(raw)} \cup text
    BY DEF KnownBy
  <2> QED
    BY <1>1, <2>1, <2>2
<1>3. ASSUME ~NamesRepeat(c) PROVE Tags(c) \subseteq Skills(profile[c]) \cup text
  <2>1. \A m \in ToSet(raw) : TagOf(m, e) \in MatchSkills(raw, e)
    BY <1>3, NothingMissed DEF NamesRepeat
  <2>2. Tags(c) = {TagOf(n, e) : n \in ToSet(raw)} \cup text
    BY DEF Tags
  <2> QED
    BY <1>1, <2>1, <2>2
<1> DEFINE S == Skills(profile[c]) \cup text
           Meets(names) == job.skills = {} \/ \E t \in job.skills, n \in names : n = t \/ <<t, n>> \in Words
<1>4. SkillsOk(job, profile[c]) <=> Meets(S)
  BY DEF SkillsOk, SkillHit
<1>5. \A names : Fits(c, names) <=> DegreeOk(job, profile[c]) /\ YearsOk(job, profile[c]) /\ Meets(names)
  BY DEF Fits
<1>6. ASSUME NEW A, NEW B, A \subseteq B, Meets(A) PROVE Meets(B)
  BY <1>6
<1> HIDE DEF S, Meets, raw, e, text
<1>7. Meets(S) => Meets(KnownBy(c))
  BY <1>2, <1>6 DEF S
<1>8. Meets(Tags(c)) /\ ~NamesRepeat(c) => Meets(S)
  BY <1>3, <1>6 DEF S
<1> QED
  BY <1>4, <1>5, <1>7, <1>8 DEF Passes

-----------------------------------------------------------------------------
(* A batch *)

All == Ids \cup Strangers

\* What a request is.
LEMMA RequestIs ==
  ASSUME TypeOK
  PROVE  /\ request \in Seq(Seq(Ids)) /\ Payload \subseteq Ids
         /\ \A i \in DOMAIN request : /\ request[i] \in Seq(Ids) /\ IsInjective(request[i])
                                      /\ ToSet(request[i]) \subseteq Payload
<1>1. request \in Seq(Seq(Ids)) /\ \A i \in DOMAIN request : IsInjective(request[i])
  BY RoughAssumption DEF TypeOK
<1>2. \A i \in DOMAIN request : request[i] \in Seq(Ids)
  BY <1>1
<1>3. ASSUME NEW i \in DOMAIN request PROVE ToSet(request[i]) \subseteq Payload
  BY DEF Payload
<1>4. Payload \subseteq Ids
  <2>1. \A i \in DOMAIN request : ToSet(request[i]) \subseteq Ids
    <3> SUFFICES ASSUME NEW i \in DOMAIN request, NEW k \in DOMAIN request[i] PROVE request[i][k] \in Ids
      BY DEF ToSet
    <3>1. request[i] \in Seq(Ids)
      BY <1>2
    <3> QED
      BY <3>1
  <2> QED
    BY <2>1 DEF Payload
<1> QED
  BY <1>1, <1>2, <1>3, <1>4

\* The pool of a batch: those in it who pass, nobody twice.
LEMMA PoolIs ==
  ASSUME TypeOK, NEW i \in DOMAIN request
  PROVE  /\ Pool(i) \in Seq(Ids) /\ IsInjective(Pool(i))
         /\ ToSet(Pool(i)) = {c \in ToSet(request[i]) : Passes(job, profile[c])}
<1> DEFINE s == request[i]
           I == {j \in DOMAIN s : Passes(job, profile[s[j]])}
           t == Pool(i)
<1>1. s \in Seq(Ids) /\ \A j, k \in DOMAIN s : s[j] = s[k] => j = k
  BY RequestIs DEF IsInjective
<1>2. t = Kept(s, I) /\ I \in SUBSET DOMAIN s
  BY DEF Pool
<1>3. \A j \in DOMAIN s : j \in I <=> Passes(job, profile[s[j]])
  OBVIOUS
<1> HIDE DEF s, I, t
<1>4. /\ t \in Seq(Ids)
      /\ \A p \in DOMAIN t : \E j \in I : t[p] = s[j]
      /\ \A j \in I : \E p \in DOMAIN t : t[p] = s[j]
      /\ \A p, q \in DOMAIN t : t[p] = t[q] => p = q
  <2> DEFINE u == Kept(s, I)
  <2>1. \A j, k \in I : s[j] = s[k] => j = k
    BY <1>1, <1>2
  <2>2. s \in Seq(Ids) /\ I \in SUBSET DOMAIN s
    BY <1>1, <1>2
  <2>3. u \in Seq(Ids) /\ Selected(u, s, I)
    BY <2>2, KeptIs
  <2>4. t = u
    BY <1>2
  <2> HIDE DEF u
  <2> QED
    BY <2>1, <2>3, <2>4 DEF Selected
<1>5. ToSet(t) \subseteq {c \in ToSet(s) : Passes(job, profile[c])}
  BY <1>2, <1>3, <1>4 DEF ToSet
<1>6. ASSUME NEW c \in ToSet(s), Passes(job, profile[c]) PROVE c \in ToSet(t)
  <2>1. PICK j \in DOMAIN s : s[j] = c
    BY DEF ToSet
  <2>2. j \in I
    BY <1>3, <1>6, <2>1
  <2> QED
    BY <1>4, <2>1, <2>2 DEF ToSet
<1> QED
  BY <1>4, <1>5, <1>6 DEF IsInjective, s, t

\* Rows made of ids, nobody of whom stands there twice.
LEMMA RowsOf ==
  ASSUME NEW X, NEW ids \in Seq(X), IsInjective(ids), NEW t, DOMAIN t = DOMAIN ids,
         t = [i \in DOMAIN t |-> t[i]],
         \A i \in DOMAIN ids : t[i] \in [id : X, score : Int] /\ t[i].id = ids[i]
  PROVE  Rows(t, X) /\ IdsIn(t) = ToSet(ids) /\ Len(t) = Len(ids)
<1> DEFINE R == [id : X, score : Int]
<1>1. DOMAIN ids = 1..Len(ids) /\ Len(ids) \in Nat
  OBVIOUS
<1>2. \A i \in DOMAIN ids : t[i] \in R /\ t[i].id = ids[i]
  OBVIOUS
<1> HIDE DEF R
<1>3. t \in [1..Len(ids) -> R]
  BY <1>1, <1>2
<1>4. t \in Seq(R) /\ Len(t) = Len(ids)
  BY <1>1, <1>3
<1>5. \A i, j \in DOMAIN t : t[i].id = t[j].id => i = j
  BY <1>2 DEF IsInjective
<1>6. IdsIn(t) = ToSet(ids)
  BY <1>2 DEF IdsIn, ToSet
<1> QED
  BY <1>4, <1>5, <1>6 DEF Rows, R

\* The pool as it is.
LEMMA WholePoolIs ==
  ASSUME TypeOK, NEW i \in DOMAIN request
  PROVE  /\ Rows(WholePool(i), All) /\ IdsIn(WholePool(i)) = ToSet(Pool(i))
         /\ \A j \in DOMAIN WholePool(i) : WholePool(i)[j].score \in Nat
<1> DEFINE pool == Pool(i)
           t == WholePool(i)
<1>1. pool \in Seq(All) /\ IsInjective(pool)
  BY PoolIs DEF All
<1>2. t = [j \in DOMAIN pool |-> [id |-> pool[j], score |-> 0]]
  BY DEF WholePool
<1> HIDE DEF pool, t
<1>3. \A j \in DOMAIN pool : pool[j] \in All
  BY <1>1
<1>4. DOMAIN t = DOMAIN pool /\ t = [j \in DOMAIN t |-> t[j]]
  BY <1>2
<1>5. \A j \in DOMAIN pool : t[j] \in [id : All, score : Int] /\ t[j].id = pool[j] /\ t[j].score = 0
  BY <1>2, <1>3
<1>6. Rows(t, All) /\ IdsIn(t) = ToSet(pool)
  BY <1>1, <1>4, <1>5, RowsOf
<1> QED
  BY <1>4, <1>5, <1>6 DEF pool, t

\* Reciprocal ranks add up to a natural number.
LEMMA RrfIsNat ==
  ASSUME NEW X, NEW hits \in Seq(X), NEW c
  PROVE  Rrf(c, hits) \in Nat
<1> DEFINE f == [i \in DOMAIN hits |-> Reciprocal(i)]
           S == {i \in DOMAIN hits : hits[i] = c}
<1>1. DOMAIN hits = 1..Len(hits) /\ Len(hits) \in Nat
  OBVIOUS
<1>2. IsFiniteSet(S)
  <2>1. IsFiniteSet(1..Len(hits)) /\ S \in SUBSET (1..Len(hits))
    BY <1>1, FS_Interval
  <2> HIDE DEF S
  <2> QED
    BY <2>1, FS_Subset
<1>3. ASSUME NEW i \in 1..Len(hits) PROVE Reciprocal(i) \in Nat
  <2> DEFINE d == RrfK + i
  <2>1. d \in Nat /\ d > 0
    BY <1>1, RoughAssumption
  <2> HIDE DEF d
  <2>2. 1000000 \div d \in Nat
    BY <2>1
  <2> QED
    BY <2>2 DEF Reciprocal, d
<1>4. \A i \in S : f[i] \in Nat
  BY <1>1, <1>3
<1>5. Rrf(c, hits) = Sum(f, S)
  BY DEF Rrf, Sum
<1> HIDE DEF f, S
<1> QED
  BY <1>2, <1>4, <1>5, SumIsNat

\* The fusion: everybody who was recalled on either path.
LEMMA FuseIs ==
  ASSUME NEW dense \in Seq(All), NEW sparse \in Seq(All)
  PROVE  /\ Rows(Fuse(dense, sparse), All)
         /\ IdsIn(Fuse(dense, sparse)) = ToSet(dense \o sparse)
         /\ \A j \in DOMAIN Fuse(dense, sparse) : Fuse(dense, sparse)[j].score \in Nat
<1> DEFINE both == dense \o sparse
           ids == Dedupe(both)
           t == [i \in DOMAIN ids |-> [id |-> ids[i], score |-> Rrf(ids[i], dense) + Rrf(ids[i], sparse)]]
<1>1. both \in Seq(All)
  OBVIOUS
<1>a. Fuse(dense, sparse) = ByScore(t)
  BY DEF Fuse
<1> HIDE DEF both
<1>2. ids \in Seq(All) /\ ToSet(ids) = ToSet(both) /\ IsInjective(ids)
  BY <1>1, DedupeIs
<1> HIDE DEF ids
<1>3. \A i \in DOMAIN ids : ids[i] \in All
  BY <1>2
<1>4. ASSUME NEW i \in DOMAIN ids
      PROVE  t[i] \in [id : All, score : Int] /\ t[i].id = ids[i] /\ t[i].score \in Nat
  <2> DEFINE a == Rrf(ids[i], dense)
             b == Rrf(ids[i], sparse)
  <2>1. a \in Nat /\ b \in Nat
    BY RrfIsNat
  <2>2. t[i] = [id |-> ids[i], score |-> a + b]
    BY <1>4
  <2> HIDE DEF a, b, t
  <2>3. a + b \in Nat /\ a + b \in Int
    BY <2>1
  <2> QED
    BY <1>3, <1>4, <2>2, <2>3
<1>5. DOMAIN t = DOMAIN ids /\ t = [i \in DOMAIN t |-> t[i]]
  OBVIOUS
<1> HIDE DEF t
<1>6. Rows(t, All) /\ IdsIn(t) = ToSet(ids)
  BY <1>2, <1>4, <1>5, RowsOf
<1> DEFINE u == ByScore(t)
<1>s. Rows(u, All) /\ Reordered(u, t)
  BY <1>6, SortedRows
<1> HIDE DEF u
<1>7. /\ Rows(u, All)
      /\ \A p \in DOMAIN u : \E i \in DOMAIN t : u[p] = t[i]
      /\ \A i \in DOMAIN t : \E p \in DOMAIN u : u[p] = t[i]
  BY <1>s DEF Reordered
<1>8. IdsIn(u) = IdsIn(t)
  BY <1>7 DEF IdsIn
<1>9. \A p \in DOMAIN u : u[p].score \in Nat
  BY <1>4, <1>5, <1>7
<1> QED
  BY <1>a, <1>2, <1>6, <1>7, <1>8, <1>9 DEF u, both

\* What a batch finds: those recalled, or everybody in the pool when nobody was.
LEMMA FoundIs ==
  ASSUME TypeOK, NEW i \in DOMAIN request, NEW dense \in Seq(All), NEW sparse \in Seq(ToSet(Pool(i))),
         NEW found, found = Found(i, dense, sparse)
  PROVE  /\ Rows(found, All) /\ \A j \in DOMAIN found : found[j].score \in Nat
         /\ IdsIn(found) \subseteq ToSet(dense) \cup ToSet(Pool(i))
         /\ dense \o sparse = <<>> => IdsIn(found) = ToSet(Pool(i))
<1> DEFINE P == ToSet(Pool(i))
           fused == Fuse(dense, sparse)
<1>1. P \subseteq All
  BY PoolIs DEF All, ToSet
<1>2. /\ DOMAIN sparse = 1..Len(sparse) /\ Len(sparse) \in Nat /\ \A k \in 1..Len(sparse) : sparse[k] \in P
      /\ DOMAIN dense = 1..Len(dense) /\ Len(dense) \in Nat
  OBVIOUS
<1> HIDE DEF P
<1>3. sparse \in Seq(All) /\ ToSet(sparse) \subseteq P
  <2>1. sparse \in [1..Len(sparse) -> All]
    <3>1. sparse = [k \in 1..Len(sparse) |-> sparse[k]]
      OBVIOUS
    <3> QED
      BY <1>1, <1>2, <3>1
  <2>2. ToSet(sparse) \subseteq P
    BY <1>2 DEF ToSet
  <2> QED
    BY <1>2, <2>1, <2>2
<1>4. ToSet(dense \o sparse) \subseteq ToSet(dense) \cup P
  <2>1. \A k \in 1..Len(dense) + Len(sparse) :
          (dense \o sparse)[k] = IF k <= Len(dense) THEN dense[k] ELSE sparse[k - Len(dense)]
    BY <1>3
  <2>2. DOMAIN (dense \o sparse) = 1..Len(dense) + Len(sparse)
    BY <1>3
  <2>3. ASSUME NEW k \in 1..Len(dense) + Len(sparse) PROVE (dense \o sparse)[k] \in ToSet(dense) \cup P
    <3>1. CASE k <= Len(dense)
      BY <1>2, <2>1, <3>1 DEF ToSet
    <3>2. CASE ~(k <= Len(dense))
      <4>1. k - Len(dense) \in 1..Len(sparse)
        BY <1>2, <3>2
      <4> QED
        BY <1>2, <2>1, <3>2, <4>1
    <3> QED
      BY <3>1, <3>2
  <2> QED
    BY <2>2, <2>3 DEF ToSet
<1>5. Rows(fused, All) /\ IdsIn(fused) = ToSet(dense \o sparse) /\ \A j \in DOMAIN fused : fused[j].score \in Nat
  BY <1>3, FuseIs
<1>6. found = IF fused = <<>> THEN WholePool(i) ELSE fused
  BY DEF Found
<1> HIDE DEF fused
<1>7. CASE fused = <<>>
  BY <1>6, <1>7, WholePoolIs DEF P
<1>8. CASE fused # <<>>
  <2>1. dense \o sparse # <<>>
    <3>1. SUFFICES ASSUME dense \o sparse = <<>> PROVE FALSE
      OBVIOUS
    <3>2. IdsIn(fused) = {}
      BY <1>5, <3>1 DEF ToSet
    <3>3. Len(fused) = 0
      BY <1>5, <3>2, RowsCounted, FS_EmptySet
    <3> QED
      BY <1>5, <1>8, <3>3 DEF Rows
  <2> QED
    BY <1>4, <1>5, <1>6, <1>8, <2>1 DEF P
<1> QED
  BY <1>7, <1>8

-----------------------------------------------------------------------------
(* Merging *)

\* Rows of different people, one after the other.
LEMMA ConcatRows ==
  ASSUME NEW X, NEW a, Rows(a, X), NEW b, Rows(b, X), IdsIn(a) \cap IdsIn(b) = {}
  PROVE  /\ Rows(a \o b, X) /\ IdsIn(a \o b) = IdsIn(a) \cup IdsIn(b)
         /\ \A p \in DOMAIN (a \o b) : \/ \E i \in DOMAIN a : (a \o b)[p] = a[i]
                                       \/ \E i \in DOMAIN b : (a \o b)[p] = b[i]
<1> DEFINE R == [id : X, score : Int]
           n == Len(a)
           k == Len(b)
           t == a \o b
<1>1. /\ a \in Seq(R) /\ b \in Seq(R)
      /\ n \in Nat /\ k \in Nat /\ DOMAIN a = 1..n /\ DOMAIN b = 1..k
      /\ \A i, j \in 1..n : a[i].id = a[j].id => i = j
      /\ \A i, j \in 1..k : b[i].id = b[j].id => i = j
  BY RowsAre DEF Rows
<1> HIDE DEF R
<1>2. /\ t \in Seq(R) /\ DOMAIN t = 1..n + k
      /\ \A p \in 1..n + k : t[p] = IF p <= n THEN a[p] ELSE b[p - n]
  BY <1>1
<1>d. DOMAIN a = 1..n /\ DOMAIN b = 1..k
  BY <1>1
<1> HIDE DEF n, k, t
<1>e. /\ DOMAIN t = 1..n + k
      /\ \A i \in 1..n : a[i].id \in IdsIn(a)
      /\ \A i \in 1..k : b[i].id \in IdsIn(b)
      /\ \A p \in 1..n + k : t[p].id \in IdsIn(t)
  BY <1>2, <1>d DEF IdsIn
<1>3. \A p \in 1..n : t[p] = a[p] /\ p \in 1..n + k
  BY <1>1, <1>2
<1>4. \A i \in 1..k : t[n + i] = b[i] /\ n + i \in 1..n + k
  BY <1>1, <1>2
<1>5. ASSUME NEW p \in 1..n + k PROVE p \in 1..n \/ \E i \in 1..k : p = n + i
  <2>1. CASE p <= n
    BY <1>1, <2>1
  <2>2. CASE ~(p <= n)
    <3>1. p - n \in 1..k /\ p = n + (p - n)
      BY <1>1, <2>2
    <3> QED
      BY <3>1
  <2> QED
    BY <2>1, <2>2
<1>6. IdsIn(t) = IdsIn(a) \cup IdsIn(b)
  <2>a. \A i \in 1..n : a[i].id \in IdsIn(t)
    BY <1>3, <1>e
  <2>b. \A i \in 1..k : b[i].id \in IdsIn(t)
    BY <1>4, <1>e
  <2>1. IdsIn(a) \subseteq IdsIn(t) /\ IdsIn(b) \subseteq IdsIn(t)
    BY <1>d, <2>a, <2>b DEF IdsIn
  <2>2. ASSUME NEW p \in 1..n + k PROVE t[p].id \in IdsIn(a) \cup IdsIn(b)
    <3>1. CASE p \in 1..n
      BY <1>3, <1>e, <3>1
    <3>2. CASE \E i \in 1..k : p = n + i
      BY <1>4, <1>e, <3>2
    <3> QED
      BY <1>5, <3>1, <3>2
  <2>3. IdsIn(t) \subseteq IdsIn(a) \cup IdsIn(b)
    BY <1>e, <2>2 DEF IdsIn
  <2> QED
    BY <2>1, <2>3
<1>7. ASSUME NEW p \in 1..n + k, NEW q \in 1..n + k, t[p].id = t[q].id PROVE p = q
  <2>1. CASE p \in 1..n /\ q \in 1..n
    BY <1>1, <1>3, <1>7, <2>1
  <2>2. CASE p \in 1..n /\ q \notin 1..n
    <3>1. PICK i \in 1..k : q = n + i
      BY <1>5, <2>2
    <3> QED
      BY <1>3, <1>4, <1>7, <2>2, <1>e, <3>1
  <2>3. CASE p \notin 1..n /\ q \in 1..n
    <3>1. PICK i \in 1..k : p = n + i
      BY <1>5, <2>3
    <3> QED
      BY <1>3, <1>4, <1>7, <2>3, <1>e, <3>1
  <2>4. CASE p \notin 1..n /\ q \notin 1..n
    <3>1. PICK i \in 1..k : p = n + i
      BY <1>5, <2>4
    <3>2. PICK j \in 1..k : q = n + j
      BY <1>5, <2>4
    <3>3. b[i].id = b[j].id
      BY <1>4, <1>7, <3>1, <3>2
    <3> QED
      BY <1>1, <3>1, <3>2, <3>3
  <2> QED
    BY <2>1, <2>2, <2>3, <2>4
<1>8. \A p \in DOMAIN t : (\E i \in DOMAIN a : t[p] = a[i]) \/ \E i \in DOMAIN b : t[p] = b[i]
  <2> SUFFICES ASSUME NEW p \in 1..n + k
               PROVE  (\E i \in 1..n : t[p] = a[i]) \/ \E i \in 1..k : t[p] = b[i]
    BY <1>d, <1>e
  <2>1. CASE p \in 1..n
    BY <1>3, <2>1
  <2>2. CASE \E i \in 1..k : p = n + i
    BY <1>4, <2>2
  <2> QED
    BY <1>5, <2>1, <2>2
<1>9. Rows(t, X)
  BY <1>2, <1>7 DEF Rows, R
<1> QED
  BY <1>6, <1>8, <1>9 DEF t

Higher(x, y) == IF y > x THEN y ELSE x

\* The score of a candidate in rows, 0 for nobody.
ScoreIn(s, c) == IF c \in IdsIn(s) THEN s[CHOOSE i \in DOMAIN s : s[i].id = c].score ELSE 0

\* A row says the score of its candidate.
LEMMA ScoreIs ==
  ASSUME NEW X, NEW s, Rows(s, X), NEW i \in DOMAIN s
  PROVE  s[i].id \in IdsIn(s) /\ ScoreIn(s, s[i].id) = s[i].score
<1> DEFINE k == CHOOSE j \in DOMAIN s : s[j].id = s[i].id
<1>1. k \in DOMAIN s /\ s[k].id = s[i].id
  OBVIOUS
<1>2. s[i].id \in IdsIn(s)
  BY DEF IdsIn
<1>3. ScoreIn(s, s[i].id) = s[k].score
  BY <1>2 DEF ScoreIn
<1> HIDE DEF k
<1>4. k = i
  BY <1>1 DEF Rows
<1> QED
  BY <1>2, <1>3, <1>4

\* Merged are those of both, with the higher score.
LEMMA MergeIs ==
  ASSUME NEW X, NEW old, Rows(old, X), NEW new, Rows(new, X),
         \A i \in DOMAIN old : old[i].score \in Nat, \A i \in DOMAIN new : new[i].score \in Nat,
         NEW t, t = Merge(old, new)
  PROVE  /\ Rows(t, X) /\ IdsIn(t) = IdsIn(old) \cup IdsIn(new)
         /\ \A i \in DOMAIN t : t[i].score = Higher(ScoreIn(old, t[i].id), ScoreIn(new, t[i].id))
<1> DEFINE R == [id : X, score : Int]
           better(i) == {j \in DOMAIN new : new[j].id = old[i].id /\ new[j].score > old[i].score}
           a == [i \in DOMAIN old |-> IF better(i) = {} THEN old[i] ELSE new[CHOOSE j \in better(i) : TRUE]]
           J == {j \in DOMAIN new : new[j].id \notin IdsIn(old)}
           b == Kept(new, J)
<1>1. t = a \o b
  BY DEF Merge
<1>2. /\ Len(old) \in Nat /\ DOMAIN old = 1..Len(old)
      /\ \A i \in DOMAIN old : old[i] \in R /\ old[i].score \in Nat
      /\ \A i, j \in DOMAIN old : old[i].id = old[j].id => i = j
      /\ \A j \in DOMAIN new : new[j] \in R /\ new[j].score \in Nat
  <2>1. /\ Len(old) \in Nat /\ DOMAIN old = 1..Len(old) /\ \A i \in 1..Len(old) : old[i] \in R
        /\ \A i, j \in 1..Len(old) : old[i].id = old[j].id => i = j
    BY RowsAre
  <2>2. DOMAIN new = 1..Len(new) /\ \A j \in 1..Len(new) : new[j] \in R
    BY RowsAre
  <2> HIDE DEF R
  <2> QED
    BY <2>1, <2>2
<1>3. ASSUME NEW i \in DOMAIN old
      PROVE  /\ a[i] \in R /\ a[i].id = old[i].id
             /\ a[i].score = Higher(ScoreIn(old, old[i].id), ScoreIn(new, old[i].id))
  <2>0. ScoreIn(old, old[i].id) = old[i].score /\ old[i].score \in Nat
    BY <1>2, ScoreIs
  <2>1. CASE better(i) = {}
    <3>1. a[i] = old[i]
      BY <2>1
    <3>2. CASE old[i].id \in IdsIn(new)
      <4>1. PICK j \in DOMAIN new : new[j].id = old[i].id
        BY <3>2 DEF IdsIn
      <4>2. ScoreIn(new, old[i].id) = new[j].score /\ new[j].score \in Nat
        BY <1>2, <4>1, ScoreIs
      <4>3. ~(new[j].score > old[i].score)
        BY <2>1, <4>1
      <4> QED
        BY <1>2, <2>0, <3>1, <4>2, <4>3 DEF Higher
    <3>3. CASE old[i].id \notin IdsIn(new)
      <4>1. ScoreIn(new, old[i].id) = 0
        BY <3>3 DEF ScoreIn
      <4> QED
        BY <1>2, <2>0, <3>1, <4>1 DEF Higher
    <3> QED
      BY <3>2, <3>3
  <2>2. CASE better(i) # {}
    <3> DEFINE j == CHOOSE j \in better(i) : TRUE
    <3>1. j \in better(i)
      BY <2>2
    <3>2. a[i] = new[j]
      BY <2>2
    <3> HIDE DEF j, a
    <3>3. j \in DOMAIN new /\ new[j].id = old[i].id /\ new[j].score > old[i].score
      BY <3>1
    <3>4. ScoreIn(new, old[i].id) = new[j].score
      BY <3>3, ScoreIs
    <3> QED
      BY <1>2, <2>0, <3>2, <3>3, <3>4 DEF Higher
  <2> QED
    BY <2>1, <2>2
<1>4. DOMAIN a = DOMAIN old /\ a = [i \in 1..Len(old) |-> a[i]]
  BY <1>2
<1>5. J \in SUBSET DOMAIN new /\ \A j \in J : new[j].id \notin IdsIn(old)
  OBVIOUS
<1>c. \A j \in DOMAIN new : j \in J \/ new[j].id \in IdsIn(old)
  OBVIOUS
<1> HIDE DEF a, J, b, better, R
<1>6. Rows(a, X)
  <2>1. a \in [1..Len(old) -> R]
    BY <1>2, <1>3, <1>4
  <2>2. a \in Seq(R)
    BY <1>2, <2>1
  <2>3. \A i, j \in DOMAIN a : a[i].id = a[j].id => i = j
    BY <1>2, <1>3, <1>4
  <2> QED
    BY <2>2, <2>3 DEF Rows, R
<1>7. IdsIn(a) = IdsIn(old)
  BY <1>3, <1>4 DEF IdsIn
<1>8. /\ Rows(b, X)
      /\ \A p \in DOMAIN b : \E j \in J : b[p] = new[j]
      /\ \A j \in J : \E p \in DOMAIN b : b[p] = new[j]
  <2>1. Rows(b, X) /\ Selected(b, new, J)
    BY <1>5, KeptRows DEF b
  <2> QED
    BY <2>1 DEF Selected
<1>9. \A c \in IdsIn(b) : c \notin IdsIn(old) /\ c \in IdsIn(new)
  BY <1>5, <1>8 DEF IdsIn
<1>10. \A c \in IdsIn(new) : c \in IdsIn(old) \/ c \in IdsIn(b)
  BY <1>5, <1>8, <1>c DEF IdsIn
<1>11. /\ Rows(t, X) /\ IdsIn(t) = IdsIn(a) \cup IdsIn(b)
       /\ \A p \in DOMAIN t : (\E i \in DOMAIN a : t[p] = a[i]) \/ \E i \in DOMAIN b : t[p] = b[i]
  <2>1. IdsIn(a) \cap IdsIn(b) = {}
    BY <1>7, <1>9
  <2> QED
    BY <1>1, <1>6, <1>8, <2>1, ConcatRows
<1>12. IdsIn(t) = IdsIn(old) \cup IdsIn(new)
  BY <1>7, <1>9, <1>10, <1>11
<1>13. ASSUME NEW p \in DOMAIN t
       PROVE  t[p].score = Higher(ScoreIn(old, t[p].id), ScoreIn(new, t[p].id))
  <2>1. CASE \E i \in DOMAIN a : t[p] = a[i]
    BY <1>3, <1>4, <2>1
  <2>2. CASE \E i \in DOMAIN b : t[p] = b[i]
    <3>1. PICK i \in DOMAIN b : t[p] = b[i]
      BY <2>2
    <3>2. PICK j \in J : b[i] = new[j]
      BY <1>8
    <3>3. ScoreIn(new, t[p].id) = t[p].score /\ t[p].score \in Nat
      BY <1>2, <1>5, <3>1, <3>2, ScoreIs
    <3>4. ScoreIn(old, t[p].id) = 0
      BY <1>5, <3>1, <3>2 DEF ScoreIn
    <3> QED
      BY <3>3, <3>4 DEF Higher
  <2> QED
    BY <1>11, <2>1, <2>2
<1> QED
  BY <1>11, <1>12, <1>13

\* The best score of a candidate after a batch.
LEMMA BestIs ==
  ASSUME NEW found, Rows(found, All), \A i \in DOMAIN found : found[i].score \in Nat, NEW c, NEW b \in Nat
  PROVE  Max({b} \cup {found[j].score : j \in {k \in DOMAIN found : found[k].id = c}})
           = Higher(b, ScoreIn(found, c))
<1> DEFINE K == {k \in DOMAIN found : found[k].id = c}
           S == {b} \cup {found[j].score : j \in K}
<1>1. CASE c \in IdsIn(found)
  <2>1. PICK k \in DOMAIN found : found[k].id = c
    BY <1>1 DEF IdsIn
  <2> DEFINE v == found[k].score
  <2>2. ScoreIn(found, c) = v /\ v \in Nat
    BY <2>1, ScoreIs
  <2>3. K = {k}
    BY <2>1 DEF Rows
  <2>4. S = {b, v}
    BY <2>3
  <2> HIDE DEF S, v
  <2>5. Max({b, v}) = Higher(b, v)
    <3>1. CASE v > b
      <4>1. \A x \in {b, v} : (\A y \in {b, v} : x >= y) => x = v
        BY <2>2, <3>1
      <4>2. \A y \in {b, v} : v >= y
        BY <2>2, <3>1
      <4>3. Max({b, v}) = v
        BY <4>1, <4>2 DEF Max
      <4> QED
        BY <3>1, <4>3 DEF Higher
    <3>2. CASE ~(v > b)
      <4>1. \A x \in {b, v} : (\A y \in {b, v} : x >= y) => x = b
        BY <2>2, <3>2
      <4>2. \A y \in {b, v} : b >= y
        BY <2>2, <3>2
      <4>3. Max({b, v}) = b
        BY <4>1, <4>2 DEF Max
      <4> QED
        BY <3>2, <4>3 DEF Higher
    <3> QED
      BY <3>1, <3>2
  <2> QED
    BY <2>2, <2>4, <2>5 DEF S
<1>2. CASE c \notin IdsIn(found)
  <2>1. K = {}
    BY <1>2 DEF IdsIn
  <2>2. S = {b}
    BY <2>1
  <2> HIDE DEF S
  <2>3. Max({b}) = b
    BY DEF Max
  <2>4. ScoreIn(found, c) = 0
    BY <1>2 DEF ScoreIn
  <2> QED
    BY <2>2, <2>3, <2>4 DEF Higher, S
<1> QED
  BY <1>1, <1>2

-----------------------------------------------------------------------------
(* The final ranking *)

\* The smaller of two numbers.
LEMMA MinIs ==
  ASSUME NEW a \in Nat, NEW b \in Nat
  PROVE  /\ Min({a, b}) \in Nat /\ Min({a, b}) <= a /\ Min({a, b}) <= b
         /\ Min({a, b}) # a => Min({a, b}) = b
<1> DEFINE m == IF a < b THEN a ELSE b
<1>1. m \in {a, b} /\ \A y \in {a, b} : m <= y
  OBVIOUS
<1>2. \A x \in {a, b} : (\A y \in {a, b} : x <= y) => x = m
  OBVIOUS
<1>3. Min({a, b}) = CHOOSE x \in {a, b} : \A y \in {a, b} : x <= y
  BY DEF Min
<1> HIDE DEF m
<1>4. Min({a, b}) = m
  BY <1>1, <1>2, <1>3
<1> QED
  BY <1>1, <1>4

\* t is as many as m of the first of s.
FirstOf(t, s, m) ==
  /\ Len(t) <= m
  /\ \A p \in DOMAIN t : p \in DOMAIN s /\ t[p] = s[p]
  /\ \A p \in DOMAIN s : p \in DOMAIN t \/ (Len(t) = m /\ p > m)

\* The first k of a sequence.
LEMMA SubSeqIs ==
  ASSUME NEW R, NEW s \in Seq(R), NEW k \in Nat, k <= Len(s)
  PROVE  SubSeq(s, 1, k) \in Seq(R) /\ Len(SubSeq(s, 1, k)) = k /\ \A p \in 1..k : SubSeq(s, 1, k)[p] = s[p]
<1>1. \A p \in 1..k : s[p] \in R
  OBVIOUS
<1>2. /\ SubSeq(s, 1, k) \in Seq(R)
      /\ Len(SubSeq(s, 1, k)) = IF 1 <= k THEN k - 1 + 1 ELSE 0
      /\ \A p \in 1..k - 1 + 1 : SubSeq(s, 1, k)[p] = s[1 + p - 1]
  BY <1>1, SubSeqProperties
<1>3. (IF 1 <= k THEN k - 1 + 1 ELSE 0) = k /\ k - 1 + 1 = k /\ \A p \in 1..k : 1 + p - 1 = p
  OBVIOUS
<1> DEFINE t == SubSeq(s, 1, k)
<1>4. t \in Seq(R) /\ Len(t) = (IF 1 <= k THEN k - 1 + 1 ELSE 0) /\ \A p \in 1..k - 1 + 1 : t[p] = s[1 + p - 1]
  BY <1>2
<1> HIDE DEF t
<1>5. t \in Seq(R) /\ Len(t) = k /\ \A p \in 1..k : t[p] = s[p]
  BY <1>3, <1>4
<1> QED
  BY <1>5 DEF t

\* The first k rows are rows.
LEMMA PrefixRows ==
  ASSUME NEW X, NEW s, Rows(s, X), NEW m \in Nat, NEW k \in Nat, k <= m, k <= Len(s), k # m => k = Len(s),
         NEW t, Len(t) = k, DOMAIN t = 1..k, t \in Seq([id : X, score : Int]), \A p \in 1..k : t[p] = s[p]
  PROVE  Rows(t, X) /\ FirstOf(t, s, m)
<1> DEFINE R == [id : X, score : Int]
           n == Len(s)
<1>1. n \in Nat /\ DOMAIN s = 1..n /\ \A i, j \in 1..n : s[i].id = s[j].id => i = j
  BY RowsAre
<1>2. k <= n /\ (k # m => k = n) /\ t \in Seq(R)
  OBVIOUS
<1> HIDE DEF R, n
<1>3. \A p \in 1..k : p \in 1..n
  BY <1>1, <1>2
<1>4. ASSUME NEW i \in 1..k, NEW j \in 1..k, t[i].id = t[j].id PROVE i = j
  <2>1. s[i].id = s[j].id
    BY <1>4
  <2> QED
    BY <1>1, <1>3, <2>1
<1>5. \A p \in 1..n : p \in 1..k \/ (k = m /\ p > m)
  BY <1>1, <1>2
<1>6. FirstOf(t, s, m)
  BY <1>1, <1>3, <1>5 DEF FirstOf
<1>7. Rows(t, X)
  BY <1>2, <1>4 DEF Rows, R
<1> QED
  BY <1>6, <1>7

\* The first rows, as many as m.
LEMMA FirstRows ==
  ASSUME NEW X, NEW s, Rows(s, X), NEW m \in Nat
  PROVE  /\ Rows(SubSeq(s, 1, Min({m, Len(s)})), X)
         /\ FirstOf(SubSeq(s, 1, Min({m, Len(s)})), s, m)
<1> DEFINE R == [id : X, score : Int]
           k == Min({m, Len(s)})
           t == SubSeq(s, 1, k)
<1>1. s \in Seq(R) /\ Len(s) \in Nat
  BY RowsAre DEF Rows
<1>2. k \in Nat /\ k <= m /\ k <= Len(s) /\ (k # m => k = Len(s))
  BY <1>1, MinIs
<1> HIDE DEF R, k
<1>3. t \in Seq(R) /\ Len(t) = k /\ \A p \in 1..k : t[p] = s[p]
  BY <1>1, <1>2, SubSeqIs
<1> HIDE DEF t
<1>4. DOMAIN t = 1..k
  BY <1>3
<1>5. t \in Seq([id : X, score : Int])
  BY <1>3 DEF R
<1>6. Rows(t, X) /\ FirstOf(t, s, m)
  BY <1>2, <1>3, <1>4, <1>5, PrefixRows
<1> QED
  BY <1>6 DEF t, k

\* As many go to the model as at least one.
LEMMA TopNIs ==
  ASSUME TypeOK
  PROVE  TopN \in Nat
<1>1. setting.factor \in Nat /\ MaxCandidates \in Nat
  BY RoughAssumption DEF TypeOK
<1>2. \A a, b \in Nat : Max({a, b}) \in Nat
  <2> TAKE a \in Nat, b \in Nat
  <2> DEFINE m == IF a < b THEN b ELSE a
  <2>1. m \in {a, b} /\ \A y \in {a, b} : m >= y
    OBVIOUS
  <2>2. Max({a, b}) = CHOOSE x \in {a, b} : \A y \in {a, b} : x >= y
    BY DEF Max
  <2> HIDE DEF m
  <2>3. Max({a, b}) \in {a, b}
    BY <2>1, <2>2
  <2> QED
    BY <2>3
<1> DEFINE f == IF Mode = "cosine" THEN Max({setting.factor, 4}) ELSE setting.factor
           m == MaxCandidates * f
<1>3. f \in Nat
  BY <1>1, <1>2
<1>4. TopN = Max({1, m})
  BY DEF TopN
<1> HIDE DEF f
<1>5. m \in Nat
  BY <1>1, <1>3
<1> HIDE DEF m
<1> QED
  BY <1>2, <1>4, <1>5

\* Who stands beyond the first m rows by score has m others ahead.
LEMMA AheadCounted ==
  ASSUME Rows(merged, All), \A i \in DOMAIN merged : merged[i].score = best[merged[i].id],
         NEW m \in Nat, NEW q \in DOMAIN ByScore(merged), q > m
  PROVE  Cardinality(Ahead(ByScore(merged)[q].id)) >= m
<1> DEFINE s == ByScore(merged)
           c == s[q].id
           A == Ahead(c)
           f == [p \in 1..m |-> s[p].id]
           n == Len(s)
<1>1. /\ Rows(s, All)
      /\ \A p \in DOMAIN s : \E i \in DOMAIN merged : s[p] = merged[i]
      /\ \A p, r \in DOMAIN s : p <= r => s[p].score >= s[r].score
  <2>1. Rows(s, All) /\ Reordered(s, merged)
    BY SortedRows
  <2> HIDE DEF s
  <2> QED
    BY <2>1 DEF Reordered
<1>2. n \in Nat /\ DOMAIN s = 1..n /\ \A i, j \in 1..n : s[i].id = s[j].id => i = j
  BY <1>1, RowsAre
<1>q. q \in 1..n
  BY <1>2
<1> HIDE DEF s, n
<1>3. \A p \in 1..n : s[p].id \in IdsIn(merged) /\ s[p].score = best[s[p].id]
  BY <1>1, <1>2 DEF IdsIn
<1>4. \A p \in 1..m : p \in 1..n /\ p # q /\ p <= q
  BY <1>2, <1>q
<1>5. ASSUME NEW p \in 1..m PROVE s[p].id \in A
  <2>1. s[p].id # c
    BY <1>2, <1>4, <1>q
  <2>2. best[s[p].id] >= best[c]
    BY <1>1, <1>2, <1>3, <1>4, <1>q
  <2> QED
    BY <1>3, <1>4, <2>1, <2>2 DEF Ahead
<1>6. f \in Injection(1..m, A)
  <2>1. f \in [1..m -> A]
    BY <1>5
  <2>2. \A p, r \in 1..m : f[p] = f[r] => p = r
    BY <1>2, <1>4
  <2> QED
    BY <2>1, <2>2 DEF Injection, IsInjective
<1>7. IsFiniteSet(A)
  <2>1. A \in SUBSET IdsIn(merged)
    BY DEF Ahead
  <2> HIDE DEF A
  <2> QED
    BY <2>1, RowsCounted, FS_Subset
<1>8. Cardinality(1..m) = m
  BY FS_Interval
<1> HIDE DEF f, A
<1>9. Cardinality(1..m) <= Cardinality(A)
  BY <1>6, <1>7, FS_Injection
<1>10. Cardinality(A) \in Nat
  BY <1>7, FS_CardinalityType
<1> QED
  BY <1>8, <1>9, <1>10 DEF A, s

\* Who goes to the model: people of the request that were recalled; who of them does not has as many
\* ahead as go.
LEMMA PairsIs ==
  ASSUME TypeOK, MergedIsBest, NEW ids, ids = Pairs
  PROVE  /\ ids \in Seq(Payload) /\ IsInjective(ids)
         /\ ToSet(ids) \subseteq Payload \cap IdsIn(merged)
         /\ \A c \in Payload : Recalled(c) /\ c \notin ToSet(ids) => Cardinality(Ahead(c)) >= TopN
<1> DEFINE s == ByScore(merged)
           a == SubSeq(s, 1, Min({TopN, Len(merged)}))
           list == [i \in DOMAIN a |-> a[i].id]
           I == {i \in DOMAIN a : a[i].id \in Payload}
<1>1. Rows(merged, All) /\ \A i \in DOMAIN merged : merged[i].score = best[merged[i].id]
  BY DEF MergedIsBest, Rows, All
<1>2. /\ Rows(s, All) /\ Len(s) = Len(merged)
      /\ \A p \in DOMAIN s : \E i \in DOMAIN merged : s[p] = merged[i]
      /\ \A i \in DOMAIN merged : \E p \in DOMAIN s : s[p] = merged[i]
  <2>1. Rows(s, All) /\ Len(s) = Len(merged) /\ Reordered(s, merged)
    BY <1>1, SortedRows
  <2> HIDE DEF s
  <2> QED
    BY <2>1 DEF Reordered
<1>3. ids = Kept(list, I)
  BY DEF Pairs
<1>t. TopN \in Nat
  BY TopNIs
<1>4. /\ Rows(a, All)
      /\ \A p \in DOMAIN a : p \in DOMAIN s /\ a[p] = s[p]
      /\ \A p \in DOMAIN s : p \in DOMAIN a \/ p > TopN
  <2> HIDE DEF s
  <2>1. a = SubSeq(s, 1, Min({TopN, Len(s)}))
    BY <1>2
  <2>2. Rows(s, All)
    BY <1>2
  <2> HIDE DEF a
  <2>3. Rows(a, All) /\ FirstOf(a, s, TopN)
    BY <1>t, <2>1, <2>2, FirstRows
  <2> HIDE DEF s
  <2> QED
    BY <2>3 DEF FirstOf
<1>5. \A p \in DOMAIN a : a[p].id \in IdsIn(merged)
  BY <1>2, <1>4 DEF IdsIn
<1>6. /\ Len(a) \in Nat /\ DOMAIN a = 1..Len(a) /\ (\A i \in DOMAIN a : a[i].id \in All)
      /\ \A i, j \in DOMAIN a : a[i].id = a[j].id => i = j
  <2> HIDE DEF a
  <2> QED
    BY <1>4, RowsAre
<1>7. I \in SUBSET DOMAIN a /\ \A i \in DOMAIN a : i \in I <=> a[i].id \in Payload
  OBVIOUS
<1>l. DOMAIN list = DOMAIN a /\ \A i \in DOMAIN a : list[i] = a[i].id
  OBVIOUS
<1>s. list = [i \in 1..Len(a) |-> list[i]]
  BY <1>6
<1> HIDE DEF a, I, list
<1>8. list \in Seq(All)
  <2>1. list \in [1..Len(a) -> All]
    BY <1>6, <1>l, <1>s
  <2> QED
    BY <1>6, <2>1
<1>9. /\ ids \in Seq(All)
      /\ \A p \in DOMAIN ids : \E i \in I : ids[p] = list[i]
      /\ \A i \in I : \E p \in DOMAIN ids : ids[p] = list[i]
      /\ \A p, q \in DOMAIN ids : ids[p] = ids[q] => p = q
  <2>1. I \in SUBSET DOMAIN list
    BY <1>7, <1>l
  <2>2. \A i, j \in I : list[i] = list[j] => i = j
    BY <1>6, <1>7, <1>l
  <2> DEFINE u == Kept(list, I)
  <2>3. u \in Seq(All) /\ Selected(u, list, I)
    BY <1>8, <2>1, KeptIs
  <2>4. ids = u
    BY <1>3
  <2> HIDE DEF u
  <2> QED
    BY <2>2, <2>3, <2>4 DEF Selected
<1>10. \A p \in DOMAIN ids : ids[p] \in Payload /\ ids[p] \in IdsIn(merged)
  BY <1>5, <1>7, <1>9, <1>l
<1>11. ids \in Seq(Payload)
  <2>1. DOMAIN ids = 1..Len(ids) /\ Len(ids) \in Nat /\ ids = [p \in 1..Len(ids) |-> ids[p]]
    BY <1>9
  <2>2. ids \in [1..Len(ids) -> Payload]
    BY <1>10, <2>1
  <2> QED
    BY <2>1, <2>2
<1>12. ASSUME NEW c \in Payload, Recalled(c), c \notin ToSet(ids) PROVE Cardinality(Ahead(c)) >= TopN
  <2>1. PICK i \in DOMAIN merged : merged[i].id = c
    BY <1>12 DEF Recalled, IdsIn
  <2>2. PICK q \in DOMAIN s : s[q] = merged[i]
    BY <1>2
  <2>3. q \notin DOMAIN a
    <3>1. SUFFICES ASSUME q \in DOMAIN a PROVE FALSE
      OBVIOUS
    <3>2. a[q].id = c
      BY <1>4, <2>1, <2>2, <3>1
    <3>3. q \in I /\ list[q] = c
      BY <1>7, <1>12, <1>l, <3>1, <3>2
    <3>4. c \in ToSet(ids)
      BY <1>9, <3>3 DEF ToSet
    <3> QED
      BY <1>12, <3>4
  <2>4. q > TopN
    BY <1>4, <2>3
  <2>5. Cardinality(Ahead(s[q].id)) >= TopN
    BY <1>1, <1>t, <2>4, AheadCounted
  <2>6. s[q].id = c
    BY <2>1, <2>2
  <2> QED
    BY <2>5, <2>6
<1> QED
  BY <1>9, <1>10, <1>11, <1>12 DEF IsInjective, ToSet

\* What is to be reached is a number.
LEMMA MarkIs ==
  PassMark \in Int
<1>1. Threshold["cosine"] \in Int /\ Threshold["cross_encoder"] \in Int
  BY RoughAssumption
<1> QED
  BY <1>1 DEF PassMark

\* Final scores are numbers, one for each who went to the model.
LEMMA ScoresAre ==
  ASSUME TypeOK, NEW ids \in SUBSET Payload, NEW s, NEW score \in Scores(s, ids)
  PROVE  score \in [ids -> Int]
<1>1. CASE s = "rrf"
  <2>1. score = [c \in ids |-> Rounded(best[c])]
    BY <1>1 DEF Scores
  <2>2. ASSUME NEW c \in ids PROVE Rounded(best[c]) \in Int
    <3> DEFINE b == best[c]
    <3>1. b \in Nat
      <4>1. c \in Ids \cup Strangers
        BY RequestIs
      <4>2. best \in [Ids \cup Strangers -> Nat]
        BY DEF TypeOK
      <4> QED
        BY <4>1, <4>2
    <3> HIDE DEF b
    <3>2. (b + 50) \div 100 \in Int
      BY <3>1
    <3> QED
      BY <3>2 DEF Rounded, b
  <2> QED
    BY <2>1, <2>2
<1>2. CASE s # "rrf"
  <2>1. score \in [ids -> Values]
    BY <1>2 DEF Scores
  <2> QED
    BY <2>1, RoughAssumption
<1> QED
  BY <1>1, <1>2

\* Who passes the threshold, with the score: everybody after a fusion.
LEMMA PassingIs ==
  ASSUME NEW X, NEW ids \in Seq(X), IsInjective(ids), NEW s, NEW score \in [ToSet(ids) -> Int],
         NEW t, t = Passing(ids, s, score)
  PROVE  /\ Rows(t, X)
         /\ \A p \in DOMAIN t : /\ t[p].id \in ToSet(ids) /\ t[p].score = score[t[p].id]
                                /\ s # "rrf" => t[p].score >= PassMark
         /\ \A c \in ToSet(ids) \ IdsIn(t) : s # "rrf" /\ score[c] < PassMark
<1> DEFINE rows == [i \in DOMAIN ids |-> [id |-> ids[i], score |-> score[ids[i]]]]
           I == {i \in DOMAIN rows : s = "rrf" \/ rows[i].score >= PassMark}
<1>1. t = Kept(rows, I) /\ DOMAIN rows = DOMAIN ids /\ rows = [i \in DOMAIN rows |-> rows[i]]
  BY DEF Passing
<1>2. \A i \in DOMAIN ids : ids[i] \in X /\ ids[i] \in ToSet(ids)
  BY DEF ToSet
<1>3. \A i \in DOMAIN ids : score[ids[i]] \in Int
  BY <1>2
<1>4. \A i \in DOMAIN ids : rows[i].id = ids[i] /\ rows[i].score = score[ids[i]]
  OBVIOUS
<1>5. \A i \in DOMAIN ids : rows[i] \in [id : X, score : Int]
  BY <1>2, <1>3
<1>6. I \in SUBSET DOMAIN rows /\ \A i \in DOMAIN rows : i \in I <=> (s = "rrf" \/ rows[i].score >= PassMark)
  OBVIOUS
<1> HIDE DEF rows, I
<1>7. Rows(rows, X)
  BY <1>1, <1>4, <1>5, RowsOf
<1>8. /\ Rows(t, X)
      /\ \A p \in DOMAIN t : \E i \in I : t[p] = rows[i]
      /\ \A i \in I : \E p \in DOMAIN t : t[p] = rows[i]
  <2>1. Rows(t, X) /\ Selected(t, rows, I)
    BY <1>1, <1>6, <1>7, KeptRows
  <2> QED
    BY <2>1 DEF Selected
<1>9. ASSUME NEW c \in ToSet(ids), c \notin IdsIn(t) PROVE s # "rrf" /\ score[c] < PassMark
  <2>1. PICK i \in DOMAIN ids : ids[i] = c
    BY DEF ToSet
  <2>2. i \notin I
    BY <1>1, <1>4, <1>8, <1>9, <2>1 DEF IdsIn
  <2>3. s # "rrf" /\ ~(rows[i].score >= PassMark)
    BY <1>1, <1>6, <2>2
  <2>4. rows[i].score = score[c] /\ score[c] \in Int
    BY <1>3, <1>4, <2>1
  <2> QED
    BY <2>3, <2>4, MarkIs
<1>10. ASSUME NEW p \in DOMAIN t
       PROVE  /\ t[p].id \in ToSet(ids) /\ t[p].score = score[t[p].id]
              /\ s # "rrf" => t[p].score >= PassMark
  <2>1. PICK i \in I : t[p] = rows[i]
    BY <1>8
  <2> QED
    BY <1>1, <1>2, <1>4, <1>6, <2>1
<1> QED
  BY <1>8, <1>9, <1>10

\* The final ranking: those who pass, the highest, and nobody lower than who is left out for want of
\* a place.
LEMMA RankingIs ==
  ASSUME NEW X, NEW ids \in Seq(X), IsInjective(ids), NEW s, NEW score \in [ToSet(ids) -> Int],
         NEW t, t = Limited(ByScore(Passing(ids, s, score)))
  PROVE  /\ Rows(t, X) /\ Len(t) <= MaxCandidates
         /\ \A p \in DOMAIN t : /\ t[p].id \in ToSet(ids) /\ t[p].score = score[t[p].id]
                                /\ s # "rrf" => t[p].score >= PassMark
         /\ \A c \in ToSet(ids) \ IdsIn(t) :
              \/ s # "rrf" /\ score[c] < PassMark
              \/ Len(t) = MaxCandidates /\ \A i \in DOMAIN t : t[i].score >= score[c]
<1> DEFINE w == Passing(ids, s, score)
           b == ByScore(w)
<1>1. /\ Rows(w, X)
      /\ \A p \in DOMAIN w : /\ w[p].id \in ToSet(ids) /\ w[p].score = score[w[p].id]
                             /\ s # "rrf" => w[p].score >= PassMark
      /\ \A c \in ToSet(ids) \ IdsIn(w) : s # "rrf" /\ score[c] < PassMark
  BY PassingIs
<1>2. t = SubSeq(b, 1, Min({MaxCandidates, Len(b)}))
  BY DEF Limited
<1> HIDE DEF w
<1>3. /\ Rows(b, X)
      /\ \A p \in DOMAIN b : \E i \in DOMAIN w : b[p] = w[i]
      /\ \A i \in DOMAIN w : \E p \in DOMAIN b : b[p] = w[i]
      /\ \A p, q \in DOMAIN b : p <= q => b[p].score >= b[q].score
  <2>1. Rows(b, X) /\ Reordered(b, w)
    BY <1>1, SortedRows
  <2> HIDE DEF b
  <2> QED
    BY <2>1 DEF Reordered
<1>4. Len(b) \in Nat /\ DOMAIN b = 1..Len(b)
  BY <1>3, RowsAre
<1> HIDE DEF b
<1>5. /\ Rows(t, X) /\ Len(t) <= MaxCandidates
      /\ \A p \in DOMAIN t : p \in DOMAIN b /\ t[p] = b[p]
      /\ \A p \in DOMAIN b : p \in DOMAIN t \/ (Len(t) = MaxCandidates /\ p > MaxCandidates)
  <2>1. MaxCandidates \in Nat
    BY RoughAssumption
  <2>2. Rows(b, X)
    BY <1>3
  <2>3. Rows(t, X) /\ FirstOf(t, b, MaxCandidates)
    BY <1>2, <2>1, <2>2, FirstRows
  <2> QED
    BY <2>3 DEF FirstOf
<1>6. \A p \in DOMAIN t : /\ t[p].id \in ToSet(ids) /\ t[p].score = score[t[p].id]
                          /\ s # "rrf" => t[p].score >= PassMark
  BY <1>1, <1>3, <1>5
<1>7. ASSUME NEW c \in ToSet(ids), c \notin IdsIn(t)
      PROVE  \/ s # "rrf" /\ score[c] < PassMark
             \/ Len(t) = MaxCandidates /\ \A i \in DOMAIN t : t[i].score >= score[c]
  <2>1. CASE c \notin IdsIn(w)
    BY <1>1, <2>1
  <2>2. CASE c \in IdsIn(w)
    <3>1. PICK i \in DOMAIN w : w[i].id = c
      BY <2>2 DEF IdsIn
    <3>2. PICK q \in DOMAIN b : b[q] = w[i]
      BY <1>3
    <3>3. b[q].id = c /\ b[q].score = score[c]
      BY <1>1, <3>1, <3>2
    <3>4. q \notin DOMAIN t
      BY <1>5, <1>7, <3>3 DEF IdsIn
    <3>5. Len(t) = MaxCandidates /\ q > MaxCandidates
      BY <1>5, <3>4
    <3>6. ASSUME NEW p \in DOMAIN t PROVE t[p].score >= score[c]
      <4>1. p \in DOMAIN b /\ t[p] = b[p] /\ p <= q
        <5>1. p \in 1..Len(t) /\ Len(t) \in Nat
          BY <1>5, RowsAre
        <5>2. p <= q
          BY <1>4, <3>5, <5>1
        <5> QED
          BY <1>5, <5>2
      <4>2. b[p].score >= b[q].score
        BY <1>3, <4>1
      <4> QED
        BY <3>3, <4>1, <4>2
    <3> QED
      BY <3>5, <3>6
  <2> QED
    BY <2>1, <2>2
<1> QED
  BY <1>5, <1>6, <1>7

-----------------------------------------------------------------------------
(* The run *)

\* Merged with their best scores: what merged says of anybody is the best.
LEMMA MergedScore ==
  ASSUME MergedIsBest, NEW c \in All
  PROVE  ScoreIn(merged, c) = best[c]
<1>1. Rows(merged, All)
  BY DEF MergedIsBest, Rows, All
<1>2. CASE c \in IdsIn(merged)
  <2>1. PICK i \in DOMAIN merged : merged[i].id = c
    BY <1>2 DEF IdsIn
  <2>2. ScoreIn(merged, c) = merged[i].score
    BY <1>1, <2>1, ScoreIs
  <2> QED
    BY <2>1, <2>2 DEF MergedIsBest
<1>3. CASE c \notin IdsIn(merged)
  BY <1>3 DEF ScoreIn, MergedIsBest, All
<1> QED
  BY <1>2, <1>3

\* Before the final ranking there is none.
LEMMA NoRankingYet ==
  ASSUME ~Over', scale' = "none", ranked' = <<>>, scored' = <<>>
  PROVE  FinalMatch'
<1>1. DOMAIN scored' = {} /\ DOMAIN ranked' = {} /\ ranked' \in Seq([id : Payload, score : Int]')
  OBVIOUS
<1>2. scored' \in [DOMAIN scored' -> Int]
  OBVIOUS
<1> QED
  BY <1>1, <1>2 DEF FinalMatch

\* Before the first batch nobody is merged or ranked.
LEMMA RoughInit ==
  Init => RoughInv
<1> SUFFICES ASSUME Init PROVE RoughInv
  OBVIOUS
<1>1. request \in Seq(Seq(Ids)) /\ MaxCandidates \in Nat
  BY RoughAssumption DEF Init
<1>2. /\ next = 1 /\ hit = {} /\ silent = {} /\ best = [c \in Ids \cup Strangers |-> 0]
      /\ merged = <<>> /\ scale = "none" /\ ranked = <<>> /\ scored = <<>>
  BY DEF Init
<1>3. IdsIn(merged) = {} /\ IdsIn(ranked) = {}
  BY <1>2 DEF IdsIn
<1>4. Len(request) \in Nat
  BY <1>1
<1>5. TypeOK
  <2>1. /\ request \in Requests /\ job \in Jobs /\ profile \in [Ids -> Profiles]
        /\ setting \in Settings /\ vector \in BOOLEAN
    BY DEF Init
  <2>2. next \in 1..Len(request) + 2
    BY <1>2, <1>4
  <2>3. best \in [Ids \cup Strangers -> Nat]
    BY <1>2
  <2>4. Cardinality(IdsIn(merged)) = Len(merged) /\ Cardinality(IdsIn(ranked)) = Len(ranked) /\ Len(ranked) = 0
    BY <1>2, <1>3, FS_EmptySet
  <2>5. Len(ranked) <= MaxCandidates
    BY <1>1, <2>4
  <2> QED
    BY <1>2, <1>3, <2>1, <2>2, <2>3, <2>4, <2>5 DEF TypeOK
<1>6. MergedIsBest
  BY <1>2, <1>3 DEF MergedIsBest
<1>7. MergedForAReason
  BY <1>2, <1>3 DEF MergedForAReason
<1>8. ~Over
  BY <1>2, <1>4 DEF Over
<1>9. FinalMatch
  <2>1. DOMAIN scored = {} /\ DOMAIN ranked = {} /\ ranked \in Seq([id : Payload, score : Int])
    BY <1>2
  <2>2. scored \in [DOMAIN scored -> Int]
    BY <1>2
  <2> QED
    BY <1>2, <1>8, <2>1, <2>2 DEF FinalMatch
<1> QED
  BY <1>5, <1>6, <1>7, <1>9 DEF RoughInv

\* What the vectors and the words of a batch may find.
LEMMA HitsAre ==
  ASSUME TypeOK, NEW i \in DOMAIN request, NEW dense \in DenseHits, NEW sparse \in SparseHits(Pool(i))
  PROVE  dense \in Seq(All) /\ sparse \in Seq(ToSet(Pool(i)))
<1>1. dense \in Seq(All)
  <2>1. CASE vector
    <3>1. dense \in UNION {[1..m -> All] : m \in 0..TopK}
      BY <2>1 DEF DenseHits, SeqOf, All
    <3>2. PICK m \in 0..TopK : dense \in [1..m -> All]
      BY <3>1
    <3>3. m \in Nat
      BY RoughAssumption
    <3> QED
      BY <3>2, <3>3
  <2>2. CASE ~vector
    BY <2>2 DEF DenseHits
  <2> QED
    BY <2>1, <2>2
<1> DEFINE P == ToSet(Pool(i))
           n == Min({TopK, Len(Pool(i))})
<1>2. n \in Nat
  <2>1. Len(Pool(i)) \in Nat /\ TopK \in Nat
    BY PoolIs, RoughAssumption
  <2> QED
    BY <2>1, MinIs
<1>3. sparse = <<>> \/ sparse \in [1..n -> P]
  BY DEF SparseHits
<1> HIDE DEF P, n
<1>4. sparse \in Seq(P)
  <2>1. CASE sparse = <<>>
    BY <2>1
  <2>2. CASE sparse \in [1..n -> P]
    BY <1>2, <2>2
  <2> QED
    BY <1>3, <2>1, <2>2
<1> QED
  BY <1>1, <1>4 DEF P

\* Screening a batch.
LEMMA RoughBatch ==
  ASSUME RoughInv, ScreenBatch
  PROVE  RoughInv'
<1>1. TypeOK /\ MergedIsBest /\ MergedForAReason /\ FinalMatch
  BY DEF RoughInv
<1>2. PICK dense \in DenseHits, sparse \in SparseHits(Pool(next)) :
        \E found \in {Found(next, dense, sparse)} :
           /\ merged' = Merge(merged, found)
           /\ hit' = hit \cup ToSet(dense)
           /\ silent' = IF dense \o sparse = <<>> THEN silent \cup {next} ELSE silent
           /\ best' = [c \in DOMAIN best |->
                         Max({best[c]} \cup {found[j].score : j \in {k \in DOMAIN found : found[k].id = c}})]
  BY DEF ScreenBatch
<1> DEFINE found == Found(next, dense, sparse)
           quiet == dense \o sparse = <<>>
<1>3. /\ merged' = Merge(merged, found)
      /\ hit' = hit \cup ToSet(dense)
      /\ silent' = IF quiet THEN silent \cup {next} ELSE silent
      /\ best' = [c \in DOMAIN best |->
                    Max({best[c]} \cup {found[j].score : j \in {k \in DOMAIN found : found[k].id = c}})]
  BY <1>2
<1>4. /\ request' = request /\ job' = job /\ profile' = profile /\ setting' = setting /\ vector' = vector
      /\ scale' = scale /\ ranked' = ranked /\ scored' = scored
      /\ next' = next + 1 /\ next <= Len(request)
  BY DEF ScreenBatch, config, result
<1>5. Len(request) \in Nat /\ next \in DOMAIN request /\ next \in Nat /\ next >= 1
  <2>1. Len(request) \in Nat /\ DOMAIN request = 1..Len(request)
    BY <1>1, RequestIs
  <2>2. next \in 1..Len(request) + 2
    BY <1>1 DEF TypeOK
  <2> QED
    BY <1>4, <2>1, <2>2
<1>6. dense \in Seq(All) /\ sparse \in Seq(ToSet(Pool(next)))
  BY <1>1, <1>2, <1>5, HitsAre
<1>7. /\ Rows(found, All) /\ \A j \in DOMAIN found : found[j].score \in Nat
      /\ IdsIn(found) \subseteq ToSet(dense) \cup ToSet(Pool(next))
      /\ quiet => IdsIn(found) = ToSet(Pool(next))
  BY <1>1, <1>5, <1>6, FoundIs
<1>8. ToSet(Pool(next)) = {c \in ToSet(request[next]) : Passes(job, profile[c])}
  BY <1>1, <1>5, PoolIs
<1> HIDE DEF found, quiet
<1>9. Rows(merged, All) /\ best \in [All -> Nat]
  BY <1>1 DEF MergedIsBest, Rows, All, TypeOK
<1>10. \A i \in DOMAIN merged : merged[i].id \in All /\ merged[i].score \in Nat
  <2>1. \A i \in DOMAIN merged : merged[i].id \in All /\ merged[i].score = best[merged[i].id]
    BY <1>1, <1>9, RowsAre DEF MergedIsBest
  <2> QED
    BY <1>9, <2>1
<1>11. /\ Rows(merged', All) /\ IdsIn(merged') = IdsIn(merged) \cup IdsIn(found)
       /\ \A i \in DOMAIN merged' :
            merged'[i].score = Higher(ScoreIn(merged, merged'[i].id), ScoreIn(found, merged'[i].id))
  BY <1>3, <1>7, <1>9, <1>10, MergeIs
<1>12. ASSUME NEW c \in All PROVE ScoreIn(found, c) \in Nat
  <2>1. CASE c \in IdsIn(found)
    <3>1. PICK j \in DOMAIN found : found[j].id = c
      BY <2>1 DEF IdsIn
    <3> QED
      BY <1>7, <3>1, ScoreIs
  <2>2. CASE c \notin IdsIn(found)
    BY <2>2 DEF ScoreIn
  <2> QED
    BY <2>1, <2>2
<1>13. ASSUME NEW c \in All PROVE best'[c] = Higher(best[c], ScoreIn(found, c))
  <2>1. best[c] \in Nat
    BY <1>9
  <2>2. best'[c] = Max({best[c]} \cup {found[j].score : j \in {k \in DOMAIN found : found[k].id = c}})
    BY <1>3, <1>9
  <2> QED
    BY <1>7, <2>1, <2>2, BestIs
<1>14. best' \in [All -> Nat]
  <2>1. \A c \in All : best'[c] \in Nat
    <3> TAKE c \in All
    <3>1. best[c] \in Nat /\ ScoreIn(found, c) \in Nat
      BY <1>9, <1>12
    <3> QED
      BY <1>13, <3>1 DEF Higher
  <2>2. best' = [c \in All |-> best'[c]]
    <3>1. DOMAIN best = All
      BY <1>9
    <3> QED
      BY <1>3, <3>1
  <2> QED
    BY <2>1, <2>2
<1>15. ToSet(dense) \subseteq All
  BY <1>6 DEF ToSet
<1>16. TypeOK'
  <2>1. /\ request' \in Requests /\ job' \in Jobs /\ profile' \in [Ids -> Profiles]
        /\ setting' \in Settings /\ vector' \in BOOLEAN
        /\ scale' \in {"none", "rrf", "cosine", "cross_encoder"}
    BY <1>1, <1>4 DEF TypeOK
  <2>2. IdsIn(ranked)' \subseteq Payload' /\ Cardinality(IdsIn(ranked)') = Len(ranked') /\ Len(ranked') <= MaxCandidates
    <3>1. IdsIn(ranked)' = IdsIn(ranked) /\ Payload' = Payload
      BY <1>4 DEF IdsIn, Payload
    <3> QED
      BY <1>1, <1>4, <3>1 DEF TypeOK
  <2>3. next' \in 1..Len(request') + 2
    BY <1>4, <1>5
  <2>4. hit' \subseteq Ids \cup Strangers
    BY <1>1, <1>3, <1>15 DEF TypeOK, All
  <2>5. silent' \subseteq DOMAIN request'
    BY <1>1, <1>3, <1>4, <1>5 DEF TypeOK
  <2>6. best' \in [Ids \cup Strangers -> Nat]
    BY <1>14 DEF All
  <2>7. IdsIn(merged') \subseteq Ids \cup Strangers /\ Cardinality(IdsIn(merged')) = Len(merged')
    <3>1. Rows(merged', All)
      BY <1>11
    <3>2. IdsIn(merged') \subseteq All /\ Cardinality(IdsIn(merged')) = Len(merged')
      BY <3>1, RowsCounted
    <3> QED
      BY <3>2 DEF All
  <2>8. IdsIn(merged)' = IdsIn(merged')
    BY DEF IdsIn
  <2> QED
    BY <2>1, <2>2, <2>3, <2>4, <2>5, <2>6, <2>7, <2>8 DEF TypeOK
<1>17. MergedIsBest'
  <2>1. \A i \in DOMAIN merged' : merged'[i].id \in All
    <3>1. DOMAIN merged' = 1..Len(merged')
      BY <1>11, RowsAre
    <3> QED
      BY <1>11, <3>1, RowsAre
  <2>2. ASSUME NEW i \in DOMAIN merged' PROVE merged'[i].score = best'[merged'[i].id]
    <3> DEFINE c == merged'[i].id
    <3>1. c \in All
      BY <2>1
    <3>2. merged'[i].score = Higher(ScoreIn(merged, c), ScoreIn(found, c))
      BY <1>11
    <3> HIDE DEF c
    <3>3. ScoreIn(merged, c) = best[c]
      BY <1>1, <3>1, MergedScore
    <3>4. merged'[i].score = best'[c]
      BY <1>13, <3>1, <3>2, <3>3
    <3> QED
      BY <3>4 DEF c
  <2>3. ASSUME NEW c \in All, c \notin IdsIn(merged') PROVE best'[c] = 0
    <3>1. c \notin IdsIn(merged) /\ c \notin IdsIn(found)
      BY <1>11, <2>3
    <3>2. best[c] = 0 /\ ScoreIn(found, c) = 0
      BY <1>1, <3>1 DEF MergedIsBest, ScoreIn, All
    <3> QED
      BY <1>13, <3>2 DEF Higher
  <2>4. merged' \in Seq([id : Ids \cup Strangers, score : Int])
    BY <1>11 DEF Rows, All
  <2>5. \A i, j \in DOMAIN merged' : merged'[i].id = merged'[j].id => i = j
    BY <1>11 DEF Rows
  <2>6. IdsIn(merged)' = IdsIn(merged')
    BY DEF IdsIn
  <2> QED
    BY <2>2, <2>3, <2>4, <2>5, <2>6 DEF MergedIsBest, All
<1>18. MergedForAReason'
  <2>1. Payload' = Payload /\ \A c : Recalled(c)' <=> c \in IdsIn(merged')
    BY <1>4 DEF Payload, Recalled, IdsIn
  <2>2. ASSUME NEW c \in IdsIn(merged') PROVE c \in hit' \/ (c \in Payload /\ Passes(job, profile[c]))
    <3>1. CASE c \in IdsIn(merged)
      BY <1>1, <1>3, <3>1 DEF MergedForAReason
    <3>2. CASE c \in ToSet(dense)
      BY <1>3, <3>2
    <3>3. CASE c \in ToSet(Pool(next))
      <4>1. c \in ToSet(request[next]) /\ Passes(job, profile[c])
        BY <1>8, <3>3
      <4> QED
        BY <1>1, <1>5, <4>1, RequestIs
    <3> QED
      BY <1>7, <1>11, <2>2, <3>1, <3>2, <3>3
  <2>3. ASSUME NEW i \in silent', NEW c \in ToSet(request[i]), Passes(job, profile[c])
        PROVE  c \in IdsIn(merged')
    <3>1. CASE i \in silent
      <4>1. c \in IdsIn(merged)
        BY <1>1, <2>3, <3>1 DEF MergedForAReason, Recalled
      <4> QED
        BY <1>11, <4>1
    <3>2. CASE i \notin silent
      <4>1. i = next /\ quiet
        BY <1>3, <2>3, <3>2
      <4>2. c \in ToSet(Pool(next))
        BY <1>8, <2>3, <4>1
      <4> QED
        BY <1>7, <1>11, <4>1, <4>2
    <3> QED
      BY <3>1, <3>2
  <2>4. \A c : Passes(job, profile[c])' <=> Passes(job, profile[c])
    BY <1>4 DEF Passes, DegreeOk, YearsOk, SkillsOk, Skills, SkillHit, CandidateYears, CoveredYears, Dated, Span
  <2>5. IdsIn(merged)' = IdsIn(merged')
    BY DEF IdsIn
  <2> QED
    BY <1>4, <2>1, <2>2, <2>3, <2>4, <2>5 DEF MergedForAReason
<1>19. FinalMatch'
  <2>1. ~Over /\ ~Over'
    BY <1>4, <1>5 DEF Over
  <2>2. scale = "none" /\ ranked = <<>> /\ scored = <<>>
    BY <1>1, <2>1 DEF FinalMatch
  <2> QED
    BY <1>4, <2>1, <2>2, NoRankingYet
<1> QED
  BY <1>16, <1>17, <1>18, <1>19 DEF RoughInv

\* Passing over a batch.
LEMMA RoughSkip ==
  ASSUME RoughInv, SkipBatch
  PROVE  RoughInv'
<1>1. TypeOK /\ MergedIsBest /\ MergedForAReason /\ FinalMatch
  BY DEF RoughInv
<1>2. /\ request' = request /\ job' = job /\ profile' = profile /\ setting' = setting /\ vector' = vector
      /\ hit' = hit /\ silent' = silent /\ best' = best /\ merged' = merged
      /\ scale' = scale /\ ranked' = ranked /\ scored' = scored
      /\ next' = next + 1 /\ next <= Len(request)
  BY DEF SkipBatch, config, result
<1>3. Len(request) \in Nat /\ next \in Nat /\ next >= 1
  <2>1. Len(request) \in Nat
    BY <1>1, RequestIs
  <2>2. next \in 1..Len(request) + 2
    BY <1>1 DEF TypeOK
  <2> QED
    BY <2>1, <2>2
<1>4. next' \in 1..Len(request') + 2
  BY <1>2, <1>3
<1>5. TypeOK'
  BY <1>1, <1>2, <1>4 DEF TypeOK, IdsIn, Payload
<1>6. MergedIsBest'
  BY <1>1, <1>2 DEF MergedIsBest, IdsIn
<1>7. MergedForAReason'
  <2>1. \A c : Passes(job, profile[c])' <=> Passes(job, profile[c])
    BY <1>2 DEF Passes, DegreeOk, YearsOk, SkillsOk, Skills, SkillHit, CandidateYears, CoveredYears, Dated, Span
  <2>2. IdsIn(merged)' = IdsIn(merged) /\ Payload' = Payload /\ \A c : Recalled(c)' <=> Recalled(c)
    BY <1>2 DEF IdsIn, Payload, Recalled
  <2> QED
    BY <1>1, <1>2, <2>1, <2>2 DEF MergedForAReason
<1>8. FinalMatch'
  <2>1. ~Over /\ ~Over'
    BY <1>2, <1>3 DEF Over
  <2>2. scale = "none" /\ ranked = <<>> /\ scored = <<>>
    BY <1>1, <2>1 DEF FinalMatch
  <2> QED
    BY <1>2, <2>1, <2>2, NoRankingYet
<1> QED
  BY <1>5, <1>6, <1>7, <1>8 DEF RoughInv

\* Making the final ranking.
LEMMA RoughFinal ==
  ASSUME RoughInv, Finalize
  PROVE  RoughInv'
<1>1. TypeOK /\ MergedIsBest /\ MergedForAReason
  BY DEF RoughInv
<1>2. PICK ids \in {Pairs}, s \in Scales : \E score \in Scores(s, ToSet(ids)) :
        /\ scale' = IF ids = <<>> THEN "none" ELSE s
        /\ scored' = score
        /\ ranked' = Limited(ByScore(Passing(ids, s, score)))
  BY DEF Finalize
<1> DEFINE score == scored'
<1>3. /\ score \in Scores(s, ToSet(ids))
      /\ scale' = IF ids = <<>> THEN "none" ELSE s
      /\ ranked' = Limited(ByScore(Passing(ids, s, score)))
  BY <1>2
<1>4. /\ request' = request /\ job' = job /\ profile' = profile /\ setting' = setting /\ vector' = vector
      /\ hit' = hit /\ silent' = silent /\ best' = best /\ merged' = merged
      /\ next' = next + 1 /\ next = Len(request) + 1
  BY DEF Finalize, config
<1>5. /\ ids \in Seq(Payload) /\ IsInjective(ids)
      /\ ToSet(ids) \subseteq Payload \cap IdsIn(merged)
      /\ \A c \in Payload : Recalled(c) /\ c \notin ToSet(ids) => Cardinality(Ahead(c)) >= TopN
  <2>1. ids = Pairs
    OBVIOUS
  <2> QED
    BY <1>1, <2>1, PairsIs
<1>6. score \in [ToSet(ids) -> Int]
  <2>1. ToSet(ids) \in SUBSET Payload
    BY <1>5
  <2> QED
    BY <1>1, <1>3, <2>1, ScoresAre
<1>7. /\ Rows(ranked', Payload) /\ Len(ranked') <= MaxCandidates
      /\ \A p \in DOMAIN ranked' :
           /\ ranked'[p].id \in ToSet(ids) /\ ranked'[p].score = score[ranked'[p].id]
           /\ s # "rrf" => ranked'[p].score >= PassMark
      /\ \A c \in ToSet(ids) \ IdsIn(ranked') :
           \/ s # "rrf" /\ score[c] < PassMark
           \/ Len(ranked') = MaxCandidates /\ \A i \in DOMAIN ranked' : ranked'[i].score >= score[c]
  BY <1>3, <1>5, <1>6, RankingIs
<1>8. s \in Scales /\ s \in {"rrf", "cosine", "cross_encoder"}
  BY DEF Scales
<1>9. (ToSet(ids) # {} => scale' = s) /\ scale' \in {"none", s}
  <2>1. ids = <<>> => ToSet(ids) = {}
    BY DEF ToSet
  <2> QED
    BY <1>3, <2>1
<1> HIDE DEF score
<1>10. Len(request) \in Nat
  BY <1>1, RequestIs
<1>11. /\ Payload' = Payload /\ IdsIn(merged)' = IdsIn(merged) /\ IdsIn(ranked)' = IdsIn(ranked')
       /\ \A c : Recalled(c)' <=> Recalled(c)
       /\ \A c : Ahead(c)' = Ahead(c)
  BY <1>4 DEF Payload, IdsIn, Recalled, Ahead
<1>12. Mode' = Mode /\ Scales' = Scales /\ PassMark' = PassMark /\ TopN' = TopN
  BY <1>4 DEF Mode, Scales, PassMark, TopN
<1>13. TypeOK'
  <2>1. /\ request' \in Requests /\ job' \in Jobs /\ profile' \in [Ids -> Profiles]
        /\ setting' \in Settings /\ vector' \in BOOLEAN
        /\ hit' \subseteq Ids \cup Strangers /\ silent' \subseteq DOMAIN request'
        /\ best' \in [Ids \cup Strangers -> Nat]
    BY <1>1, <1>4 DEF TypeOK
  <2>2. IdsIn(merged)' \subseteq Ids \cup Strangers /\ Cardinality(IdsIn(merged)') = Len(merged')
    BY <1>1, <1>4, <1>11 DEF TypeOK
  <2>3. next' \in 1..Len(request') + 2
    BY <1>4, <1>10
  <2>4. IdsIn(ranked)' \subseteq Payload' /\ Cardinality(IdsIn(ranked)') = Len(ranked')
    <3>1. Rows(ranked', Payload)
      BY <1>7
    <3>2. IdsIn(ranked') \subseteq Payload /\ Cardinality(IdsIn(ranked')) = Len(ranked')
      BY <3>1, RowsCounted
    <3> QED
      BY <1>11, <3>2
  <2>5. Len(ranked') <= MaxCandidates /\ scale' \in {"none", "rrf", "cosine", "cross_encoder"}
    BY <1>7, <1>8, <1>9
  <2> QED
    BY <2>1, <2>2, <2>3, <2>4, <2>5 DEF TypeOK
<1>14. MergedIsBest'
  BY <1>1, <1>4, <1>11 DEF MergedIsBest
<1>15. MergedForAReason'
  <2>1. \A c : Passes(job, profile[c])' <=> Passes(job, profile[c])
    BY <1>4 DEF Passes, DegreeOk, YearsOk, SkillsOk, Skills, SkillHit, CandidateYears, CoveredYears, Dated, Span
  <2> QED
    BY <1>1, <1>4, <1>11, <2>1 DEF MergedForAReason
<1>16. FinalMatch'
  <2>0. Over'
    BY <1>4, <1>10 DEF Over
  <2>1. DOMAIN scored' = ToSet(ids) /\ scored' \in [DOMAIN scored' -> Int]
    BY <1>6 DEF score
  <2>2. ranked' \in Seq([id : Payload', score : Int]) /\ \A i, j \in DOMAIN ranked' : ranked'[i].id = ranked'[j].id => i = j
    BY <1>7, <1>11 DEF Rows
  <2>3. DOMAIN scored' \subseteq Payload' \cap IdsIn(merged)'
    BY <1>5, <1>11, <2>1
  <2>4. DOMAIN scored' # {} => scale' \in Scales'
    BY <1>8, <1>9, <1>12, <2>1
  <2>5. ASSUME NEW i \in DOMAIN ranked'
        PROVE  /\ ranked'[i].id \in DOMAIN scored' /\ ranked'[i].score = scored'[ranked'[i].id]
               /\ scale' # "rrf" => ranked'[i].score >= PassMark'
    <3>1. scale' = s
      BY <1>7, <1>9
    <3> QED
      BY <1>7, <1>12, <2>1, <3>1 DEF score
  <2>6. ASSUME NEW c \in DOMAIN scored', c \notin IdsIn(ranked)'
        PROVE  \/ scale' # "rrf" /\ scored'[c] < PassMark'
               \/ Len(ranked') = MaxCandidates /\ \A i \in DOMAIN ranked' : ranked'[i].score >= scored'[c]
    <3>1. scale' = s /\ c \in ToSet(ids) \ IdsIn(ranked')
      BY <1>9, <1>11, <2>1, <2>6
    <3> QED
      BY <1>7, <1>12, <3>1 DEF score
  <2>7. \A c \in Payload' : Recalled(c)' /\ c \notin DOMAIN scored' => Cardinality(Ahead(c)') >= TopN'
    BY <1>5, <1>11, <1>12, <2>1
  <2> QED
    BY <2>0, <2>1, <2>2, <2>3, <2>4, <2>5, <2>6, <2>7 DEF FinalMatch
<1> QED
  BY <1>13, <1>14, <1>15, <1>16 DEF RoughInv

\* A step that changes nothing.
LEMMA RoughStays ==
  ASSUME RoughInv, UNCHANGED vars
  PROVE  RoughInv'
<1>1. /\ request' = request /\ job' = job /\ profile' = profile /\ setting' = setting /\ vector' = vector
      /\ next' = next /\ hit' = hit /\ silent' = silent /\ best' = best /\ merged' = merged
      /\ scale' = scale /\ ranked' = ranked /\ scored' = scored
  BY DEF vars, config, result
<1>2. /\ Payload' = Payload /\ IdsIn(merged)' = IdsIn(merged) /\ IdsIn(ranked)' = IdsIn(ranked)
      /\ \A c : Recalled(c)' <=> Recalled(c)
      /\ \A c : Ahead(c)' = Ahead(c)
  BY <1>1 DEF Payload, IdsIn, Recalled, Ahead
<1>3. Mode' = Mode /\ Scales' = Scales /\ PassMark' = PassMark /\ TopN' = TopN /\ (Over' <=> Over)
  BY <1>1 DEF Mode, Scales, PassMark, TopN, Over
<1>4. TypeOK'
  BY <1>1, <1>2 DEF RoughInv, TypeOK
<1>5. MergedIsBest'
  BY <1>1, <1>2 DEF RoughInv, MergedIsBest
<1>6. MergedForAReason'
  <2>1. \A c : Passes(job, profile[c])' <=> Passes(job, profile[c])
    BY <1>1 DEF Passes, DegreeOk, YearsOk, SkillsOk, Skills, SkillHit, CandidateYears, CoveredYears, Dated, Span
  <2> QED
    BY <1>1, <1>2, <2>1 DEF RoughInv, MergedForAReason
<1>7. FinalMatch'
  BY <1>1, <1>2, <1>3 DEF RoughInv, FinalMatch
<1> QED
  BY <1>4, <1>5, <1>6, <1>7 DEF RoughInv

\* In every state of every run: those merged were found for a reason and have the best score of any
\* batch, and what the final ranking made of them is accounted for.
THEOREM RoughInvariant == Spec => []RoughInv
<1>1. ASSUME RoughInv, [Next]_vars PROVE RoughInv'
  <2>1. CASE ScreenBatch
    BY <1>1, <2>1, RoughBatch
  <2>2. CASE SkipBatch
    BY <1>1, <2>2, RoughSkip
  <2>3. CASE Finalize
    BY <1>1, <2>3, RoughFinal
  <2>4. CASE Sent \/ UNCHANGED vars
    BY <1>1, <2>4, RoughStays DEF Sent
  <2> QED
    BY <1>1, <2>1, <2>2, <2>3, <2>4 DEF Next
<1> QED
  BY <1>1, RoughInit, PTL DEF Spec

\* Variables keep their types: nobody stands twice among those merged or in the final ranking, whose
\* ids are in the request and no more than were asked for.
THEOREM RoughTypes == Spec => []TypeOK
<1>1. RoughInv => TypeOK
  BY DEF RoughInv
<1> QED
  BY <1>1, RoughInvariant, PTL

\* Profiles of the request are such that the filter is fair to them.
LEMMA ProfilesAre ==
  ASSUME TypeOK, NEW c \in Payload
  PROVE  /\ Passes(job, profile[c]) => Fits(c, KnownBy(c))
         /\ Fits(c, Tags(c)) /\ ~NamesRepeat(c) => Passes(job, profile[c])
<1>1. c \in Ids
  BY RequestIs
<1>2. profile[c] \in Profiles
  BY <1>1 DEF TypeOK
<1>3. profile[c].raw \in Seq(DOMAIN Rule) /\ profile[c].embedded \in BOOLEAN
  BY <1>2, RoughAssumption
<1> QED
  BY <1>3, FilterIsFair

\* Whoever is in the final ranking fits the job by the resume or was recalled by vectors, and has
\* the score that the threshold of what was measured asks for (RankedForAReason).
THEOREM RankedHasReason == Spec => []RankedForAReason
<1>1. ASSUME RoughInv, Over, NEW i \in DOMAIN ranked
      PROVE  /\ Fits(ranked[i].id, KnownBy(ranked[i].id)) \/ ranked[i].id \in hit
             /\ scale # "rrf" => ranked[i].score >= PassMark
             /\ scale # "rrf" /\ Mode = "cosine" => scale = "cosine" /\ ranked[i].score >= Threshold["cosine"]
             /\ scale = "cross_encoder" => ranked[i].score >= Threshold["cross_encoder"]
  <2> DEFINE c == ranked[i].id
  <2>1. /\ c \in DOMAIN scored /\ (scale # "rrf" => ranked[i].score >= PassMark)
        /\ DOMAIN scored \subseteq Payload \cap IdsIn(merged) /\ (DOMAIN scored # {} => scale \in Scales)
    BY <1>1 DEF RoughInv, FinalMatch
  <2>2. Fits(c, KnownBy(c)) \/ c \in hit
    <3> HIDE DEF c
    <3>1. c \in Payload /\ c \in IdsIn(merged)
      BY <2>1
    <3>2. c \in hit \/ Passes(job, profile[c])
      BY <1>1, <3>1 DEF RoughInv, MergedForAReason
    <3>3. TypeOK
      BY <1>1 DEF RoughInv
    <3> QED
      BY <3>1, <3>2, <3>3, ProfilesAre
  <2>3. scale \in {"cosine", "rrf"} \/ (scale = "cross_encoder" /\ Mode = "cross_encoder")
    BY <2>1 DEF Scales
  <2>4. PassMark = Threshold[IF Mode = "cosine" THEN "cosine" ELSE "cross_encoder"]
    BY DEF PassMark
  <2>5. scale # "rrf" /\ Mode = "cosine" => scale = "cosine" /\ ranked[i].score >= Threshold["cosine"]
    BY <2>1, <2>3, <2>4
  <2>6. scale = "cross_encoder" => ranked[i].score >= Threshold["cross_encoder"]
    BY <2>1, <2>3, <2>4
  <2> QED
    BY <2>1, <2>2, <2>5, <2>6
<1>2. RoughInv => RankedForAReason
  BY <1>1 DEF RankedForAReason
<1> QED
  BY <1>2, RoughInvariant, PTL

\* Whoever is not in the final ranking is left out for one of the reasons there are
\* (LeftOutForAReason): nobody is lost between the batches, the fusion and the ranking.
THEOREM LeftOutHasReason == Spec => []LeftOutForAReason
<1>1. ASSUME RoughInv, Over, NEW c \in Payload, c \notin IdsIn(ranked)
      PROVE  \/ ~Fits(c, Tags(c))
             \/ NamesRepeat(c)
             \/ ~Recalled(c) /\ silent \cap {i \in DOMAIN request : c \in ToSet(request[i])} = {}
             \/ Recalled(c) /\ Cardinality(Ahead(c)) >= TopN
             \/ c \in DOMAIN scored /\ scale # "rrf" /\ scored[c] < PassMark
             \/ /\ c \in DOMAIN scored /\ Len(ranked) = MaxCandidates
                /\ \A i \in DOMAIN ranked : ranked[i].score >= scored[c]
  <2>1. TypeOK /\ MergedForAReason /\ FinalMatch
    BY <1>1 DEF RoughInv
  <2>2. CASE ~Passes(job, profile[c])
    BY <2>1, <2>2, ProfilesAre
  <2>3. CASE Passes(job, profile[c]) /\ ~Recalled(c)
    <3>1. \A i \in silent : c \notin ToSet(request[i])
      BY <2>1, <2>3 DEF MergedForAReason
    <3> QED
      BY <2>3, <3>1
  <2>4. CASE Recalled(c) /\ c \notin DOMAIN scored
    BY <1>1, <2>1, <2>4 DEF FinalMatch
  <2>5. CASE c \in DOMAIN scored
    BY <1>1, <2>1, <2>5 DEF FinalMatch
  <2> QED
    BY <2>2, <2>3, <2>4, <2>5
<1>2. RoughInv => LeftOutForAReason
  BY <1>1 DEF LeftOutForAReason
<1> QED
  BY <1>2, RoughInvariant, PTL
=============================================================================
