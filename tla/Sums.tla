-------------------------------- MODULE Sums --------------------------------
(***************************************************************************)
(* Least elements and sums over finite sets, for the proofs about modules  *)
(* that add up: the sums are those of SumFunctionOnSet.  What would be an  *)
(* induction takes a smallest set of which the claim fails instead.        *)
(***************************************************************************)
EXTENDS Integers, FiniteSets, Functions, FiniteSetTheorems, WellFoundedInduction, TLAPS

\* A set of subsets of a finite set has a smallest one.
LEMMA SmallestSubset ==
    ASSUME NEW S, IsFiniteSet(S), NEW T, T \subseteq SUBSET S, T # {}
    PROVE  \E m \in T : \A u \in T : u \subseteq m => u = m
  <1>1. IsWellFoundedOn(StrictSubsetOrdering(S), SUBSET S)
    BY FS_StrictSubsetOrderingWellFounded, FS_FiniteSubsetsOfFinite
  <1>2. PICK m \in T : \A u \in T : <<u, m>> \notin StrictSubsetOrdering(S)
    BY <1>1, WFMin
  <1>3. ASSUME NEW u \in T, u \subseteq m, u # m PROVE FALSE
    <2>1. <<u, m>> \in StrictSubsetOrdering(S)
      BY <1>3 DEF StrictSubsetOrdering
    <2> QED BY <1>2, <2>1
  <1> QED BY <1>3

\* A finite set of numbers that a function gives has a least one.
LEMMA LeastOf ==
    ASSUME NEW S, IsFiniteSet(S), S # {}, NEW w, \A s \in S : w[s] \in Int
    PROVE  \E s \in S : \A t \in S : w[s] <= w[t]
  <1> DEFINE UpTo(u) == {t \in S : w[t] <= w[u]}
             T == {UpTo(u) : u \in S}
  <1>0. T \subseteq SUBSET S /\ T # {}
    OBVIOUS
  <1>1. PICK m \in T : \A v \in T : v \subseteq m => v = m
    <2> HIDE DEF T
    <2> QED BY <1>0, SmallestSubset
  <1>2. PICK s \in S : m = UpTo(s)
    OBVIOUS
  <1>3. ASSUME NEW t \in S, ~(w[s] <= w[t]) PROVE FALSE
    <2>1. UpTo(t) \subseteq UpTo(s)
      BY <1>3
    <2>2. UpTo(t) = UpTo(s)
      BY <1>1, <1>2, <2>1
    <2>3. s \in UpTo(s)
      OBVIOUS
    <2> QED BY <1>3, <2>2, <2>3
  <1> QED BY <1>3

Pick(s) == CHOOSE x \in s : TRUE

\* A sum of the numbers w[x] of a set, one element after the other.
SumStep(w, g, s) == IF s = {} THEN 0 ELSE w[Pick(s)] + g[s \ {Pick(s)}]
AddsUp(w, g, s) == g = [t \in SUBSET s |-> SumStep(w, g, t)]

\* Two such sums agree where both are defined.
LEMMA SumsAgree ==
    ASSUME NEW S, IsFiniteSet(S), NEW w, NEW a \in SUBSET S, NEW b \in SUBSET S,
           NEW g, NEW h, AddsUp(w, g, a), AddsUp(w, h, b)
    PROVE  \A t \in SUBSET S : t \subseteq a /\ t \subseteq b => g[t] = h[t]
  <1> DEFINE T == {t \in SUBSET S : t \subseteq a /\ t \subseteq b /\ g[t] # h[t]}
  <1>1. SUFFICES ASSUME T # {} PROVE FALSE
    OBVIOUS
  <1>2. PICK m \in T : \A u \in T : u \subseteq m => u = m
    <2>1. T \subseteq SUBSET S
      OBVIOUS
    <2> HIDE DEF T
    <2> QED BY <1>1, <2>1, SmallestSubset
  <1>3. g[m] = SumStep(w, g, m) /\ h[m] = SumStep(w, h, m)
    BY DEF AddsUp
  <1>4. CASE m = {}
    BY <1>3, <1>4 DEF SumStep
  <1>5. CASE m # {}
    <2>1. Pick(m) \in m
      BY <1>5 DEF Pick
    <2>2. g[m \ {Pick(m)}] = h[m \ {Pick(m)}]
      BY <1>2, <2>1
    <2> QED BY <1>3, <1>5, <2>2 DEF SumStep
  <1> QED BY <1>4, <1>5

\* There is such a sum.
LEMMA SumExists ==
    ASSUME NEW S, IsFiniteSet(S), NEW w
    PROVE  \E g : AddsUp(w, g, S)
  <1> DEFINE T == {s \in SUBSET S : ~ \E g : AddsUp(w, g, s)}
  <1>1. SUFFICES ASSUME T # {} PROVE FALSE
    OBVIOUS
  <1>2. PICK s \in T : \A u \in T : u \subseteq s => u = s
    <2>1. T \subseteq SUBSET S
      OBVIOUS
    <2> HIDE DEF T
    <2> QED BY <1>1, <2>1, SmallestSubset
  <1> DEFINE G(u) == CHOOSE g : AddsUp(w, g, u)
  <1>3. ASSUME NEW u \in SUBSET s, u # s PROVE AddsUp(w, G(u), u)
    BY <1>2, <1>3
  <1> HIDE DEF G
  <1> DEFINE Rest(t) == t \ {Pick(t)}
             h == [t \in SUBSET s |-> IF t = {} THEN 0 ELSE w[Pick(t)] + G(Rest(t))[Rest(t)]]
  <1>4. \A t \in SUBSET s : t # {} => Rest(t) \in SUBSET s /\ Rest(t) # s /\ Rest(t) # t
    BY DEF Pick
  <1>5. ASSUME NEW u \in SUBSET s, u # s PROVE h[u] = G(u)[u]
    <2>1. AddsUp(w, G(u), u)
      BY <1>3, <1>5
    <2>2. G(u)[u] = SumStep(w, G(u), u)
      BY <2>1 DEF AddsUp
    <2>3. CASE u = {}
      BY <2>2, <2>3 DEF SumStep
    <2>4. CASE u # {}
      <3>1. AddsUp(w, G(Rest(u)), Rest(u)) /\ Rest(u) \in SUBSET S /\ u \in SUBSET S
        BY <1>3, <1>4, <2>4
      <3>2. Rest(u) \subseteq u /\ Rest(u) \subseteq Rest(u)
        OBVIOUS
      <3>3. G(u)[Rest(u)] = G(Rest(u))[Rest(u)]
        BY <2>1, <3>1, <3>2, SumsAgree
      <3>4. h[u] = w[Pick(u)] + G(Rest(u))[Rest(u)]
        BY <2>4
      <3> HIDE DEF h
      <3> QED BY <2>2, <2>4, <3>3, <3>4 DEF SumStep
    <2> QED BY <2>3, <2>4
  <1>6. \A t \in SUBSET s : h[t] = SumStep(w, h, t)
    <2> SUFFICES ASSUME NEW t \in SUBSET s PROVE h[t] = SumStep(w, h, t)
      OBVIOUS
    <2>1. CASE t = {}
      BY <2>1 DEF SumStep
    <2>2. CASE t # {}
      <3>1. h[t] = w[Pick(t)] + G(Rest(t))[Rest(t)]
        BY <2>2
      <3>2. h[Rest(t)] = G(Rest(t))[Rest(t)]
        BY <1>4, <1>5, <2>2
      <3> HIDE DEF h
      <3> QED BY <2>2, <3>1, <3>2 DEF SumStep
    <2> QED BY <2>1, <2>2
  <1>7. h = [t \in SUBSET s |-> SumStep(w, h, t)]
    <2>1. h = [t \in SUBSET s |-> h[t]]
      OBVIOUS
    <2> HIDE DEF h
    <2> QED BY <1>6, <2>1
  <1>8. AddsUp(w, h, s)
    BY <1>7 DEF AddsUp
  <1> QED BY <1>2, <1>8

\* The sum of the numbers w[x] of a set.
Sum(w, S) == SumFunctionOnSet(w, S)

\* The sum of a finite set is such a sum.
LEMMA SumIs ==
    ASSUME NEW S, IsFiniteSet(S), NEW w
    PROVE  \E g : AddsUp(w, g, S) /\ Sum(w, S) = g[S]
  <1> DEFINE Iter == CHOOSE g : g = [t \in SUBSET S |->
                         IF t = {} THEN 0
                         ELSE w[CHOOSE x \in t : TRUE] + g[t \ {CHOOSE x \in t : TRUE}]]
  <1>1. Sum(w, S) = Iter[S]
    BY DEF Sum, SumFunctionOnSet, FoldFunctionOnSet,
                  MapThenFoldSet
  <1>2. \E g : g = [t \in SUBSET S |->
                         IF t = {} THEN 0
                         ELSE w[CHOOSE x \in t : TRUE] + g[t \ {CHOOSE x \in t : TRUE}]]
    <2>1. \E g : AddsUp(w, g, S)
      BY SumExists
    <2> QED BY <2>1 DEF AddsUp, SumStep, Pick
  <1>3. Iter = [t \in SUBSET S |->
                         IF t = {} THEN 0
                         ELSE w[CHOOSE x \in t : TRUE] + Iter[t \ {CHOOSE x \in t : TRUE}]]
    BY <1>2
  <1>4. AddsUp(w, Iter, S)
    <2> HIDE DEF Iter
    <2> QED BY <1>3 DEF AddsUp, SumStep, Pick
  <1> QED BY <1>1, <1>4

\* The sum of none is 0, that of others the first one's number and the sum of the rest.
LEMMA SumUnfolds ==
    ASSUME NEW S, IsFiniteSet(S), NEW w
    PROVE  /\ S = {} => Sum(w, S) = 0
           /\ S # {} => Sum(w, S) = w[Pick(S)] + Sum(w, S \ {Pick(S)})
  <1>1. PICK g : AddsUp(w, g, S) /\ Sum(w, S) = g[S]
    BY SumIs
  <1>2. g[S] = SumStep(w, g, S)
    BY <1>1 DEF AddsUp
  <1>3. ASSUME S # {} PROVE Sum(w, S \ {Pick(S)}) = g[S \ {Pick(S)}]
    <2> DEFINE R == S \ {Pick(S)}
    <2>1. IsFiniteSet(R) /\ R \in SUBSET S /\ S \in SUBSET S /\ R \subseteq R /\ R \subseteq S
      BY FS_Subset
    <2>2. PICK h : AddsUp(w, h, R) /\ Sum(w, R) = h[R]
      BY <2>1, SumIs
    <2>3. h[R] = g[R]
      <3> HIDE DEF R
      <3> QED BY <1>1, <2>1, <2>2, SumsAgree
    <2> QED BY <2>2, <2>3
  <1> QED BY <1>1, <1>2, <1>3 DEF SumStep

\* A sum of integers is one.
LEMMA SumIsNumber ==
    ASSUME NEW S, IsFiniteSet(S), NEW w, \A s \in S : w[s] \in Int
    PROVE  Sum(w, S) \in Int
  <1> DEFINE T == {s \in SUBSET S : Sum(w, s) \notin Int}
  <1>1. SUFFICES ASSUME T # {} PROVE FALSE
    OBVIOUS
  <1>2. PICK m \in T : \A u \in T : u \subseteq m => u = m
    <2>1. T \subseteq SUBSET S
      OBVIOUS
    <2> HIDE DEF T
    <2> QED BY <1>1, <2>1, SmallestSubset
  <1>3. m # {} /\ IsFiniteSet(m)
    <2>1. Sum(w, {}) \in Int
      <3>1. IsFiniteSet({})
        BY FS_EmptySet
      <3>2. Sum(w, {}) = 0
        BY <3>1, SumUnfolds
      <3> QED BY <3>2
    <2>2. m \subseteq S /\ Sum(w, m) \notin Int
      OBVIOUS
    <2> HIDE DEF T
    <2> QED BY <2>1, <2>2, FS_Subset
  <1>4. Pick(m) \in m
    BY <1>3 DEF Pick
  <1>5. Sum(w, m \ {Pick(m)}) \in Int
    BY <1>2, <1>4
  <1>6. Sum(w, m) = w[Pick(m)] + Sum(w, m \ {Pick(m)})
    BY <1>3, SumUnfolds
  <1>7. w[Pick(m)] \in Int
    BY <1>4
  <1>8. Sum(w, m) \in Int
    <2> HIDE DEF T
    <2> QED BY <1>5, <1>6, <1>7
  <1> QED BY <1>2, <1>8

\* The sum of none is 0.
LEMMA SumOfNone == ASSUME NEW w PROVE Sum(w, {}) = 0
  <1>1. IsFiniteSet({})
    BY FS_EmptySet
  <1> QED BY <1>1, SumUnfolds

\* Only the numbers of the set count.
LEMMA SumSame ==
    ASSUME NEW S, IsFiniteSet(S), NEW w, NEW v, \A s \in S : w[s] = v[s]
    PROVE  Sum(w, S) = Sum(v, S)
  <1> DEFINE T == {s \in SUBSET S : Sum(w, s) # Sum(v, s)}
  <1>1. SUFFICES ASSUME T # {} PROVE FALSE
    OBVIOUS
  <1>2. PICK m \in T : \A u \in T : u \subseteq m => u = m
    <2>1. T \subseteq SUBSET S
      OBVIOUS
    <2> HIDE DEF T
    <2> QED BY <1>1, <2>1, SmallestSubset
  <1>3. m \subseteq S /\ Sum(w, m) # Sum(v, m) /\ IsFiniteSet(m)
    BY FS_Subset
  <1>4. m # {}
    BY <1>3, SumOfNone
  <1>5. Pick(m) \in m
    BY <1>4 DEF Pick
  <1>6. Sum(w, m \ {Pick(m)}) = Sum(v, m \ {Pick(m)})
    BY <1>2, <1>5
  <1>7. Sum(w, m) = w[Pick(m)] + Sum(w, m \ {Pick(m)})
    BY <1>3, <1>4, SumUnfolds
  <1>8. Sum(v, m) = v[Pick(m)] + Sum(v, m \ {Pick(m)})
    BY <1>3, <1>4, SumUnfolds
  <1>9. w[Pick(m)] = v[Pick(m)]
    BY <1>3, <1>5
  <1> HIDE DEF T
  <1> QED BY <1>3, <1>6, <1>7, <1>8, <1>9

\* A sum is that of any one element and the rest.
LEMMA SumTakes ==
    ASSUME NEW S, IsFiniteSet(S), NEW w, \A s \in S : w[s] \in Int, NEW x \in S
    PROVE  Sum(w, S) = w[x] + Sum(w, S \ {x})
  <1> DEFINE T == {s \in SUBSET S : \E y \in s : Sum(w, s) # w[y] + Sum(w, s \ {y})}
  <1>1. SUFFICES ASSUME T # {} PROVE FALSE
    <2>1. S \in SUBSET S
      OBVIOUS
    <2> QED BY <2>1
  <1>2. PICK m \in T : \A u \in T : u \subseteq m => u = m
    <2>1. T \subseteq SUBSET S
      OBVIOUS
    <2> HIDE DEF T
    <2> QED BY <1>1, <2>1, SmallestSubset
  <1>3. PICK y \in m : Sum(w, m) # w[y] + Sum(w, m \ {y})
    OBVIOUS
  <1>4. m \subseteq S /\ IsFiniteSet(m) /\ m # {}
    BY <1>3, FS_Subset
  <1> DEFINE p == Pick(m)
             r == (m \ {p}) \ {y}
  <1>5. p \in m
    BY <1>4 DEF Pick
  <1>6. Sum(w, m) = w[p] + Sum(w, m \ {p})
    BY <1>4, SumUnfolds
  <1>7. p # y
    BY <1>3, <1>6
  <1> HIDE DEF p
  <1>8. ASSUME NEW n, n \subseteq m, n # m, NEW t \in n
        PROVE  Sum(w, n) = w[t] + Sum(w, n \ {t})
    <2>1. n \notin T
      BY <1>2, <1>8
    <2>2. n \in SUBSET S
      BY <1>4, <1>8
    <2> QED BY <1>8, <2>1, <2>2
  <1>9. Sum(w, m \ {p}) = w[y] + Sum(w, r)
    <2> DEFINE n == m \ {p}
    <2>1. n \subseteq m /\ n # m /\ y \in n
      BY <1>5, <1>7
    <2> HIDE DEF n
    <2>2. Sum(w, n) = w[y] + Sum(w, n \ {y})
      BY <1>8, <2>1
    <2> QED BY <2>2 DEF n
  <1>10. Sum(w, m \ {y}) = w[p] + Sum(w, r)
    <2> DEFINE n == m \ {y}
    <2>1. n \subseteq m /\ n # m /\ p \in n
      BY <1>5, <1>7
    <2> HIDE DEF n
    <2>2. Sum(w, n) = w[p] + Sum(w, n \ {p})
      BY <1>8, <2>1
    <2>3. n \ {p} = r
      BY DEF n
    <2> QED BY <2>2, <2>3 DEF n
  <1>11. Sum(w, r) \in Int
    <2>1. IsFiniteSet(r) /\ \A s \in r : w[s] \in Int
      BY <1>4, FS_Subset
    <2> HIDE DEF r
    <2> QED BY <2>1, SumIsNumber
  <1>12. w[p] \in Int /\ w[y] \in Int
    BY <1>4, <1>5
  <1> HIDE DEF T, p, r
  <1>13. ASSUME NEW a, NEW b \in Int, NEW c \in Int, NEW d \in Int, NEW e, NEW f,
                a = c + e, e = b + d, f = c + d
         PROVE  a = b + f
    BY <1>13
  <1>14. Sum(w, m) = w[y] + Sum(w, m \ {y})
    BY <1>6, <1>9, <1>10, <1>11, <1>12, <1>13
  <1> QED BY <1>3, <1>14

\* The sum of two sets without a common element is the sum of their sums.
LEMMA SumJoins ==
    ASSUME NEW A, NEW B, IsFiniteSet(A), IsFiniteSet(B), A \cap B = {},
           NEW w, \A s \in A \cup B : w[s] \in Int
    PROVE  Sum(w, A \cup B) = Sum(w, A) + Sum(w, B)
  <1> DEFINE T == {s \in SUBSET A : Sum(w, s \cup B) # Sum(w, s) + Sum(w, B)}
  <1>1. SUFFICES ASSUME T # {} PROVE FALSE
    <2>1. A \in SUBSET A
      OBVIOUS
    <2> QED BY <2>1
  <1>2. PICK m \in T : \A u \in T : u \subseteq m => u = m
    <2>1. T \subseteq SUBSET A
      OBVIOUS
    <2> HIDE DEF T
    <2> QED BY <1>1, <2>1, SmallestSubset
  <1>3. m \subseteq A /\ Sum(w, m \cup B) # Sum(w, m) + Sum(w, B)
    OBVIOUS
  <1>4. IsFiniteSet(m) /\ IsFiniteSet(m \cup B)
    BY <1>3, FS_Subset, FS_Union
  <1>5. Sum(w, B) \in Int
    BY SumIsNumber
  <1>6. m # {}
    <2>1. ASSUME m = {} PROVE FALSE
      <3> HIDE DEF T
      <3>1. m \cup B = B
        BY <2>1
      <3>2. Sum(w, m) = 0
        BY <2>1, SumOfNone
      <3>3. Sum(w, m \cup B) = Sum(w, B)
        BY <3>1
      <3> QED BY <1>3, <1>5, <3>2, <3>3
    <2> QED BY <2>1
  <1>7. PICK p \in m : TRUE
    BY <1>6
  <1>8. Sum(w, m) = w[p] + Sum(w, m \ {p})
    BY <1>3, <1>4, SumTakes
  <1>9. Sum(w, m \cup B) = w[p] + Sum(w, (m \cup B) \ {p})
    BY <1>3, <1>4, SumTakes
  <1>10. (m \cup B) \ {p} = (m \ {p}) \cup B
    BY <1>3
  <1>11. Sum(w, (m \ {p}) \cup B) = Sum(w, m \ {p}) + Sum(w, B)
    BY <1>2, <1>3
  <1> DEFINE r == m \ {p}
             rB == r \cup B
  <1>12. Sum(w, m \ {p}) \in Int /\ w[p] \in Int
    <2>1. IsFiniteSet(m \ {p}) /\ \A s \in m \ {p} : w[s] \in Int
      BY <1>3, <1>4, FS_Subset
    <2>2. Sum(w, m \ {p}) \in Int
      BY <2>1, SumIsNumber
    <2> QED BY <1>3, <2>2
  <1>13. /\ Sum(w, m) = w[p] + Sum(w, r) /\ Sum(w, m \cup B) = w[p] + Sum(w, rB)
         /\ Sum(w, rB) = Sum(w, r) + Sum(w, B) /\ Sum(w, r) \in Int /\ w[p] \in Int
    BY <1>8, <1>9, <1>10, <1>11, <1>12
  <1> HIDE DEF T, r, rB
  <1> QED BY <1>3, <1>5, <1>13

\* The elements of a key.
Of(S, key, k) == {s \in S : key[s] = k}

\* A sum by keys: what the sums over the elements of each key add up to.
LEMMA SumByKey ==
    ASSUME NEW S, IsFiniteSet(S), NEW w, \A s \in S : w[s] \in Int,
           NEW K, IsFiniteSet(K), NEW key, \A s \in S : key[s] \in K
    PROVE  Sum([k \in K |-> Sum(w, Of(S, key, k))], K) = Sum(w, S)
  <1> DEFINE v == [k \in K |-> Sum(w, Of(S, key, k))]
             In(R) == {s \in S : key[s] \in R}
             T == {R \in SUBSET K : Sum(v, R) # Sum(w, In(R))}
  <1>1. SUFFICES ASSUME T # {} PROVE FALSE
    <2>1. K \in SUBSET K /\ In(K) = S
      OBVIOUS
    <2> QED BY <2>1
  <1>2. PICK m \in T : \A u \in T : u \subseteq m => u = m
    <2>1. T \subseteq SUBSET K
      OBVIOUS
    <2> HIDE DEF T
    <2> QED BY <1>1, <2>1, SmallestSubset
  <1>3. m \subseteq K /\ Sum(v, m) # Sum(w, In(m)) /\ IsFiniteSet(m)
    BY FS_Subset
  <1>4. m # {}
    <2>1. In({}) = {}
      OBVIOUS
    <2> QED BY <1>3, <2>1, SumOfNone
  <1>5. PICK k \in m : TRUE
    BY <1>4
  <1>6. \A j \in K : v[j] = Sum(w, Of(S, key, j)) /\ v[j] \in Int
    <2> SUFFICES ASSUME NEW j \in K
                 PROVE  v[j] = Sum(w, Of(S, key, j)) /\ v[j] \in Int
      OBVIOUS
    <2>1. IsFiniteSet(Of(S, key, j)) /\ \A s \in Of(S, key, j) : w[s] \in Int
      BY FS_Subset DEF Of
    <2>2. Sum(w, Of(S, key, j)) \in Int
      BY <2>1, SumIsNumber
    <2> QED BY <2>2
  <1> HIDE DEF v
  <1>7. Sum(v, m) = v[k] + Sum(v, m \ {k})
    BY <1>3, <1>6, SumTakes
  <1>8. Sum(v, m \ {k}) = Sum(w, In(m \ {k}))
    BY <1>2, <1>3, <1>5
  <1>9. Sum(w, In(m)) = Sum(w, Of(S, key, k)) + Sum(w, In(m \ {k}))
    <2>1. In(m) = Of(S, key, k) \cup In(m \ {k}) /\ Of(S, key, k) \cap In(m \ {k}) = {}
      BY <1>3, <1>5 DEF Of
    <2>2. IsFiniteSet(Of(S, key, k)) /\ IsFiniteSet(In(m \ {k}))
      BY FS_Subset DEF Of
    <2>3. \A s \in Of(S, key, k) \cup In(m \ {k}) : w[s] \in Int
      BY DEF Of
    <2> DEFINE A == Of(S, key, k)
               B == In(m \ {k})
    <2>4. In(m) = A \cup B
      BY <2>1
    <2>5. Sum(w, A \cup B) = Sum(w, A) + Sum(w, B)
      <3>1. A \cap B = {} /\ IsFiniteSet(A) /\ IsFiniteSet(B) /\ \A s \in A \cup B : w[s] \in Int
        BY <2>1, <2>2, <2>3
      <3> HIDE DEF A, B
      <3> QED BY <3>1, SumJoins
    <2> HIDE DEF A, B, In
    <2>6. Sum(w, In(m)) = Sum(w, A) + Sum(w, B)
      BY <2>4, <2>5
    <2> QED BY <2>6 DEF A, B
  <1>10. v[k] = Sum(w, Of(S, key, k))
    BY <1>3, <1>6
  <1> HIDE DEF T, In
  <1> QED BY <1>3, <1>7, <1>8, <1>9, <1>10

\* A sum of sums.
LEMMA SumAdds ==
    ASSUME NEW S, IsFiniteSet(S), NEW w, NEW v, NEW z,
           \A s \in S : w[s] \in Int /\ v[s] \in Int /\ z[s] = w[s] + v[s]
    PROVE  Sum(z, S) = Sum(w, S) + Sum(v, S)
  <1> DEFINE T == {s \in SUBSET S : Sum(z, s) # Sum(w, s) + Sum(v, s)}
  <1>1. SUFFICES ASSUME T # {} PROVE FALSE
    <2>1. S \in SUBSET S
      OBVIOUS
    <2> QED BY <2>1
  <1>2. PICK m \in T : \A u \in T : u \subseteq m => u = m
    <2>1. T \subseteq SUBSET S
      OBVIOUS
    <2> HIDE DEF T
    <2> QED BY <1>1, <2>1, SmallestSubset
  <1>3. m \subseteq S /\ Sum(z, m) # Sum(w, m) + Sum(v, m) /\ IsFiniteSet(m)
    BY FS_Subset
  <1>4. m # {}
    BY <1>3, SumOfNone
  <1> DEFINE p == Pick(m)
             r == m \ {p}
  <1>5. p \in m /\ w[p] \in Int /\ v[p] \in Int /\ z[p] = w[p] + v[p]
    BY <1>3, <1>4 DEF Pick
  <1>6. Sum(z, r) = Sum(w, r) + Sum(v, r)
    BY <1>2, <1>3, <1>5
  <1>7. /\ Sum(z, m) = z[p] + Sum(z, r) /\ Sum(w, m) = w[p] + Sum(w, r)
        /\ Sum(v, m) = v[p] + Sum(v, r)
    BY <1>3, <1>4, SumUnfolds
  <1>8. Sum(w, r) \in Int /\ Sum(v, r) \in Int
    <2>1. IsFiniteSet(r) /\ \A s \in r : w[s] \in Int /\ v[s] \in Int
      BY <1>3, FS_Subset
    <2> HIDE DEF r
    <2> QED BY <2>1, SumIsNumber
  <1> HIDE DEF T, p, r
  <1> QED BY <1>3, <1>5, <1>6, <1>7, <1>8

\* A sum of multiples.
LEMMA SumScales ==
    ASSUME NEW S, IsFiniteSet(S), NEW w, NEW v, NEW c \in Int,
           \A s \in S : w[s] \in Int /\ v[s] = c * w[s]
    PROVE  Sum(v, S) = c * Sum(w, S)
  <1> DEFINE T == {s \in SUBSET S : Sum(v, s) # c * Sum(w, s)}
  <1>1. SUFFICES ASSUME T # {} PROVE FALSE
    <2>1. S \in SUBSET S
      OBVIOUS
    <2> QED BY <2>1
  <1>2. PICK m \in T : \A u \in T : u \subseteq m => u = m
    <2>1. T \subseteq SUBSET S
      OBVIOUS
    <2> HIDE DEF T
    <2> QED BY <1>1, <2>1, SmallestSubset
  <1>3. m \subseteq S /\ Sum(v, m) # c * Sum(w, m) /\ IsFiniteSet(m)
    BY FS_Subset
  <1>4. m # {}
    <2>1. Sum(w, {}) = 0 /\ Sum(v, {}) = 0 /\ c * 0 = 0
      BY SumOfNone
    <2> HIDE DEF T
    <2> QED BY <1>3, <2>1
  <1> DEFINE p == Pick(m)
             r == m \ {p}
  <1>5. p \in m /\ w[p] \in Int /\ v[p] = c * w[p]
    BY <1>3, <1>4 DEF Pick
  <1>6. Sum(v, r) = c * Sum(w, r)
    BY <1>2, <1>3, <1>5
  <1>7. Sum(v, m) = v[p] + Sum(v, r) /\ Sum(w, m) = w[p] + Sum(w, r)
    BY <1>3, <1>4, SumUnfolds
  <1>8. Sum(w, r) \in Int
    <2>1. IsFiniteSet(r) /\ \A s \in r : w[s] \in Int
      BY <1>3, FS_Subset
    <2> HIDE DEF r
    <2> QED BY <2>1, SumIsNumber
  <1>9. c * (w[p] + Sum(w, r)) = c * w[p] + c * Sum(w, r)
    BY <1>5, <1>8
  <1> HIDE DEF T, p, r
  <1> QED BY <1>3, <1>5, <1>6, <1>7, <1>9

\* A sum of natural numbers is one, and 0 where all of them are and only there.
LEMMA SumOfNaturals ==
    ASSUME NEW S, IsFiniteSet(S), NEW w, \A s \in S : w[s] \in Nat
    PROVE  Sum(w, S) \in Nat /\ (Sum(w, S) = 0 <=> \A s \in S : w[s] = 0)
  <1> DEFINE Good(s) == Sum(w, s) \in Nat /\ (Sum(w, s) = 0 <=> \A t \in s : w[t] = 0)
             T == {s \in SUBSET S : ~Good(s)}
  <1>1. SUFFICES ASSUME T # {} PROVE FALSE
    <2>1. S \in SUBSET S
      OBVIOUS
    <2> QED BY <2>1
  <1>2. PICK m \in T : \A u \in T : u \subseteq m => u = m
    <2>1. T \subseteq SUBSET S
      OBVIOUS
    <2> HIDE DEF T
    <2> QED BY <1>1, <2>1, SmallestSubset
  <1>3. m \subseteq S /\ ~Good(m) /\ IsFiniteSet(m)
    BY FS_Subset
  <1>4. m # {}
    BY <1>3, SumOfNone
  <1> DEFINE p == Pick(m)
             r == m \ {p}
  <1>5. p \in m /\ w[p] \in Nat
    BY <1>3, <1>4 DEF Pick
  <1>6. Good(r)
    BY <1>2, <1>3, <1>5
  <1>7. Sum(w, m) = w[p] + Sum(w, r)
    BY <1>3, <1>4, SumUnfolds
  <1>8. m = r \cup {p}
    BY <1>5
  <1>9. (\A t \in m : w[t] = 0) <=> (w[p] = 0 /\ \A t \in r : w[t] = 0)
    BY <1>8
  <1> HIDE DEF T, p, r
  <1> QED BY <1>3, <1>5, <1>6, <1>7, <1>9

\* A sum of ones counts.
LEMMA SumCounts ==
    ASSUME NEW S, IsFiniteSet(S), NEW w, \A s \in S : w[s] = 1
    PROVE  Sum(w, S) = Cardinality(S)
  <1> DEFINE T == {s \in SUBSET S : Sum(w, s) # Cardinality(s)}
  <1>1. SUFFICES ASSUME T # {} PROVE FALSE
    <2>1. S \in SUBSET S
      OBVIOUS
    <2> QED BY <2>1
  <1>2. PICK m \in T : \A u \in T : u \subseteq m => u = m
    <2>1. T \subseteq SUBSET S
      OBVIOUS
    <2> HIDE DEF T
    <2> QED BY <1>1, <2>1, SmallestSubset
  <1>3. m \subseteq S /\ Sum(w, m) # Cardinality(m) /\ IsFiniteSet(m)
    BY FS_Subset
  <1>4. m # {}
    BY <1>3, SumOfNone, FS_EmptySet
  <1> DEFINE p == Pick(m)
             r == m \ {p}
  <1>5. p \in m /\ w[p] = 1
    BY <1>3, <1>4 DEF Pick
  <1>6. Sum(w, r) = Cardinality(r)
    BY <1>2, <1>3, <1>5
  <1>7. Sum(w, m) = w[p] + Sum(w, r)
    BY <1>3, <1>4, SumUnfolds
  <1>8. Cardinality(r) = Cardinality(m) - 1 /\ Cardinality(m) \in Nat
    BY <1>3, <1>5, FS_RemoveElement, FS_CardinalityType
  <1> HIDE DEF T, p, r
  <1> QED BY <1>3, <1>5, <1>6, <1>7, <1>8

\* What a function makes of finitely many is finite.
LEMMA ImageIsFinite ==
    ASSUME NEW S, IsFiniteSet(S), NEW f
    PROVE  IsFiniteSet({f[x] : x \in S})
  <1> DEFINE T == {f[x] : x \in S}
             g == [x \in S |-> f[x]]
  <1>1. g \in Surjection(S, T)
    BY DEF Surjection
  <1> HIDE DEF g, T
  <1>2. IsFiniteSet(T)
    BY <1>1, FS_Surjection
  <1> QED BY <1>2 DEF T

\* A sum of one is its number.
LEMMA SumOfOne == ASSUME NEW w, NEW x, w[x] \in Int PROVE Sum(w, {x}) = w[x]
  <1>1. IsFiniteSet({x}) /\ x \in {x} /\ \A s \in {x} : w[s] \in Int
    BY FS_Singleton
  <1>2. Sum(w, {x}) = w[x] + Sum(w, {x} \ {x})
    <2> DEFINE S == {x}
    <2>1. IsFiniteSet(S) /\ x \in S /\ \A s \in S : w[s] \in Int
      BY <1>1
    <2> HIDE DEF S
    <2>2. Sum(w, S) = w[x] + Sum(w, S \ {x})
      BY <2>1, SumTakes
    <2> QED BY <2>2 DEF S
  <1>3. {x} \ {x} = {}
    OBVIOUS
  <1>4. Sum(w, {x}) = w[x] + Sum(w, {})
    BY <1>2, <1>3
  <1> QED BY <1>4, SumOfNone

\* A sum is that of the same numbers under other names.
LEMMA SumRenames ==
    ASSUME NEW A, IsFiniteSet(A), NEW g, \A a \in A, b \in A : g[a] = g[b] => a = b,
           NEW R, R = {g[a] : a \in A}, NEW f, NEW w, \A a \in A : w[a] = f[g[a]] /\ w[a] \in Int
    PROVE  Sum(f, R) = Sum(w, A)
  <1> DEFINE v == [k \in R |-> Sum(w, Of(A, g, k))]
  <1>1. IsFiniteSet(R)
    BY ImageIsFinite
  <1>2. \A a \in A : g[a] \in R
    OBVIOUS
  <1>3. Sum(v, R) = Sum(w, A)
    BY <1>1, <1>2, SumByKey
  <1>4. ASSUME NEW k \in R PROVE v[k] = f[k]
    <2>1. PICK a \in A : k = g[a]
      OBVIOUS
    <2>2. Of(A, g, k) = {a}
      BY <2>1 DEF Of
    <2>3. Sum(w, {a}) = w[a]
      BY SumOfOne
    <2> QED BY <2>1, <2>2, <2>3
  <1> HIDE DEF v
  <1>5. Sum(v, R) = Sum(f, R)
    BY <1>1, <1>4, SumSame
  <1> QED BY <1>3, <1>5

\* A sum with one more.
LEMMA SumExtends ==
    ASSUME NEW S, IsFiniteSet(S), NEW x, x \notin S, NEW T, T = S \cup {x}, NEW w, NEW v,
           w[x] \in Int, \A s \in S : w[s] = v[s] /\ v[s] \in Int
    PROVE  Sum(w, T) = w[x] + Sum(v, S)
  <1>1. IsFiniteSet(T)
    BY FS_AddElement
  <1>2. x \in T /\ T \ {x} = S /\ \A s \in T : w[s] \in Int
    OBVIOUS
  <1>3. Sum(w, T) = w[x] + Sum(w, T \ {x})
    BY <1>1, <1>2, SumTakes
  <1>4. Sum(w, S) = Sum(v, S)
    BY SumSame
  <1> QED BY <1>2, <1>3, <1>4
=============================================================================
