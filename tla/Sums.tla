-------------------------------- MODULE Sums --------------------------------
(***************************************************************************)
(* Facts about SumFunctionOnSet, the sum of the values of a function on a  *)
(* finite set.                                                             *)
(***************************************************************************)
EXTENDS Integers, FiniteSets, Functions, FiniteSetTheorems, TLAPS

Pick(s) == CHOOSE x \in s : TRUE

Iterates(g, f, S) ==
  g = [s \in SUBSET S |-> IF s = {} THEN 0 ELSE f[Pick(s)] + g[s \ {Pick(s)}]]

Iteration(f, S) == CHOOSE g : Iterates(g, f, S)

LEMMA SumIsIteration ==
  ASSUME NEW f, NEW S
  PROVE  SumFunctionOnSet(f, S) = Iteration(f, S)[S]
BY DEF SumFunctionOnSet, FoldFunctionOnSet, MapThenFoldSet, Iteration, Iterates, Pick

LEMMA MinimalSubset ==
  ASSUME NEW S, IsFiniteSet(S), NEW C \in SUBSET (SUBSET S), C # {}
  PROVE  \E U \in C : \A V \in C : V \subseteq U => V = U
<1>1. IsWellFoundedOn(StrictSubsetOrdering(S), SUBSET S)
  BY FS_FiniteSubsetsOfFinite, FS_StrictSubsetOrderingWellFounded
<1>2. PICK U \in C : \A V \in C : ~(<<V, U>> \in StrictSubsetOrdering(S))
  BY <1>1, WFMin
<1>3. QED
  BY <1>2 DEF StrictSubsetOrdering

-----------------------------------------------------------------------------
(* The fold that defines the sum is a function                             *)

LEMMA PickType ==
  ASSUME NEW S, S # {}
  PROVE  Pick(S) \in S
BY DEF Pick

LEMMA IteratesAt ==
  ASSUME NEW g, NEW f, NEW S, Iterates(g, f, S), NEW T \in SUBSET S
  PROVE  g[T] = IF T = {} THEN 0 ELSE f[Pick(T)] + g[T \ {Pick(T)}]
BY DEF Iterates

LEMMA IterationUnique ==
  ASSUME NEW f, NEW S, IsFiniteSet(S), NEW T \in SUBSET S, NEW U \in SUBSET T,
         NEW g, Iterates(g, f, T), NEW h, Iterates(h, f, U)
  PROVE  \A V \in SUBSET U : g[V] = h[V]
<1> DEFINE C == {V \in SUBSET U : g[V] # h[V]}
<1>1. SUFFICES ASSUME C # {} PROVE FALSE
  OBVIOUS
<1>2. C \in SUBSET (SUBSET S)
  OBVIOUS
<1>3. PICK V \in C : \A W \in C : W \subseteq V => W = V
  <2> HIDE DEF C
  <2>1. QED BY <1>1, <1>2, MinimalSubset
<1>4. V \in SUBSET T /\ V \in SUBSET U /\ g[V] # h[V]
  OBVIOUS
<1>5. /\ g[V] = IF V = {} THEN 0 ELSE f[Pick(V)] + g[V \ {Pick(V)}]
      /\ h[V] = IF V = {} THEN 0 ELSE f[Pick(V)] + h[V \ {Pick(V)}]
  BY <1>4, IteratesAt
<1>6. V # {}
  BY <1>4, <1>5
<1>7. V \ {Pick(V)} \notin C
  BY <1>3, <1>6, PickType
<1>8. g[V \ {Pick(V)}] = h[V \ {Pick(V)}]
  BY <1>4, <1>7
<1>9. QED
  BY <1>4, <1>5, <1>6, <1>8

LEMMA IterationIterates ==
  ASSUME NEW f, NEW S, \E g : Iterates(g, f, S)
  PROVE  Iterates(Iteration(f, S), f, S)
BY DEF Iteration

LEMMA IterationExists ==
  ASSUME NEW f, NEW S, IsFiniteSet(S)
  PROVE  \E g : Iterates(g, f, S)
<1> DEFINE C == {T \in SUBSET S : ~ \E g : Iterates(g, f, T)}
<1>1. SUFFICES ASSUME C # {} PROVE FALSE
  OBVIOUS
<1>2. C \in SUBSET (SUBSET S)
  OBVIOUS
<1>3. PICK U \in C : \A V \in C : V \subseteq U => V = U
  <2> HIDE DEF C
  <2>1. QED BY <1>1, <1>2, MinimalSubset
<1>4. U \in SUBSET S /\ ~ \E g : Iterates(g, f, U)
  OBVIOUS
<1>5. \A V \in SUBSET U : V # U => Iterates(Iteration(f, V), f, V)
  <2> TAKE V \in SUBSET U
  <2> HAVE V # U
  <2>1. V \notin C /\ V \in SUBSET S
    BY <1>3, <1>4
  <2>2. \E g : Iterates(g, f, V)
    BY <2>1
  <2>3. QED
    BY <2>2, IterationIterates
<1> HIDE DEF C
<1> DEFINE Rest(s) == s \ {Pick(s)}
           g == [s \in SUBSET U |->
                   IF s = {} THEN 0 ELSE f[Pick(s)] + Iteration(f, Rest(s))[Rest(s)]]
<1>6. \A s \in SUBSET U : s # {} => Rest(s) \in SUBSET U /\ Rest(s) # U
  BY PickType
<1>7. \A s \in SUBSET U : s # {} => g[Rest(s)] = Iteration(f, Rest(s))[Rest(s)]
  <2> TAKE s \in SUBSET U
  <2> HAVE s # {}
  <2> DEFINE r == Rest(s)
  <2>1. r \in SUBSET U /\ r # U /\ Iterates(Iteration(f, r), f, r)
    BY <1>5, <1>6
  <2>2. Iteration(f, r)[r] = IF r = {} THEN 0 ELSE f[Pick(r)] + Iteration(f, r)[Rest(r)]
    BY <2>1, IteratesAt
  <2>3. g[r] = IF r = {} THEN 0 ELSE f[Pick(r)] + Iteration(f, Rest(r))[Rest(r)]
    BY <2>1
  <2>4. ASSUME r # {} PROVE Iteration(f, r)[Rest(r)] = Iteration(f, Rest(r))[Rest(r)]
    <3>1. Rest(r) \in SUBSET r /\ Rest(r) \in SUBSET U /\ Rest(r) # U
      BY <1>6, <2>1, <2>4
    <3>2. Iterates(Iteration(f, Rest(r)), f, Rest(r))
      BY <1>5, <3>1
    <3>3. r \in SUBSET S
      BY <1>4, <2>1
    <3> HIDE DEF r, Rest, g
    <3>4. QED
      BY <2>1, <3>1, <3>2, <3>3, IterationUnique
  <2>5. g[r] = Iteration(f, r)[r]
    <3> HIDE DEF r, Rest, g
    <3>1. QED BY <2>2, <2>3, <2>4
  <2>6. QED
    BY <2>5
<1>8. g = [s \in SUBSET U |-> IF s = {} THEN 0 ELSE f[Pick(s)] + g[Rest(s)]]
  <2>1. \A s \in SUBSET U : g[s] = IF s = {} THEN 0 ELSE f[Pick(s)] + g[Rest(s)]
    <3> TAKE s \in SUBSET U
    <3>1. g[s] = IF s = {} THEN 0 ELSE f[Pick(s)] + Iteration(f, Rest(s))[Rest(s)]
      OBVIOUS
    <3> HIDE DEF g, Rest
    <3>2. QED BY <3>1, <1>7
  <2>2. g = [s \in SUBSET U |-> g[s]]
    OBVIOUS
  <2> HIDE DEF g, Rest
  <2>3. QED BY <2>1, <2>2
<1>9. Iterates(g, f, U)
  <2> HIDE DEF g
  <2>1. QED BY <1>8 DEF Iterates
<1>10. QED
  BY <1>4, <1>9

\* The sum of a finite set is the value of one element and the sum of the rest.
LEMMA SumUnfolds ==
  ASSUME NEW f, NEW S, IsFiniteSet(S)
  PROVE  SumFunctionOnSet(f, S) =
           IF S = {} THEN 0 ELSE f[Pick(S)] + SumFunctionOnSet(f, S \ {Pick(S)})
<1> DEFINE R == S \ {Pick(S)}
<1>1. IsFiniteSet(R) /\ R \in SUBSET S /\ S \in SUBSET S /\ R \in SUBSET R
  BY FS_Subset
<1>2. Iterates(Iteration(f, S), f, S) /\ Iterates(Iteration(f, R), f, R)
  BY <1>1, IterationExists, IterationIterates
<1>3. Iteration(f, S)[S] = IF S = {} THEN 0 ELSE f[Pick(S)] + Iteration(f, S)[R]
  BY <1>2, IteratesAt
<1>4. Iteration(f, S)[R] = Iteration(f, R)[R]
  <2> HIDE DEF R
  <2>1. QED BY <1>1, <1>2, IterationUnique
<1>5. QED
  BY <1>3, <1>4, SumIsIteration

-----------------------------------------------------------------------------
(* What the sums of a model need                                           *)

LEMMA SumOfNone ==
  ASSUME NEW f
  PROVE  SumFunctionOnSet(f, {}) = 0
BY SumUnfolds, FS_EmptySet

LEMMA SumInt ==
  ASSUME NEW f, NEW S, IsFiniteSet(S), \A x \in S : f[x] \in Int
  PROVE  SumFunctionOnSet(f, S) \in Int
<1> DEFINE C == {T \in SUBSET S : SumFunctionOnSet(f, T) \notin Int}
<1>1. SUFFICES ASSUME C # {} PROVE FALSE
  OBVIOUS
<1>2. PICK T \in C : \A U \in C : U \subseteq T => U = T
  <2>1. C \in SUBSET (SUBSET S)
    OBVIOUS
  <2> HIDE DEF C
  <2>2. QED BY <1>1, <2>1, MinimalSubset
<1>3. T \in SUBSET S /\ IsFiniteSet(T) /\ SumFunctionOnSet(f, T) \notin Int
  BY FS_Subset
<1>4. T # {}
  BY <1>3, SumOfNone
<1>5. Pick(T) \in T /\ T \ {Pick(T)} \notin C
  BY <1>2, <1>4, PickType
<1>6. SumFunctionOnSet(f, T \ {Pick(T)}) \in Int
  BY <1>3, <1>5
<1>7. QED
  BY <1>3, <1>4, <1>5, <1>6, SumUnfolds

\* Any element may be taken out first.
LEMMA SumTakes ==
  ASSUME NEW f, NEW S, IsFiniteSet(S), \A x \in S : f[x] \in Int, NEW x \in S
  PROVE  SumFunctionOnSet(f, S) = f[x] + SumFunctionOnSet(f, S \ {x})
<1> DEFINE Takes(T) == \A y \in T : SumFunctionOnSet(f, T) = f[y] + SumFunctionOnSet(f, T \ {y})
           C == {T \in SUBSET S : ~Takes(T)}
<1>1. SUFFICES ASSUME C # {} PROVE FALSE
  OBVIOUS
<1>2. PICK T \in C : \A U \in C : U \subseteq T => U = T
  <2>1. C \in SUBSET (SUBSET S)
    OBVIOUS
  <2> HIDE DEF C
  <2>2. QED BY <1>1, <2>1, MinimalSubset
<1>3. T \in SUBSET S /\ IsFiniteSet(T) /\ ~Takes(T)
  BY FS_Subset
<1>4. PICK y \in T : SumFunctionOnSet(f, T) # f[y] + SumFunctionOnSet(f, T \ {y})
  BY <1>3
<1> DEFINE z == Pick(T)
<1>5. z \in T /\ SumFunctionOnSet(f, T) = f[z] + SumFunctionOnSet(f, T \ {z})
  BY <1>3, <1>4, SumUnfolds, PickType
<1> HIDE DEF z
<1>6. y # z
  BY <1>4, <1>5
<1>7. Takes(T \ {y}) /\ Takes(T \ {z})
  <2>1. T \ {y} \notin C /\ T \ {z} \notin C
    BY <1>2, <1>5
  <2>2. QED BY <1>3, <2>1
<1>8. SumFunctionOnSet(f, T \ {y}) = f[z] + SumFunctionOnSet(f, (T \ {y}) \ {z})
  BY <1>5, <1>6, <1>7
<1>9. SumFunctionOnSet(f, T \ {z}) = f[y] + SumFunctionOnSet(f, (T \ {z}) \ {y})
  BY <1>6, <1>7
<1>10. (T \ {y}) \ {z} = (T \ {z}) \ {y}
  OBVIOUS
<1>11. IsFiniteSet((T \ {y}) \ {z}) /\ (T \ {y}) \ {z} \subseteq S
  BY <1>3, FS_Subset
<1>12. SumFunctionOnSet(f, (T \ {y}) \ {z}) \in Int
  BY <1>11, SumInt
<1>13. f[y] \in Int /\ f[z] \in Int
  BY <1>3, <1>5
<1>14. \A a, b, r \in Int : a + (b + r) = b + (a + r)
  OBVIOUS
<1> DEFINE r == SumFunctionOnSet(f, (T \ {y}) \ {z})
<1>15. f[z] + (f[y] + r) = f[y] + (f[z] + r)
  <2> HIDE DEF r, Takes, C
  <2>1. r \in Int
    BY <1>12 DEF r
  <2>2. QED BY <2>1, <1>13, <1>14
<1>16. SumFunctionOnSet(f, T) = f[z] + (f[y] + r)
  BY <1>5, <1>9, <1>10
<1>17. SumFunctionOnSet(f, T \ {y}) = f[z] + r
  BY <1>8
<1>18. QED
  <2> HIDE DEF r, Takes, C
  <2>1. QED BY <1>4, <1>15, <1>16, <1>17

LEMMA SumAdds ==
  ASSUME NEW f, NEW S, IsFiniteSet(S), NEW x, x \notin S,
         \A y \in S \cup {x} : f[y] \in Int
  PROVE  SumFunctionOnSet(f, S \cup {x}) = f[x] + SumFunctionOnSet(f, S)
<1>1. IsFiniteSet(S \cup {x}) /\ (S \cup {x}) \ {x} = S
  BY FS_AddElement
<1>2. QED
  BY <1>1, SumTakes

\* A sum depends on the values of its elements only.
LEMMA SumSame ==
  ASSUME NEW f, NEW g, NEW S, IsFiniteSet(S), \A x \in S : f[x] = g[x]
  PROVE  SumFunctionOnSet(f, S) = SumFunctionOnSet(g, S)
<1> DEFINE C == {T \in SUBSET S : SumFunctionOnSet(f, T) # SumFunctionOnSet(g, T)}
<1>1. SUFFICES ASSUME C # {} PROVE FALSE
  OBVIOUS
<1>2. PICK T \in C : \A U \in C : U \subseteq T => U = T
  <2>1. C \in SUBSET (SUBSET S)
    OBVIOUS
  <2> HIDE DEF C
  <2>2. QED BY <1>1, <2>1, MinimalSubset
<1>3. T \in SUBSET S /\ IsFiniteSet(T) /\ SumFunctionOnSet(f, T) # SumFunctionOnSet(g, T)
  BY FS_Subset
<1>4. T # {}
  BY <1>3, SumOfNone
<1>5. Pick(T) \in T /\ T \ {Pick(T)} \notin C
  BY <1>2, <1>4, PickType
<1>6. SumFunctionOnSet(f, T \ {Pick(T)}) = SumFunctionOnSet(g, T \ {Pick(T)})
  BY <1>3, <1>5
<1>7. f[Pick(T)] = g[Pick(T)]
  BY <1>3, <1>5
<1>8. QED
  BY <1>3, <1>4, <1>6, <1>7, SumUnfolds

LEMMA SumNat ==
  ASSUME NEW f, NEW S, IsFiniteSet(S), \A x \in S : f[x] \in Nat
  PROVE  SumFunctionOnSet(f, S) \in Nat
<1> DEFINE C == {T \in SUBSET S : SumFunctionOnSet(f, T) \notin Nat}
<1>1. SUFFICES ASSUME C # {} PROVE FALSE
  OBVIOUS
<1>2. PICK T \in C : \A U \in C : U \subseteq T => U = T
  <2>1. C \in SUBSET (SUBSET S)
    OBVIOUS
  <2> HIDE DEF C
  <2>2. QED BY <1>1, <2>1, MinimalSubset
<1>3. T \in SUBSET S /\ IsFiniteSet(T) /\ SumFunctionOnSet(f, T) \notin Nat
  BY FS_Subset
<1>4. T # {}
  BY <1>3, SumOfNone
<1>5. Pick(T) \in T /\ T \ {Pick(T)} \notin C
  BY <1>2, <1>4, PickType
<1>6. SumFunctionOnSet(f, T \ {Pick(T)}) \in Nat
  BY <1>3, <1>5
<1>7. QED
  BY <1>3, <1>4, <1>5, <1>6, SumUnfolds

LEMMA SumOfZeros ==
  ASSUME NEW f, NEW S, IsFiniteSet(S), \A x \in S : f[x] = 0
  PROVE  SumFunctionOnSet(f, S) = 0
<1> DEFINE C == {T \in SUBSET S : SumFunctionOnSet(f, T) # 0}
<1>1. SUFFICES ASSUME C # {} PROVE FALSE
  OBVIOUS
<1>2. PICK T \in C : \A U \in C : U \subseteq T => U = T
  <2>1. C \in SUBSET (SUBSET S)
    OBVIOUS
  <2> HIDE DEF C
  <2>2. QED BY <1>1, <2>1, MinimalSubset
<1>3. T \in SUBSET S /\ IsFiniteSet(T) /\ SumFunctionOnSet(f, T) # 0
  BY FS_Subset
<1>4. T # {}
  BY <1>3, SumOfNone
<1>5. Pick(T) \in T /\ T \ {Pick(T)} \notin C
  BY <1>2, <1>4, PickType
<1>6. SumFunctionOnSet(f, T \ {Pick(T)}) = 0
  BY <1>3, <1>5
<1>7. QED
  BY <1>3, <1>4, <1>5, <1>6, SumUnfolds

\* A sum of natural numbers grows with its set.
LEMMA SumGrows ==
  ASSUME NEW f, NEW S, IsFiniteSet(S), \A x \in S : f[x] \in Nat, NEW R \in SUBSET S
  PROVE  SumFunctionOnSet(f, R) <= SumFunctionOnSet(f, S)
<1> DEFINE C == {T \in SUBSET S : R \subseteq T /\ ~(SumFunctionOnSet(f, R) <= SumFunctionOnSet(f, T))}
<1>1. SUFFICES ASSUME C # {} PROVE FALSE
  OBVIOUS
<1>2. PICK T \in C : \A U \in C : U \subseteq T => U = T
  <2>1. C \in SUBSET (SUBSET S)
    OBVIOUS
  <2> HIDE DEF C
  <2>2. QED BY <1>1, <2>1, MinimalSubset
<1>3. /\ T \in SUBSET S /\ R \subseteq T /\ IsFiniteSet(T) /\ IsFiniteSet(R)
      /\ ~(SumFunctionOnSet(f, R) <= SumFunctionOnSet(f, T))
  BY FS_Subset
<1>4. SumFunctionOnSet(f, R) \in Nat
  BY <1>3, SumNat
<1>5. PICK x \in T : x \notin R
  BY <1>3, <1>4
<1>6. SumFunctionOnSet(f, T) = f[x] + SumFunctionOnSet(f, T \ {x})
  BY <1>3, SumTakes
<1>7. T \ {x} \notin C
  BY <1>2
<1>8. SumFunctionOnSet(f, R) <= SumFunctionOnSet(f, T \ {x})
  BY <1>3, <1>5, <1>7
<1>9. SumFunctionOnSet(f, T \ {x}) \in Nat /\ f[x] \in Nat
  <2>1. IsFiniteSet(T \ {x})
    BY <1>3, FS_Subset
  <2>2. QED BY <1>3, <2>1, SumNat
<1>10. \A a, b, c, d \in Nat : a <= b /\ d = c + b => a <= d
  OBVIOUS
<1>11. f[x] + SumFunctionOnSet(f, T \ {x}) \in Nat
  BY <1>9
<1>12. QED
  <2> HIDE DEF C
  <2>1. QED BY <1>3, <1>4, <1>6, <1>8, <1>9, <1>10, <1>11

LEMMA SumPrefix ==
  ASSUME NEW f, NEW n \in Nat \ {0}, \A i \in 1..n : f[i] \in Int
  PROVE  SumFunctionOnSet(f, 1..n) = f[n] + SumFunctionOnSet(f, 1..(n - 1))
<1>1. IsFiniteSet(1..n) /\ n \in 1..n /\ (1..n) \ {n} = 1..(n - 1)
  BY FS_Interval
<1>2. QED
  BY <1>1, SumTakes

\* A non-empty set of natural numbers has a least element.
LEMMA LeastNatural ==
  ASSUME NEW C \in SUBSET Nat, C # {}
  PROVE  \E m \in C : \A n \in C : m <= n
<1>1. PICK k \in C : k \in Nat
  OBVIOUS
<1> DEFINE D == {T \in SUBSET (0..k) : \E n \in C : n <= k /\ T = 0..n}
<1>2. IsFiniteSet(0..k) /\ D \in SUBSET (SUBSET (0..k))
  BY <1>1, FS_Interval
<1>3. 0..k \in D
  BY <1>1
<1>4. PICK U \in D : \A V \in D : V \subseteq U => V = U
  <2> DEFINE S == 0..k
  <2>1. D # {}
    BY <1>3
  <2>2. IsFiniteSet(S)
    BY <1>2
  <2>3. D \in SUBSET (SUBSET S)
    OBVIOUS
  <2> HIDE DEF D, S
  <2>4. \E U \in D : \A V \in D : V \subseteq U => V = U
    BY ONLY <2>1, <2>2, <2>3, MinimalSubset
  <2>5. QED BY <2>4
<1>5. PICK m \in C : m <= k /\ U = 0..m
  OBVIOUS
<1>6. ASSUME NEW n \in C, ~(m <= n) PROVE FALSE
  <2>1. n \in Nat /\ m \in Nat /\ n < m /\ n <= k
    BY <1>1, <1>5, <1>6
  <2>2. 0..n \in D
    BY <1>1, <2>1
  <2>3. 0..n \subseteq U /\ m \in U /\ m \notin 0..n
    BY <1>5, <2>1
  <2>4. QED
    BY <1>4, <2>2, <2>3
<1>7. QED
  BY <1>6
=============================================================================
