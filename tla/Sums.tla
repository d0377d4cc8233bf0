-------------------------------- MODULE Sums --------------------------------
(***************************************************************************)
(* Sums over finite sets (MapThenSumSet), for the proofs of modules that   *)
(* count with them: what one element adds, and what changes nothing; and,  *)
(* for them and for other recursive functions, that numbers have extremes  *)
(* and that what defines a function by recursion has a solution.           *)
(*                                                                         *)
(* The induction theorems of the library take a predicate as a parameter;  *)
(* here the set of the sizes at which a claim fails has a smallest member, *)
(* which is then refuted.                                                  *)
(***************************************************************************)
EXTENDS Integers, FiniteSets, FiniteSetsExt, FiniteSetTheorems,
        WellFoundedInduction, TLAPS

\* The sum of f over S.
SumOver(f, S) == MapThenSumSet(LAMBDA x : f[x], S)

\* A set of natural numbers has a smallest one.
LEMMA SmallestExists ==
  ASSUME NEW T, T \subseteq Nat, T # {}
  PROVE  \E x \in T : \A y \in T : x <= y
<1>1. PICK x \in T : \A y \in T : ~ (<<y, x>> \in OpToRel(<, Nat))
  BY NatLessThanWellFounded, WFMin
<1>2. ASSUME NEW y \in T
      PROVE  x <= y
  <2>1. y < x => <<y, x>> \in OpToRel(<, Nat)
    BY DEF OpToRel
  <2>2. ~ (y < x) /\ x \in Nat /\ y \in Nat
    BY <1>1, <2>1
  <2>3. QED
    BY <2>2
<1>3. QED
  BY <1>2

-----------------------------------------------------------------------------
(* The recursion behind the sum *)

First(s) == CHOOSE x \in s : TRUE
Added(f, g, s) == IF s = {} THEN 0 ELSE f[First(s)] + g[s \ {First(s)}]
Recursion(f, S) == CHOOSE g : g = [s \in SUBSET S |-> Added(f, g, s)]

LEMMA SumIsRecursion == ASSUME NEW f, NEW S PROVE SumOver(f, S) = Recursion(f, S)[S]
BY DEF SumOver, MapThenSumSet, MapThenFoldSet, Recursion, Added, First

\* A function that follows the recursion on the subsets of S up to a size.
Recurses(g, f, S, n) ==
  \A s \in SUBSET S : Cardinality(s) <= n => g[s] = Added(f, g, s)

LEMMA FirstIsIn == ASSUME NEW s, s # {} PROVE First(s) \in s
BY DEF First

\* Taking an element away.
LEMMA OneLess ==
  ASSUME NEW s, IsFiniteSet(s), NEW x \in s
  PROVE  /\ IsFiniteSet(s \ {x}) /\ Cardinality(s \ {x}) = Cardinality(s) - 1
         /\ Cardinality(s) \in Nat \ {0} /\ Cardinality(s \ {x}) \in Nat
BY FS_RemoveElement, FS_CardinalityType, FS_EmptySet

LEMMA FollowersExist ==
  ASSUME NEW f, NEW S, IsFiniteSet(S)
  PROVE  \A n \in Nat : \E g : Recurses(g, f, S, n)
<1>. DEFINE Fails == {n \in Nat : ~ \E g : Recurses(g, f, S, n)}
<1>1. SUFFICES ASSUME Fails # {} PROVE FALSE
  OBVIOUS
<1>2. PICK n \in Fails : \A m \in Fails : n <= m
  BY <1>1, SmallestExists
<1>3. n \in Nat /\ ~ \E g : Recurses(g, f, S, n)
  BY <1>2
<1>4. \A s \in SUBSET S : IsFiniteSet(s) /\ Cardinality(s) \in Nat
  BY FS_Subset, FS_CardinalityType
<1>5. CASE n = 0
  <2>. DEFINE g == [s \in SUBSET S |-> 0]
  <2>1. \A s \in SUBSET S : Cardinality(s) <= 0 => s = {}
    BY <1>4, FS_EmptySet
  <2>2. Recurses(g, f, S, 0)
    BY <2>1 DEF Recurses, Added
  <2>. QED
    BY <1>3, <1>5, <2>2
<1>6. CASE n # 0
  <2>1. n - 1 \in Nat /\ n - 1 \notin Fails
    BY <1>2, <1>3, <1>6
  <2>2. PICK g : Recurses(g, f, S, n - 1)
    BY <2>1
  <2>. DEFINE h == [s \in SUBSET S |-> Added(f, g, s)]
  <2>3. \A s \in SUBSET S : Cardinality(s) <= n - 1 => h[s] = g[s]
    BY <2>2 DEF Recurses
  <2>4. ASSUME NEW s \in SUBSET S, Cardinality(s) <= n
        PROVE  h[s] = Added(f, h, s)
    <3>1. CASE s = {}
      BY <3>1 DEF Added
    <3>2. CASE s # {}
      <4>1. First(s) \in s
        BY <3>2, FirstIsIn
      <4>2. Cardinality(s \ {First(s)}) <= n - 1
        BY <1>3, <1>4, <2>4, <4>1, OneLess
      <4>3. s \ {First(s)} \in SUBSET S
        OBVIOUS
      <4>4. h[s \ {First(s)}] = g[s \ {First(s)}]
        BY <2>3, <4>2, <4>3
      <4>5. h[s] = Added(f, g, s)
        OBVIOUS
      <4>. QED
        BY <3>2, <4>4, <4>5 DEF Added
    <3>. QED
      BY <3>1, <3>2
  <2>5. Recurses(h, f, S, n)
    BY <2>4 DEF Recurses
  <2>. QED
    BY <1>3, <2>5
<1>. QED
  BY <1>5, <1>6

\* The recursion is well founded: what defines the sum has a solution.
LEMMA RecursionAt ==
  ASSUME NEW f, NEW S, IsFiniteSet(S), NEW s \in SUBSET S
  PROVE  Recursion(f, S)[s] = Added(f, Recursion(f, S), s)
<1>1. Cardinality(S) \in Nat
  BY FS_CardinalityType
<1>2. PICK g : Recurses(g, f, S, Cardinality(S))
  BY <1>1, FollowersExist
<1>3. \A t \in SUBSET S : Cardinality(t) <= Cardinality(S)
  BY FS_Subset
<1>. DEFINE h == [t \in SUBSET S |-> g[t]]
<1>4. \A t \in SUBSET S : g[t] = Added(f, g, t)
  BY <1>2, <1>3 DEF Recurses
<1>5. \A t \in SUBSET S : Added(f, g, t) = Added(f, h, t)
  <2>1. \A t \in SUBSET S : h[t \ {First(t)}] = g[t \ {First(t)}]
    OBVIOUS
  <2>. QED
    BY <2>1 DEF Added
<1>6. h = [t \in SUBSET S |-> Added(f, h, t)]
  BY <1>4, <1>5
<1>7. \E x : x = [t \in SUBSET S |-> Added(f, x, t)]
  BY <1>6
<1>. DEFINE r == Recursion(f, S)
<1>8. r = [t \in SUBSET S |-> Added(f, r, t)]
  BY <1>7 DEF Recursion
<1>. HIDE DEF r
<1>9. r[s] = Added(f, r, s)
  BY <1>8
<1>. QED
  BY <1>9 DEF r

\* The larger set it is taken from makes no difference.
LEMMA RecursionIsLocal ==
  ASSUME NEW f, NEW S, IsFiniteSet(S), NEW T \in SUBSET S
  PROVE  Recursion(f, S)[T] = Recursion(f, T)[T]
<1>. DEFINE Same(s) == Recursion(f, S)[s] = Recursion(f, T)[s]
            Fails == {n \in Nat : \E s \in SUBSET T : Cardinality(s) = n /\ ~ Same(s)}
<1>0. IsFiniteSet(T) /\ \A s \in SUBSET T : IsFiniteSet(s) /\ Cardinality(s) \in Nat
  BY FS_Subset, FS_CardinalityType
<1>1. SUFFICES ASSUME Fails # {} PROVE FALSE
  BY <1>0
<1>2. PICK n \in Fails : \A m \in Fails : n <= m
  BY <1>1, SmallestExists
<1>3. PICK s \in SUBSET T : Cardinality(s) = n /\ ~ Same(s)
  BY <1>2
<1>4. /\ Recursion(f, S)[s] = Added(f, Recursion(f, S), s)
      /\ Recursion(f, T)[s] = Added(f, Recursion(f, T), s)
  BY <1>0, RecursionAt
<1>5. s # {}
  BY <1>3, <1>4 DEF Added
<1>6. /\ s \ {First(s)} \in SUBSET T /\ Cardinality(s \ {First(s)}) = n - 1
      /\ n - 1 \in Nat
  BY <1>0, <1>3, <1>5, FirstIsIn, OneLess
<1>7. n - 1 \notin Fails
  BY <1>2, <1>6
<1>8. Same(s \ {First(s)})
  BY <1>6, <1>7
<1>. QED
  BY <1>3, <1>4, <1>5, <1>8 DEF Added

-----------------------------------------------------------------------------
(* Sums *)

Integral(f, S) == \A x \in S : f[x] \in Int

\* Nothing adds up to zero.
LEMMA SumOfNothing == ASSUME NEW f PROVE SumOver(f, {}) = 0
BY SumIsRecursion, RecursionAt, FS_EmptySet DEF Added

LEMMA SumFromFirst ==
  ASSUME NEW f, NEW S, IsFiniteSet(S), S # {}
  PROVE  SumOver(f, S) = f[First(S)] + SumOver(f, S \ {First(S)})
<1>1. SumOver(f, S) = f[First(S)] + Recursion(f, S)[S \ {First(S)}]
  BY SumIsRecursion, RecursionAt DEF Added
<1>2. Recursion(f, S)[S \ {First(S)}] = Recursion(f, S \ {First(S)})[S \ {First(S)}]
  BY RecursionIsLocal
<1>. QED
  BY <1>1, <1>2, SumIsRecursion

\* A sum of integers is one, and of natural numbers too.
LEMMA SumIsInteger ==
  ASSUME NEW f, NEW S, IsFiniteSet(S), Integral(f, S)
  PROVE  /\ SumOver(f, S) \in Int
         /\ (\A x \in S : f[x] >= 0) => SumOver(f, S) >= 0
<1>. DEFINE Fine(s) == SumOver(f, s) \in Int /\ ((\A x \in S : f[x] >= 0) => SumOver(f, s) >= 0)
            Fails == {n \in Nat : \E s \in SUBSET S : Cardinality(s) = n /\ ~ Fine(s)}
<1>0. \A s \in SUBSET S : IsFiniteSet(s) /\ Cardinality(s) \in Nat
  BY FS_Subset, FS_CardinalityType
<1>1. SUFFICES ASSUME Fails # {} PROVE FALSE
  BY <1>0
<1>2. PICK n \in Fails : \A m \in Fails : n <= m
  BY <1>1, SmallestExists
<1>3. PICK s \in SUBSET S : Cardinality(s) = n /\ ~ Fine(s)
  BY <1>2
<1>4. s # {}
  BY <1>3, SumOfNothing
<1>5. /\ s \ {First(s)} \in SUBSET S /\ Cardinality(s \ {First(s)}) = n - 1
      /\ n - 1 \in Nat /\ First(s) \in S
  BY <1>0, <1>3, <1>4, FirstIsIn, OneLess
<1>6. n - 1 \notin Fails
  BY <1>2, <1>5
<1>7. Fine(s \ {First(s)})
  BY <1>5, <1>6
<1>8. SumOver(f, s) = f[First(s)] + SumOver(f, s \ {First(s)})
  BY <1>0, <1>4, SumFromFirst
<1>9. f[First(s)] \in Int
  BY <1>5 DEF Integral
<1>. QED
  BY <1>3, <1>5, <1>7, <1>8, <1>9

\* Any member may be counted first.
THEOREM SumOfTheRest ==
  ASSUME NEW f, NEW S, IsFiniteSet(S), Integral(f, S), NEW x \in S
  PROVE  SumOver(f, S) = f[x] + SumOver(f, S \ {x})
<1>. DEFINE Fine(s) == \A y \in s : SumOver(f, s) = f[y] + SumOver(f, s \ {y})
            Fails == {n \in Nat : \E s \in SUBSET S : Cardinality(s) = n /\ ~ Fine(s)}
<1>0. \A s \in SUBSET S : IsFiniteSet(s) /\ Cardinality(s) \in Nat
  BY FS_Subset, FS_CardinalityType
<1>1. SUFFICES ASSUME Fails # {} PROVE FALSE
  BY <1>0
<1>2. PICK n \in Fails : \A m \in Fails : n <= m
  BY <1>1, SmallestExists
<1>3. PICK s \in SUBSET S : Cardinality(s) = n /\ ~ Fine(s)
  BY <1>2
<1>4. PICK y \in s : SumOver(f, s) # f[y] + SumOver(f, s \ {y})
  BY <1>3
<1>. DEFINE z == First(s)
<1>5. z \in s /\ SumOver(f, s) = f[z] + SumOver(f, s \ {z})
  BY <1>0, <1>4, FirstIsIn, SumFromFirst
<1>6. y # z
  BY <1>4, <1>5
<1>7. /\ s \ {z} \in SUBSET S /\ Cardinality(s \ {z}) = n - 1 /\ n - 1 \in Nat
      /\ s \ {y} \in SUBSET S /\ Cardinality(s \ {y}) = n - 1
  BY <1>0, <1>3, <1>4, <1>5, OneLess
<1>8. Fine(s \ {z}) /\ Fine(s \ {y})
  <2>1. n - 1 \notin Fails
    BY <1>2, <1>7
  <2>. QED
    BY <1>7, <2>1
<1>9. /\ SumOver(f, s \ {z}) = f[y] + SumOver(f, (s \ {z}) \ {y})
      /\ SumOver(f, s \ {y}) = f[z] + SumOver(f, (s \ {y}) \ {z})
  BY <1>4, <1>5, <1>6, <1>8
<1>10. (s \ {z}) \ {y} = (s \ {y}) \ {z} /\ (s \ {y}) \ {z} \in SUBSET S
  OBVIOUS
<1>11. SumOver(f, (s \ {y}) \ {z}) \in Int /\ f[y] \in Int /\ f[z] \in Int
  BY <1>0, <1>4, <1>5, <1>10, SumIsInteger DEF Integral
<1>. HIDE DEF z
<1>12. f[y] + (f[z] + SumOver(f, (s \ {y}) \ {z})) = f[z] + (f[y] + SumOver(f, (s \ {y}) \ {z}))
  BY <1>11
<1>. QED
  BY <1>4, <1>5, <1>9, <1>10, <1>12

\* One more member.
THEOREM SumWithOneMore ==
  ASSUME NEW f, NEW S, IsFiniteSet(S), NEW x, x \notin S, Integral(f, S \cup {x})
  PROVE  SumOver(f, S \cup {x}) = f[x] + SumOver(f, S)
<1>1. IsFiniteSet(S \cup {x}) /\ (S \cup {x}) \ {x} = S
  BY FS_AddElement
<1>. QED
  BY <1>1, SumOfTheRest

\* Only what is counted matters.
THEOREM SumOfTheSame ==
  ASSUME NEW f, NEW g, NEW S, IsFiniteSet(S), \A x \in S : f[x] = g[x]
  PROVE  SumOver(f, S) = SumOver(g, S)
<1>. DEFINE Same(s) == SumOver(f, s) = SumOver(g, s)
            Fails == {n \in Nat : \E s \in SUBSET S : Cardinality(s) = n /\ ~ Same(s)}
<1>0. \A s \in SUBSET S : IsFiniteSet(s) /\ Cardinality(s) \in Nat
  BY FS_Subset, FS_CardinalityType
<1>1. SUFFICES ASSUME Fails # {} PROVE FALSE
  BY <1>0
<1>2. PICK n \in Fails : \A m \in Fails : n <= m
  BY <1>1, SmallestExists
<1>3. PICK s \in SUBSET S : Cardinality(s) = n /\ ~ Same(s)
  BY <1>2
<1>4. s # {}
  BY <1>3, SumOfNothing
<1>5. /\ s \ {First(s)} \in SUBSET S /\ Cardinality(s \ {First(s)}) = n - 1
      /\ n - 1 \in Nat /\ First(s) \in S
  BY <1>0, <1>3, <1>4, FirstIsIn, OneLess
<1>6. n - 1 \notin Fails
  BY <1>2, <1>5
<1>7. Same(s \ {First(s)})
  BY <1>5, <1>6
<1>8. /\ SumOver(f, s) = f[First(s)] + SumOver(f, s \ {First(s)})
      /\ SumOver(g, s) = g[First(s)] + SumOver(g, s \ {First(s)})
  BY <1>0, <1>4, SumFromFirst
<1>. QED
  BY <1>3, <1>5, <1>7, <1>8

-----------------------------------------------------------------------------
(* Sums of counts *)

\* What the members of K gather between them.
Gathered(A, K) == UNION {A[k] : k \in K}

\* Counts of sets that share nothing add up to the count of all they hold.
THEOREM SumOfCounts ==
  ASSUME NEW K, IsFiniteSet(K), NEW f, NEW A,
         \A k \in K : IsFiniteSet(A[k]) /\ f[k] = Cardinality(A[k]),
         \A k, l \in K : k # l => A[k] \cap A[l] = {}
  PROVE  IsFiniteSet(Gathered(A, K)) /\ SumOver(f, K) = Cardinality(Gathered(A, K))
<1>. DEFINE Fine(s) == IsFiniteSet(Gathered(A, s)) /\ SumOver(f, s) = Cardinality(Gathered(A, s))
            Fails == {n \in Nat : \E s \in SUBSET K : Cardinality(s) = n /\ ~ Fine(s)}
<1>0. \A s \in SUBSET K : IsFiniteSet(s) /\ Cardinality(s) \in Nat
  BY FS_Subset, FS_CardinalityType
<1>1. SUFFICES ASSUME Fails # {} PROVE FALSE
  BY <1>0
<1>2. PICK n \in Fails : \A m \in Fails : n <= m
  BY <1>1, SmallestExists
<1>3. PICK s \in SUBSET K : Cardinality(s) = n /\ ~ Fine(s)
  BY <1>2
<1>4. s # {}
  <2>1. Gathered(A, {}) = {}
    BY DEF Gathered
  <2>. QED
    BY <1>3, <2>1, SumOfNothing, FS_EmptySet
<1>. DEFINE z == First(s)
            rest == s \ {z}
<1>5. /\ rest \in SUBSET K /\ Cardinality(rest) = n - 1
      /\ n - 1 \in Nat /\ z \in K /\ z \in s
  BY <1>0, <1>3, <1>4, FirstIsIn, OneLess
<1>6. n - 1 \notin Fails
  BY <1>2, <1>5
<1>7. Fine(rest)
  BY <1>5, <1>6
<1>8. SumOver(f, s) = f[z] + SumOver(f, rest)
  BY <1>0, <1>4, SumFromFirst
<1>9. Gathered(A, s) = A[z] \cup Gathered(A, rest) /\ A[z] \cap Gathered(A, rest) = {}
  BY <1>5 DEF Gathered
<1>10. /\ IsFiniteSet(Gathered(A, s))
       /\ Cardinality(Gathered(A, s))
            = Cardinality(A[z]) + Cardinality(Gathered(A, rest)) - Cardinality({})
  <2>1. IsFiniteSet(A[z]) /\ IsFiniteSet(Gathered(A, rest))
    BY <1>5, <1>7
  <2>. HIDE DEF z, rest
  <2>. QED
    BY <1>9, <2>1, FS_Union
<1>11. Cardinality(A[z]) \in Nat /\ Cardinality(Gathered(A, rest)) \in Nat /\ Cardinality({}) = 0
  BY <1>5, <1>7, FS_CardinalityType, FS_EmptySet
<1>. QED
  BY <1>3, <1>5, <1>7, <1>8, <1>10, <1>11

\* Shares of one finite set that do not overlap add up to no more than it.
THEOREM SumFits ==
  ASSUME NEW K, IsFiniteSet(K), NEW f, NEW A, NEW T, IsFiniteSet(T),
         \A k \in K : A[k] \subseteq T /\ f[k] = Cardinality(A[k]),
         \A k, l \in K : k # l => A[k] \cap A[l] = {}
  PROVE  SumOver(f, K) <= Cardinality(T)
<1>1. \A k \in K : IsFiniteSet(A[k])
  BY FS_Subset
<1>2. SumOver(f, K) = Cardinality(Gathered(A, K))
  BY <1>1, SumOfCounts
<1>3. Gathered(A, K) \in SUBSET T
  BY DEF Gathered
<1>. QED
  BY <1>2, <1>3, FS_Subset

\* A set counted by what its members are counted by.
THEOREM SumOfTally ==
  ASSUME NEW S, IsFiniteSet(S), NEW key, NEW K, IsFiniteSet(K), NEW f,
         \A x \in S : key[x] \in K,
         \A k \in K : f[k] = Cardinality({x \in S : key[x] = k})
  PROVE  SumOver(f, K) = Cardinality(S)
<1>. DEFINE A == [k \in K |-> {x \in S : key[x] = k}]
<1>1. \A k \in K : IsFiniteSet(A[k]) /\ f[k] = Cardinality(A[k])
  BY FS_Subset
<1>2. \A k, l \in K : k # l => A[k] \cap A[l] = {}
  OBVIOUS
<1>3. Gathered(A, K) = S
  BY DEF Gathered
<1>. HIDE DEF A
<1>. QED
  BY <1>1, <1>2, <1>3, SumOfCounts

\* Ones add up to how many there are.
THEOREM SumOfOnes ==
  ASSUME NEW S, IsFiniteSet(S), NEW f, \A x \in S : f[x] = 1
  PROVE  SumOver(f, S) = Cardinality(S)
<1>. DEFINE A == [x \in S |-> {x}]
<1>1. \A k \in S : IsFiniteSet(A[k]) /\ f[k] = Cardinality(A[k])
  BY FS_Singleton
<1>2. \A k, l \in S : k # l => A[k] \cap A[l] = {}
  OBVIOUS
<1>3. Gathered(A, S) = S
  BY DEF Gathered
<1>. HIDE DEF A
<1>. QED
  BY <1>1, <1>2, <1>3, SumOfCounts

\* What a function makes of a finite set is finite.
LEMMA ImageIsFinite ==
  ASSUME NEW S, IsFiniteSet(S), NEW f
  PROVE  IsFiniteSet({f[x] : x \in S})
<1>. DEFINE T == {f[x] : x \in S}
            g == [x \in S |-> f[x]]
<1>1. g \in Surjection(S, T)
  BY DEF Surjection
<1>. HIDE DEF T, g
<1>2. IsFiniteSet(T)
  BY <1>1, FS_Surjection
<1>. QED
  BY <1>2 DEF T

-----------------------------------------------------------------------------
(* Largest members, and iterates                                           *)

\* A finite set of natural numbers has a largest one.
LEMMA LargestExists ==
  ASSUME NEW S, S \subseteq Nat, IsFiniteSet(S), S # {}
  PROVE  \E x \in S : \A y \in S : y <= x
<1>. DEFINE Fine(s) == \E x \in s : \A y \in s : y <= x
            Fails == {n \in Nat : \E s \in SUBSET S : s # {} /\ Cardinality(s) = n /\ ~ Fine(s)}
<1>0. \A s \in SUBSET S : IsFiniteSet(s) /\ Cardinality(s) \in Nat
  BY FS_Subset, FS_CardinalityType
<1>1. SUFFICES ASSUME Fails # {} PROVE FALSE
  BY <1>0
<1>2. PICK n \in Fails : \A m \in Fails : n <= m
  BY <1>1, SmallestExists
<1>3. PICK s \in SUBSET S : s # {} /\ Cardinality(s) = n /\ ~ Fine(s)
  BY <1>2
<1>4. PICK z \in s : TRUE
  BY <1>3
<1>5. s \ {z} \in SUBSET S /\ Cardinality(s \ {z}) = n - 1 /\ n - 1 \in Nat
  BY <1>0, <1>3, <1>4, OneLess
<1>6. n - 1 \notin Fails
  BY <1>2, <1>5
<1>7. CASE s \ {z} = {}
  BY <1>3, <1>4, <1>7
<1>8. CASE s \ {z} # {}
  <2>1. Fine(s \ {z})
    BY <1>5, <1>6, <1>8
  <2>2. PICK x \in s \ {z} : \A y \in s \ {z} : y <= x
    BY <2>1
  <2>3. x \in Nat /\ z \in Nat /\ s \subseteq Nat
    BY <1>4, <2>2
  <2>4. CASE z <= x
    BY <1>3, <2>2, <2>4
  <2>5. CASE x <= z
    <3>1. \A y \in s : y <= z
      <4>. SUFFICES ASSUME NEW y \in s
                    PROVE  y <= z
        OBVIOUS
      <4>1. CASE y = z
        BY <2>3, <4>1
      <4>2. CASE y # z
        BY <2>2, <2>3, <2>5, <4>2
      <4>. QED
        BY <4>1, <4>2
    <3>. QED
      BY <1>3, <1>4, <3>1
  <2>. QED
    BY <2>3, <2>4, <2>5
<1>. QED
  BY <1>7, <1>8

\* Steps from a set to itself can be taken from any member of it.
StepByStep(g, N, first, F) == g[0] = first /\ \A n \in 1 .. N : g[n] = F[n][g[n - 1]]

LEMMA StepsExist ==
  ASSUME NEW N \in Nat, NEW D, NEW first \in D, NEW F \in [1 .. N -> [D -> D]]
  PROVE  \E g \in [0 .. N -> D] : StepByStep(g, N, first, F)
<1>. DEFINE UpTo(g, m) == g[0] = first /\ \A n \in 1 .. m : g[n] = F[n][g[n - 1]]
            Fails == {m \in 0 .. N : ~ \E g \in [0 .. m -> D] : UpTo(g, m)}
<1>1. SUFFICES ASSUME Fails # {} PROVE FALSE
  <2>1. Fails = {} => \E g \in [0 .. N -> D] : UpTo(g, N)
    OBVIOUS
  <2>. QED
    BY <2>1 DEF StepByStep
<1>2. PICK m \in Fails : \A k \in Fails : m <= k
  <2>1. Fails \subseteq Nat
    OBVIOUS
  <2>. HIDE DEF Fails
  <2>. QED
    BY <1>1, <2>1, SmallestExists
<1>3. m \in 0 .. N /\ m \in Nat /\ ~ \E g \in [0 .. m -> D] : UpTo(g, m)
  BY <1>2
<1>4. CASE m = 0
  <2>. DEFINE g == [n \in 0 .. 0 |-> first]
  <2>1. g \in [0 .. 0 -> D] /\ UpTo(g, 0)
    OBVIOUS
  <2>2. \E f \in [0 .. 0 -> D] : UpTo(f, 0)
    <3>. HIDE DEF g
    <3>. QED
      BY <2>1
  <2>. QED
    BY <1>3, <1>4, <2>2
<1>5. CASE m # 0
  <2>1. m - 1 \in Nat /\ m - 1 \in 0 .. N
    BY <1>3, <1>5
  <2>2. m - 1 \notin Fails
    <3>. HIDE DEF Fails
    <3>. QED
      BY <1>2, <1>3, <2>1
  <2>3. PICK g \in [0 .. m - 1 -> D] : UpTo(g, m - 1)
    BY <2>1, <2>2
  <2>. DEFINE h == [n \in 0 .. m |-> IF n = m THEN F[m][g[m - 1]] ELSE g[n]]
  <2>4. F[m][g[m - 1]] \in D
    <3>1. m \in 1 .. N /\ m - 1 \in 0 .. m - 1
      BY <1>3, <1>5, <2>1
    <3>2. g[m - 1] \in D /\ F[m] \in [D -> D]
      BY <2>3, <3>1
    <3>. QED
      BY <3>2
  <2>5. h \in [0 .. m -> D]
    BY <1>3, <1>5, <2>1, <2>3, <2>4
  <2>6. UpTo(h, m)
    <3>1. h[0] = first
      BY <1>3, <1>5, <2>1, <2>3
    <3>2. ASSUME NEW n \in 1 .. m
          PROVE  h[n] = F[n][h[n - 1]]
      <4>1. n - 1 \in 0 .. m /\ n - 1 # m /\ h[n - 1] = g[n - 1]
        BY <1>3
      <4>2. CASE n = m
        BY <1>3, <4>1, <4>2
      <4>3. CASE n # m
        <5>1. n \in 1 .. m - 1 /\ h[n] = g[n]
          BY <1>3, <4>3
        <5>. QED
          BY <2>3, <4>1, <5>1
      <4>. QED
        BY <4>2, <4>3
    <3>. QED
      BY <3>1, <3>2
  <2>. HIDE DEF h
  <2>. QED
    BY <1>3, <2>5, <2>6
<1>. QED
  BY <1>4, <1>5

\* And the same step again and again.
Iterates(g, N, first, F) == g[0] = first /\ \A n \in 1 .. N : g[n] = F[g[n - 1]]

LEMMA IteratesExist ==
  ASSUME NEW N \in Nat, NEW D, NEW first \in D, NEW F \in [D -> D]
  PROVE  \E g \in [0 .. N -> D] : Iterates(g, N, first, F)
<1>. DEFINE Same == [n \in 1 .. N |-> F]
<1>1. Same \in [1 .. N -> [D -> D]] /\ \A n \in 1 .. N : Same[n] = F
  OBVIOUS
<1>. HIDE DEF Same
<1>2. PICK g \in [0 .. N -> D] : StepByStep(g, N, first, Same)
  BY <1>1, StepsExist
<1>3. Iterates(g, N, first, F)
  BY <1>1, <1>2 DEF StepByStep, Iterates
<1>. QED
  BY <1>3
=============================================================================
