------------------------------ MODULE Counting ------------------------------
(***************************************************************************)
(* Finite sets and sums, for the proofs about counters.  Induction comes     *)
(* from the well-founded order of the subsets of a finite set: a smallest    *)
(* counterexample is smaller than itself.                                   *)
(***************************************************************************)
EXTENDS Integers, Sequences, FiniteSets, Functions, FiniteSetTheorems, TLAPS

\* A collection of subsets of a finite set has a smallest member.
LEMMA SmallestSet ==
  ASSUME NEW S, IsFiniteSet(S), NEW T, T \subseteq SUBSET S, T # {}
  PROVE  \E U \in T : \A V \in T : V \subseteq U => V = U
<1> DEFINE R == StrictSubsetOrdering(S)
<1>1. IsWellFoundedOn(R, FiniteSubsetsOf(S))
  BY FS_StrictSubsetOrderingWellFounded
<1>2. T \subseteq FiniteSubsetsOf(S)
  BY FS_FiniteSubsetsOfFinite
<1>3. PICK U \in T : \A V \in T : ~(<<V, U>> \in R)
  <2> HIDE DEF R
  <2> QED
    BY <1>1, <1>2, WFMin
<1>4. ASSUME NEW V \in T, V \subseteq U, V # U PROVE FALSE
  <2>1. <<V, U>> \in (SUBSET S) \X (SUBSET S)
    OBVIOUS
  <2>2. <<V, U>> \in R
    BY <1>4, <2>1 DEF StrictSubsetOrdering
  <2> QED
    BY <1>3, <2>2
<1> QED
  BY <1>4

\* A set of natural numbers has a smallest member.
LEMMA SmallestNumber ==
  ASSUME NEW T, T \subseteq Nat, T # {}
  PROVE  \E n \in T : \A m \in T : n <= m
<1> DEFINE R == OpToRel(<, Nat)
<1>1. PICK n \in T : \A m \in T : ~(<<m, n>> \in R)
  <2>1. IsWellFoundedOn(R, Nat)
    BY NatLessThanWellFounded
  <2> HIDE DEF R
  <2> QED
    BY <2>1, WFMin
<1>2. ASSUME NEW m \in T PROVE n <= m
  <2>1. <<m, n>> \in Nat \X Nat /\ ~(<<m, n>> \in OpToRel(<, Nat))
    BY <1>1
  <2>2. m < n => <<m, n>> \in OpToRel(<, Nat)
    BY <2>1 DEF OpToRel
  <2>3. ~(m < n)
    BY <2>1, <2>2
  <2>4. m \in Nat /\ n \in Nat
    OBVIOUS
  <2> QED
    BY <2>3, <2>4
<1> QED
  BY <1>2

\* A set that has 0, and with each number the next one, has every number.
LEMMA NatSetInduction ==
  ASSUME NEW G, 0 \in G, \A n \in Nat : n \in G => n + 1 \in G
  PROVE  \A n \in Nat : n \in G
<1> DEFINE Bad == {n \in Nat : n \notin G}
<1>1. SUFFICES ASSUME Bad # {} PROVE FALSE
  OBVIOUS
<1>2. PICK n \in Bad : \A m \in Bad : n <= m
  BY <1>1, SmallestNumber
<1>3. n - 1 \in Nat /\ n - 1 \notin Bad
  BY <1>2
<1> QED
  BY <1>2, <1>3

\* Two sets that differ in one element at most.
LEMMA OneMoves ==
  ASSUME NEW A, IsFiniteSet(A), NEW B, NEW x, \A y : y # x => (y \in A <=> y \in B)
  PROVE  /\ IsFiniteSet(B) /\ Cardinality(A) \in Nat /\ Cardinality(B) \in Nat
         /\ Cardinality(B) = Cardinality(A) - (IF x \in A THEN 1 ELSE 0)
                                            + (IF x \in B THEN 1 ELSE 0)
<1> DEFINE C == A \ {x}
<1>1. IsFiniteSet(C) /\ Cardinality(C) \in Nat
  BY FS_RemoveElement, FS_CardinalityType
<1>2. /\ x \in A => A = C \cup {x}
      /\ x \notin A => A = C
      /\ x \in B => B = C \cup {x}
      /\ x \notin B => B = C
      /\ x \notin C
  OBVIOUS
<1> HIDE DEF C
<1>3. IsFiniteSet(C \cup {x}) /\ Cardinality(C \cup {x}) = Cardinality(C) + 1
  BY <1>1, <1>2, FS_AddElement
<1> QED
  BY <1>1, <1>2, <1>3

One(b) == IF b THEN 1 ELSE 0

\* Those of S that are somewhere in L.
In(S, p, L) == {y \in S : p[y] \in L}

\* Of all that S has somewhere in L, x alone has moved, from p[x] to q[x].
Shift(S, p, q, x, L) ==
  /\ Cardinality(In(S, p, L)) \in Nat /\ Cardinality(In(S, q, L)) \in Nat
  /\ Cardinality(In(S, q, L)) = Cardinality(In(S, p, L)) - One(x \in S /\ p[x] \in L)
                                                       + One(x \in S /\ q[x] \in L)

\* One of S moves: how many of S are then somewhere in L.
LEMMA PlacesMove ==
  ASSUME NEW S, IsFiniteSet(S), NEW p, NEW q, NEW x, \A y \in S : y # x => q[y] = p[y], NEW L
  PROVE  Shift(S, p, q, x, L)
<1>1. /\ x \in In(S, p, L) <=> x \in S /\ p[x] \in L
      /\ x \in In(S, q, L) <=> x \in S /\ q[x] \in L
      /\ \A y : y # x => (y \in In(S, p, L) <=> y \in In(S, q, L))
  BY DEF In
<1>2. IsFiniteSet(In(S, p, L))
  BY FS_Subset DEF In
<1>3. /\ Cardinality(In(S, p, L)) \in Nat /\ Cardinality(In(S, q, L)) \in Nat
      /\ Cardinality(In(S, q, L)) =
           Cardinality(In(S, p, L)) - (IF x \in In(S, p, L) THEN 1 ELSE 0)
                                    + (IF x \in In(S, q, L) THEN 1 ELSE 0)
  BY <1>1, <1>2, OneMoves
<1> QED
  BY <1>1, <1>3 DEF One, Shift

(***************************************************************************)
(* Sums                                                                    *)
(***************************************************************************)
\* The element that the fold takes out of a set first.
Some(s) == CHOOSE x \in s : TRUE

\* g computes the sums of f over the sets of a collection, as the fold does.
Sums(g, f, D) ==
  g = [s \in D |-> IF s = {} THEN 0 ELSE f[Some(s)] + g[s \ {Some(s)}]]

\* What the fold of the community modules means, in one choice.
LEMMA SumIs ==
  ASSUME NEW f, NEW S
  PROVE  SumFunctionOnSet(f, S) = (CHOOSE g : Sums(g, f, SUBSET S))[S]
BY DEF SumFunctionOnSet, FoldFunctionOnSet, MapThenFoldSet, Sums, Some

\* The recursion of the fold is defined for every finite set.
LEMMA SumsExist ==
  ASSUME NEW f, NEW S, IsFiniteSet(S)
  PROVE  \E g : Sums(g, f, SUBSET S)
<1> DEFINE D(n) == {s \in SUBSET S : Cardinality(s) <= n}
           G == {n \in Nat : \E g : Sums(g, f, D(n))}
<1>f. \A s \in SUBSET S : IsFiniteSet(s) /\ Cardinality(s) \in Nat /\ Cardinality(s) <= Cardinality(S)
  BY FS_Subset, FS_CardinalityType
<1>s. \A s : s # {} => Some(s) \in s
  BY DEF Some
<1>1. 0 \in G
  <2> DEFINE g == [s \in D(0) |-> 0]
  <2>1. \A s \in D(0) : s = {}
    BY <1>f, FS_EmptySet
  <2>2. Sums(g, f, D(0))
    BY <2>1 DEF Sums
  <2> QED
    BY <2>2
<1>2. ASSUME NEW n \in Nat, n \in G PROVE n + 1 \in G
  <2>1. PICK h : Sums(h, f, D(n))
    BY <1>2
  <2> DEFINE g == [s \in D(n + 1) |-> IF s \in D(n) THEN h[s] ELSE f[Some(s)] + h[s \ {Some(s)}]]
  <2>2. ASSUME NEW s \in D(n + 1), s # {} PROVE s \ {Some(s)} \in D(n)
    <3>1. Cardinality(s \ {Some(s)}) = Cardinality(s) - 1
      BY <1>f, <1>s, <2>2, FS_RemoveElement
    <3> QED
      BY <1>f, <3>1
  <2>3. ASSUME NEW s \in D(n), s # {} PROVE s \ {Some(s)} \in D(n)
    BY <1>f, <2>2, <2>3
  <2>4. \A s \in D(n) : h[s] = IF s = {} THEN 0 ELSE f[Some(s)] + h[s \ {Some(s)}]
    BY <2>1 DEF Sums
  <2>5. {} \in D(n) /\ \A s \in D(n) : s \in D(n + 1)
    BY <1>f, FS_EmptySet
  <2>6. \A s \in D(n + 1) : g[s] = IF s = {} THEN 0 ELSE f[Some(s)] + g[s \ {Some(s)}]
    <3> HIDE DEF D
    <3> QED
      BY <2>2, <2>3, <2>4, <2>5
  <2>7. Sums(g, f, D(n + 1))
    <3> HIDE DEF D
    <3> QED
      BY <2>6 DEF Sums
  <2> QED
    BY <2>7
<1>3. Cardinality(S) \in G
  <2>1. Cardinality(S) \in Nat
    BY FS_CardinalityType
  <2> HIDE DEF G
  <2> QED
    BY <1>1, <1>2, <2>1, NatSetInduction
<1>4. D(Cardinality(S)) = SUBSET S
  BY <1>f
<1> QED
  BY <1>3, <1>4

\* Two functions that compute the sums agree where both are defined.
LEMMA SumsUnique ==
  ASSUME NEW f, NEW S, IsFiniteSet(S), NEW T \in SUBSET S,
         NEW g, Sums(g, f, SUBSET S), NEW h, Sums(h, f, SUBSET T)
  PROVE  g[T] = h[T]
<1> DEFINE Bad == {U \in SUBSET T : g[U] # h[U]}
<1>1. SUFFICES ASSUME T \in Bad PROVE FALSE
  OBVIOUS
<1>2. IsFiniteSet(T)
  BY FS_Subset
<1>3. PICK U \in Bad : \A V \in Bad : V \subseteq U => V = U
  <2>1. Bad \subseteq SUBSET T /\ Bad # {}
    BY <1>1
  <2> HIDE DEF Bad
  <2> QED
    BY <1>2, <2>1, SmallestSet
<1>4. U # {} => Some(U) \in U
  BY DEF Some
<1>5. U # {} => g[U \ {Some(U)}] = h[U \ {Some(U)}]
  BY <1>3, <1>4
<1>6. /\ g[U] = IF U = {} THEN 0 ELSE f[Some(U)] + g[U \ {Some(U)}]
      /\ h[U] = IF U = {} THEN 0 ELSE f[Some(U)] + h[U \ {Some(U)}]
  BY <1>3 DEF Sums
<1> QED
  BY <1>3, <1>5, <1>6

\* The sum as the fold computes it.
LEMMA SumByChoice ==
  ASSUME NEW f, NEW S, IsFiniteSet(S)
  PROVE  /\ SumFunctionOnSet(f, {}) = 0
         /\ S # {} => SumFunctionOnSet(f, S) = f[Some(S)] + SumFunctionOnSet(f, S \ {Some(S)})
<1> DEFINE g(T) == CHOOSE g : Sums(g, f, SUBSET T)
<1>1. \A T \in SUBSET S : Sums(g(T), f, SUBSET T)
  <2> SUFFICES ASSUME NEW T \in SUBSET S PROVE Sums(g(T), f, SUBSET T)
    OBVIOUS
  <2>1. IsFiniteSet(T)
    BY FS_Subset
  <2> QED
    BY <2>1, SumsExist
<1>2. \A T \in SUBSET S : SumFunctionOnSet(f, T) = g(S)[T]
  <2> SUFFICES ASSUME NEW T \in SUBSET S PROVE SumFunctionOnSet(f, T) = g(S)[T]
    OBVIOUS
  <2>1. SumFunctionOnSet(f, T) = g(T)[T]
    BY SumIs
  <2>2. Sums(g(T), f, SUBSET T) /\ Sums(g(S), f, SUBSET S)
    BY <1>1
  <2> HIDE DEF g
  <2> QED
    BY <2>1, <2>2, SumsUnique
<1>3. Sums(g(S), f, SUBSET S)
  BY <1>1
<1>4. g(S)[{}] = 0 /\ (S # {} => g(S)[S] = f[Some(S)] + g(S)[S \ {Some(S)}])
  <2> HIDE DEF g
  <2> QED
    BY <1>3 DEF Sums
<1> QED
  <2> HIDE DEF g
  <2> QED
    BY <1>2, <1>4

\* A sum of integers is an integer.
LEMMA SumType ==
  ASSUME NEW S, IsFiniteSet(S), NEW f, \A x \in S : f[x] \in Int
  PROVE  SumFunctionOnSet(f, S) \in Int
<1> DEFINE Bad == {U \in SUBSET S : SumFunctionOnSet(f, U) \notin Int}
<1>1. SUFFICES ASSUME S \in Bad PROVE FALSE
  OBVIOUS
<1>2. PICK U \in Bad : \A V \in Bad : V \subseteq U => V = U
  <2>1. Bad \subseteq SUBSET S /\ Bad # {}
    BY <1>1
  <2> HIDE DEF Bad
  <2> QED
    BY <2>1, SmallestSet
<1>3. IsFiniteSet(U)
  BY FS_Subset
<1>4. U # {} => Some(U) \in U
  BY DEF Some
<1>5. U # {} => SumFunctionOnSet(f, U \ {Some(U)}) \in Int
  BY <1>2, <1>4
<1>6. U # {} => f[Some(U)] \in Int
  BY <1>4
<1>7. SumFunctionOnSet(f, {}) = 0
  BY <1>3, SumByChoice
<1>8. U # {} => SumFunctionOnSet(f, U) = f[Some(U)] + SumFunctionOnSet(f, U \ {Some(U)})
  BY <1>3, SumByChoice
<1>9. U # {} => SumFunctionOnSet(f, U) \in Int
  <2> DEFINE a == f[Some(U)]
             b == SumFunctionOnSet(f, U \ {Some(U)})
  <2>1. U # {} => a \in Int /\ b \in Int /\ SumFunctionOnSet(f, U) = a + b
    BY <1>5, <1>6, <1>8
  <2> HIDE DEF a, b
  <2> QED
    BY <2>1
<1>10. SumFunctionOnSet(f, U) \in Int
  <2>1. U = {} => SumFunctionOnSet(f, U) = 0
    BY <1>7
  <2> QED
    BY <1>9, <2>1
<1> QED
  BY <1>2, <1>10

\* Any element may be taken out first.
LEMMA SumElement ==
  ASSUME NEW S, IsFiniteSet(S), NEW f, \A x \in S : f[x] \in Int, NEW x \in S
  PROVE  SumFunctionOnSet(f, S) = f[x] + SumFunctionOnSet(f, S \ {x})
<1> DEFINE Sum(U) == SumFunctionOnSet(f, U)
           Bad == {U \in SUBSET S : \E y \in U : Sum(U) # f[y] + Sum(U \ {y})}
<1>1. SUFFICES ASSUME S \in Bad PROVE FALSE
  OBVIOUS
<1>2. PICK U \in Bad : \A V \in Bad : V \subseteq U => V = U
  <2>1. Bad \subseteq SUBSET S /\ Bad # {}
    BY <1>1
  <2> HIDE DEF Bad
  <2> QED
    BY <2>1, SmallestSet
<1>3. PICK y \in U : Sum(U) # f[y] + Sum(U \ {y})
  BY <1>2
<1> DEFINE c == Some(U)
<1>4. c \in U
  BY DEF Some
<1>5. \A V \in SUBSET U : IsFiniteSet(V) /\ Sum(V) \in Int
  BY FS_Subset, SumType
<1>6. Sum(U) = f[c] + Sum(U \ {c})
  BY <1>5, <1>4, SumByChoice
<1>7. c # y
  BY <1>3, <1>6
<1>8. Sum(U \ {c}) = f[y] + Sum((U \ {c}) \ {y})
  <2>1. U \ {c} \in SUBSET S /\ y \in U \ {c} /\ U \ {c} # U
    BY <1>4, <1>7
  <2>2. U \ {c} \notin Bad
    BY <1>2, <2>1
  <2> QED
    BY <2>1, <2>2
<1>9. Sum(U \ {y}) = f[c] + Sum((U \ {y}) \ {c})
  <2>1. U \ {y} \in SUBSET S /\ c \in U \ {y} /\ U \ {y} # U
    BY <1>4, <1>7
  <2>2. U \ {y} \notin Bad
    BY <1>2, <2>1
  <2> QED
    BY <2>1, <2>2
<1>10. (U \ {c}) \ {y} = (U \ {y}) \ {c}
  OBVIOUS
<1>11. f[c] \in Int /\ f[y] \in Int /\ Sum((U \ {y}) \ {c}) \in Int
  BY <1>4, <1>5
<1> QED
  <2> DEFINE a == f[c]
             b == f[y]
             r == Sum((U \ {y}) \ {c})
  <2>1. Sum(U) = a + (b + r) /\ Sum(U \ {y}) = a + r /\ Sum(U) # b + Sum(U \ {y})
    BY <1>3, <1>6, <1>8, <1>9, <1>10
  <2>2. a \in Int /\ b \in Int /\ r \in Int
    BY <1>11
  <2> HIDE DEF Sum, a, b, r
  <2> QED
    BY <2>1, <2>2

\* Only the values at the elements count.
LEMMA SumSame ==
  ASSUME NEW S, IsFiniteSet(S), NEW f, NEW g, \A x \in S : f[x] = g[x]
  PROVE  SumFunctionOnSet(f, S) = SumFunctionOnSet(g, S)
<1> DEFINE Bad == {U \in SUBSET S : SumFunctionOnSet(f, U) # SumFunctionOnSet(g, U)}
<1>1. SUFFICES ASSUME S \in Bad PROVE FALSE
  OBVIOUS
<1>2. PICK U \in Bad : \A V \in Bad : V \subseteq U => V = U
  <2>1. Bad \subseteq SUBSET S /\ Bad # {}
    BY <1>1
  <2> HIDE DEF Bad
  <2> QED
    BY <2>1, SmallestSet
<1>3. IsFiniteSet(U)
  BY FS_Subset
<1>4. U # {} => Some(U) \in U
  BY DEF Some
<1>5. U # {} => SumFunctionOnSet(f, U \ {Some(U)}) = SumFunctionOnSet(g, U \ {Some(U)})
  BY <1>2, <1>4
<1>6. SumFunctionOnSet(f, {}) = 0 /\ SumFunctionOnSet(g, {}) = 0
  BY <1>3, SumByChoice
<1>7. U # {} =>
        /\ SumFunctionOnSet(f, U) = f[Some(U)] + SumFunctionOnSet(f, U \ {Some(U)})
        /\ SumFunctionOnSet(g, U) = g[Some(U)] + SumFunctionOnSet(g, U \ {Some(U)})
  BY <1>3, SumByChoice
<1>8. U # {} => f[Some(U)] = g[Some(U)]
  BY <1>4
<1>9. U # {} => SumFunctionOnSet(f, U) = SumFunctionOnSet(g, U)
  BY <1>5, <1>7, <1>8
<1> QED
  BY <1>2, <1>6, <1>9

\* If one value changes, the sum changes by as much.
LEMMA SumChange ==
  ASSUME NEW S, IsFiniteSet(S), NEW f, \A x \in S : f[x] \in Int,
         NEW g, \A x \in S : g[x] \in Int,
         NEW y \in S, \A x \in S \ {y} : f[x] = g[x]
  PROVE  SumFunctionOnSet(g, S) = SumFunctionOnSet(f, S) - f[y] + g[y]
<1>1. IsFiniteSet(S \ {y})
  BY FS_RemoveElement
<1> DEFINE r == SumFunctionOnSet(f, S \ {y})
<1>2. r = SumFunctionOnSet(g, S \ {y}) /\ r \in Int
  BY <1>1, SumSame, SumType
<1>3. SumFunctionOnSet(f, S) = f[y] + SumFunctionOnSet(f, S \ {y})
  BY SumElement
<1>4. SumFunctionOnSet(g, S) = g[y] + SumFunctionOnSet(g, S \ {y})
  BY SumElement
<1>5. f[y] \in Int /\ g[y] \in Int
  OBVIOUS
<1> QED
  <2> DEFINE a == f[y]
             b == g[y]
  <2>1. /\ SumFunctionOnSet(f, S) = a + r /\ SumFunctionOnSet(g, S) = b + r
        /\ a \in Int /\ b \in Int /\ r \in Int
    BY <1>2, <1>3, <1>4, <1>5
  <2>2. SumFunctionOnSet(g, S) = SumFunctionOnSet(f, S) - a + b
    <3> HIDE DEF a, b, r
    <3> QED
      BY <2>1
  <2> QED
    BY <2>2

\* A sum of naturals is at least each of them.
LEMMA SumAtLeast ==
  ASSUME NEW S, IsFiniteSet(S), NEW f, \A x \in S : f[x] \in Nat
  PROVE  /\ SumFunctionOnSet(f, S) \in Nat
         /\ \A x \in S : f[x] <= SumFunctionOnSet(f, S)
<1> DEFINE Bad == {U \in SUBSET S : SumFunctionOnSet(f, U) \notin Nat}
<1>1. ASSUME NEW U \in Bad, \A V \in Bad : V \subseteq U => V = U PROVE FALSE
  <2>1. IsFiniteSet(U)
    BY FS_Subset
  <2>2. U # {} => Some(U) \in U
    BY DEF Some
  <2>3. U # {} => SumFunctionOnSet(f, U \ {Some(U)}) \in Nat
    BY <1>1, <2>2
  <2>4. U # {} => f[Some(U)] \in Nat
    BY <2>2
  <2>5. SumFunctionOnSet(f, {}) = 0
    BY <2>1, SumByChoice
  <2>6. U # {} => SumFunctionOnSet(f, U) = f[Some(U)] + SumFunctionOnSet(f, U \ {Some(U)})
    BY <2>1, SumByChoice
  <2>7. U # {} => SumFunctionOnSet(f, U) \in Nat
    <3> DEFINE a == f[Some(U)]
               b == SumFunctionOnSet(f, U \ {Some(U)})
    <3>1. U # {} => a \in Nat /\ b \in Nat /\ SumFunctionOnSet(f, U) = a + b
      BY <2>3, <2>4, <2>6
    <3> HIDE DEF a, b
    <3> QED
      BY <3>1
  <2> QED
    BY <2>5, <2>7
<1>2. Bad = {}
  <2>1. SUFFICES ASSUME Bad # {} PROVE FALSE
    OBVIOUS
  <2>2. PICK U \in Bad : \A V \in Bad : V \subseteq U => V = U
    <3>1. Bad \subseteq SUBSET S
      OBVIOUS
    <3> HIDE DEF Bad
    <3> QED
      BY <2>1, <3>1, SmallestSet
  <2> HIDE DEF Bad
  <2> QED
    BY <1>1, <2>2
<1>3. \A U \in SUBSET S : SumFunctionOnSet(f, U) \in Nat
  BY <1>2
<1>4. ASSUME NEW x \in S PROVE f[x] <= SumFunctionOnSet(f, S)
  <2> DEFINE a == f[x]
             b == SumFunctionOnSet(f, S \ {x})
  <2>1. SumFunctionOnSet(f, S) = a + b
    BY SumElement
  <2>2. a \in Nat /\ b \in Nat
    BY <1>3
  <2>3. a <= SumFunctionOnSet(f, S)
    <3> HIDE DEF a, b
    <3> QED
      BY <2>1, <2>2
  <2> QED
    BY <2>3
<1> QED
  BY <1>3, <1>4

\* A sum of zeros.
LEMMA SumZero ==
  ASSUME NEW S, IsFiniteSet(S), NEW f, \A x \in S : f[x] = 0
  PROVE  SumFunctionOnSet(f, S) = 0
<1> DEFINE Bad == {U \in SUBSET S : SumFunctionOnSet(f, U) # 0}
<1>1. SUFFICES ASSUME S \in Bad PROVE FALSE
  OBVIOUS
<1>2. PICK U \in Bad : \A V \in Bad : V \subseteq U => V = U
  <2>1. Bad \subseteq SUBSET S /\ Bad # {}
    BY <1>1
  <2> HIDE DEF Bad
  <2> QED
    BY <2>1, SmallestSet
<1>3. IsFiniteSet(U)
  BY FS_Subset
<1>4. U # {} => Some(U) \in U
  BY DEF Some
<1>5. U # {} => SumFunctionOnSet(f, U \ {Some(U)}) = 0
  BY <1>2, <1>4
<1>6. SumFunctionOnSet(f, {}) = 0
  BY <1>3, SumByChoice
<1>7. U # {} => SumFunctionOnSet(f, U) = f[Some(U)] + SumFunctionOnSet(f, U \ {Some(U)})
  BY <1>3, SumByChoice
<1>8. U # {} => f[Some(U)] = 0
  BY <1>4
<1>9. U # {} => SumFunctionOnSet(f, U) = 0 + 0
  BY <1>5, <1>7, <1>8
<1>10. SumFunctionOnSet(f, U) = 0
  <2>1. U = {} => SumFunctionOnSet(f, U) = 0
    BY <1>6
  <2>2. U # {} => SumFunctionOnSet(f, U) = 0
    BY <1>9, SMT
  <2> QED
    BY <2>1, <2>2
<1> QED
  BY <1>2, <1>10

\* A sum of ones counts.
LEMMA SumOnes ==
  ASSUME NEW S, IsFiniteSet(S), NEW f, \A x \in S : f[x] = 1
  PROVE  SumFunctionOnSet(f, S) = Cardinality(S)
<1> DEFINE Bad == {U \in SUBSET S : SumFunctionOnSet(f, U) # Cardinality(U)}
<1>1. SUFFICES ASSUME S \in Bad PROVE FALSE
  OBVIOUS
<1>2. PICK U \in Bad : \A V \in Bad : V \subseteq U => V = U
  <2>1. Bad \subseteq SUBSET S /\ Bad # {}
    BY <1>1
  <2> HIDE DEF Bad
  <2> QED
    BY <2>1, SmallestSet
<1>3. IsFiniteSet(U) /\ Cardinality(U) \in Nat
  BY FS_Subset, FS_CardinalityType
<1>4. U # {}
  <2>1. SumFunctionOnSet(f, {}) = 0 /\ Cardinality({}) = 0
    BY <1>3, SumByChoice, FS_EmptySet
  <2> QED
    BY <1>2, <2>1
<1>5. Some(U) \in U
  BY <1>4 DEF Some
<1> DEFINE V == U \ {Some(U)}
<1>6. IsFiniteSet(V) /\ Cardinality(V) = Cardinality(U) - 1
  BY <1>3, <1>5, FS_RemoveElement
<1>7. SumFunctionOnSet(f, V) = Cardinality(V)
  <2>1. V \in SUBSET S /\ V \subseteq U /\ V # U
    BY <1>5
  <2>2. V \notin Bad
    <3> HIDE DEF V, Bad
    <3> QED
      BY <1>2, <2>1
  <2> QED
    BY <2>1, <2>2
<1>8. SumFunctionOnSet(f, U) = f[Some(U)] + SumFunctionOnSet(f, V) /\ f[Some(U)] = 1
  BY <1>3, <1>4, <1>5, SumByChoice
<1>9. SumFunctionOnSet(f, U) = Cardinality(U)
  <2> HIDE DEF V
  <2> QED
    BY <1>3, <1>6, <1>7, <1>8
<1> QED
  BY <1>2, <1>9

\* A sum grows with its values.
LEMMA SumMonotone ==
  ASSUME NEW S, IsFiniteSet(S), NEW f, NEW g,
         \A x \in S : f[x] \in Int /\ g[x] \in Int /\ f[x] <= g[x]
  PROVE  SumFunctionOnSet(f, S) <= SumFunctionOnSet(g, S)
<1> DEFINE Less(U) == SumFunctionOnSet(f, U) <= SumFunctionOnSet(g, U)
           Bad == {U \in SUBSET S : ~Less(U)}
<1>1. SUFFICES ASSUME S \in Bad PROVE FALSE
  OBVIOUS
<1>2. PICK U \in Bad : \A V \in Bad : V \subseteq U => V = U
  <2>1. Bad \subseteq SUBSET S /\ Bad # {}
    BY <1>1
  <2> HIDE DEF Bad
  <2> QED
    BY <2>1, SmallestSet
<1>3. IsFiniteSet(U)
  BY FS_Subset
<1>4. U # {}
  <2>1. SumFunctionOnSet(f, {}) = 0 /\ SumFunctionOnSet(g, {}) = 0
    BY <1>3, SumByChoice
  <2>2. Less({})
    BY <2>1
  <2> HIDE DEF Less
  <2> QED
    BY <1>2, <2>2
<1>5. PICK x \in U : TRUE
  BY <1>4
<1> DEFINE V == U \ {x}
<1>6. Less(V)
  <2>1. V \in SUBSET S /\ V # U /\ V \subseteq U
    BY <1>5
  <2> HIDE DEF V, Less
  <2> QED
    BY <1>2, <2>1
<1>7. IsFiniteSet(V) /\ \A y \in V : f[y] \in Int /\ g[y] \in Int
  BY <1>3, FS_RemoveElement
<1> DEFINE a == f[x]
           b == g[x]
           F == SumFunctionOnSet(f, V)
           G == SumFunctionOnSet(g, V)
<1>8. F \in Int /\ G \in Int /\ a \in Int /\ b \in Int /\ a <= b
  BY <1>5, <1>7, SumType
<1>9. SumFunctionOnSet(f, U) = a + F /\ SumFunctionOnSet(g, U) = b + G
  BY <1>3, <1>5, SumElement
<1>10. a + F <= b + G
  <2>1. F <= G
    BY <1>6
  <2> HIDE DEF a, b, F, G
  <2> QED
    BY <1>8, <2>1
<1>11. Less(U)
  BY <1>9, <1>10
<1> QED
  BY <1>2, <1>11

(***************************************************************************)
(* Lists without repetition                                                *)
(***************************************************************************)
\* No element is in L twice.
Once(L) == \A i, k \in DOMAIN L : L[i] = L[k] => i = k

\* What is put in front of such a list, or taken from its front.
LEMMA ListOnce ==
  ASSUME NEW S, NEW L \in Seq(S), Once(L)
  PROVE  /\ \A j \in S : j \notin Range(L) =>
              /\ <<j>> \o L \in Seq(S) /\ Once(<<j>> \o L) /\ <<j>> \o L # <<>>
              /\ Range(<<j>> \o L) = {j} \cup Range(L)
         /\ L # <<>> =>
              /\ Head(L) \in S /\ Tail(L) \in Seq(S) /\ Once(Tail(L))
              /\ Range(L) = {Head(L)} \cup Range(Tail(L)) /\ Head(L) \notin Range(Tail(L))
         /\ Range(L) \subseteq S
         /\ L = <<>> <=> Range(L) = {}
<1> USE DEF Range
<1>1. ASSUME NEW j \in S, j \notin Range(L)
      PROVE  /\ <<j>> \o L \in Seq(S) /\ Once(<<j>> \o L) /\ <<j>> \o L # <<>>
             /\ Range(<<j>> \o L) = {j} \cup Range(L)
  <2> DEFINE M == <<j>> \o L
  <2>1. /\ M \in Seq(S) /\ Len(M) = Len(L) + 1 /\ Len(L) \in Nat /\ M[1] = j
        /\ \A i \in 1..Len(L) : M[i + 1] = L[i]
        /\ DOMAIN M = 1..(Len(L) + 1) /\ DOMAIN L = 1..Len(L)
    OBVIOUS
  <2> HIDE DEF M
  <2>2. \A i \in DOMAIN M : i = 1 \/ (i - 1 \in DOMAIN L /\ M[i] = L[i - 1] /\ i \in Nat)
    BY <2>1
  <2>3. Once(M)
    BY <2>1, <2>2, <1>1 DEF Once
  <2>4. Range(M) = {j} \cup Range(L)
    BY <2>1, <2>2
  <2>5. M # <<>>
    BY <2>1
  <2> QED
    BY <2>1, <2>3, <2>4, <2>5 DEF M
<1>2. ASSUME L # <<>>
      PROVE  /\ Head(L) \in S /\ Tail(L) \in Seq(S) /\ Once(Tail(L))
             /\ Range(L) = {Head(L)} \cup Range(Tail(L)) /\ Head(L) \notin Range(Tail(L))
  <2>1. Len(L) \in Nat \ {0}
    BY <1>2
  <2>2. /\ Tail(L) \in Seq(S) /\ Head(L) = L[1] /\ L[1] \in S
        /\ DOMAIN Tail(L) = 1..(Len(L) - 1) /\ DOMAIN L = 1..Len(L)
        /\ \A i \in 1..(Len(L) - 1) : Tail(L)[i] = L[i + 1]
    BY <1>2, <2>1
  <2> DEFINE M == Tail(L)
  <2>3. \A i \in DOMAIN M : i \in Nat /\ i + 1 \in DOMAIN L /\ i + 1 # 1 /\ M[i] = L[i + 1]
    BY <2>1, <2>2
  <2>4. \A i \in DOMAIN L : i = 1 \/ (i - 1 \in DOMAIN M /\ M[i - 1] = L[i])
    BY <2>1, <2>2
  <2>5. 1 \in DOMAIN L
    BY <2>1, <2>2
  <2> HIDE DEF M
  <2>6. Once(M)
    BY <2>3 DEF Once
  <2>7. L[1] \notin Range(M)
    BY <2>3, <2>5 DEF Once
  <2>8. Range(L) = {L[1]} \cup Range(M)
    BY <2>3, <2>4, <2>5
  <2> QED
    BY <2>2, <2>6, <2>7, <2>8 DEF M
<1>3. Range(L) \subseteq S
  OBVIOUS
<1>4. L = <<>> <=> Range(L) = {}
  <2>1. L = <<>> => DOMAIN L = {}
    OBVIOUS
  <2>2. L # <<>> => 1 \in DOMAIN L
    <3>1. L # <<>> => Len(L) \in Nat \ {0}
      OBVIOUS
    <3> QED
      BY <3>1
  <2> QED
    BY <2>1, <2>2
<1> QED
  BY <1>1, <1>2, <1>3, <1>4

\* The empty list, and a list of one.
LEMMA ListOfNone ==
  /\ \A S : <<>> \in Seq(S)
  /\ Once(<<>>) /\ Range(<<>>) = {}
  /\ \A S, j : j \in S => <<j>> \in Seq(S) /\ Once(<<j>>) /\ Range(<<j>>) = {j} /\ <<j>> # <<>>
BY DEF Once, Range
=============================================================================
