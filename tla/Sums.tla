-------------------------------- MODULE Sums --------------------------------
(* What the sums of the models (MapThenSumSet over a finite set) amount to *)
(* after one summand changed or one element came or went: the facts that   *)
(* conservation rests on.  The library defines a sum by recursion over     *)
(* subsets; the inductions here take a smallest counterexample instead.    *)
EXTENDS FiniteSetsExt, FiniteSetTheorems, WellFoundedInduction, TLAPS

SumOf(f, S) == MapThenSumSet(LAMBDA x : f[x], S)

(* The recursion behind it: one element is chosen and taken away.          *)
Pick(s) == CHOOSE x \in s : TRUE
Fold(f, g, s) == IF s = {} THEN 0 ELSE f[Pick(s)] + g[s \ {Pick(s)}]
Partial(f, S) == CHOOSE g : g = [s \in SUBSET S |-> Fold(f, g, s)]

LEMMA SumUnfolds ==
  ASSUME NEW f, NEW S
  PROVE  SumOf(f, S) = Partial(f, S)[S]
BY DEF SumOf, MapThenSumSet, MapThenFoldSet, Partial, Fold, Pick

(* A set of numbers that is not empty has a least one.                     *)
LEMMA LeastNumber ==
  ASSUME NEW T \in SUBSET Nat, T # {}
  PROVE  \E n \in T : \A m \in T : n <= m
<1>1. PICK n \in T : \A m \in T : ~(<<m, n>> \in OpToRel(<, Nat))
  BY NatLessThanWellFounded, WFMin
<1>2. ASSUME NEW m \in T, m < n PROVE FALSE
  BY <1>1, <1>2 DEF OpToRel
<1>. QED  BY <1>2

(* Of sets of subsets, one that is not empty has a smallest member.        *)
LEMMA SmallestSet ==
  ASSUME NEW S, IsFiniteSet(S), NEW C \in SUBSET (SUBSET S), C # {}
  PROVE  \E s \in C : \A t \in C : Cardinality(s) <= Cardinality(t)
<1>. DEFINE T == {Cardinality(s) : s \in C}
<1>1. T \in SUBSET Nat /\ T # {}
  BY FS_Subset, FS_CardinalityType
<1>2. PICK n \in T : \A m \in T : n <= m
  BY <1>1, LeastNumber
<1>. QED  BY <1>2

LEMMA OneTaken ==
  ASSUME NEW S, IsFiniteSet(S), NEW s \in SUBSET S, s # {}
  PROVE  /\ Pick(s) \in s /\ Pick(s) \in S
         /\ s \ {Pick(s)} \in SUBSET S
         /\ \A x \in s : /\ s \ {x} \in SUBSET S /\ IsFiniteSet(s)
                         /\ Cardinality(s) \in Nat /\ Cardinality(s \ {x}) \in Nat
                         /\ Cardinality(s \ {x}) = Cardinality(s) - 1
<1>1. Pick(s) \in s
  BY DEF Pick
<1>2. IsFiniteSet(s) /\ Cardinality(s) \in Nat
  BY FS_Subset, FS_CardinalityType
<1>3. ASSUME NEW x \in s PROVE Cardinality(s \ {x}) = Cardinality(s) - 1 /\ Cardinality(s \ {x}) \in Nat
  BY <1>2, FS_RemoveElement, FS_CardinalityType
<1>. QED  BY <1>1, <1>2, <1>3

(* The recursion has a solution for the subsets of every size.             *)
LEMMA PartialExists ==
  ASSUME NEW f, NEW S, IsFiniteSet(S)
  PROVE  \E g : g = [s \in SUBSET S |-> Fold(f, g, s)]
<1>. DEFINE Small(n) == {s \in SUBSET S : Cardinality(s) <= n}
            Bad == {n \in Nat : ~\E g : g = [s \in Small(n) |-> Fold(f, g, s)]}
<1>1. ASSUME Bad # {} PROVE FALSE
  <2>1. PICK n \in Bad : \A m \in Bad : n <= m
    BY <1>1, LeastNumber
  <2>2. CASE n = 0
    <3>1. ASSUME NEW s \in Small(0) PROVE s = {}
      <4>1. IsFiniteSet(s) /\ Cardinality(s) \in Nat /\ Cardinality(s) <= 0
        BY FS_Subset, FS_CardinalityType
      <4>. QED  BY <4>1, FS_EmptySet
    <3>2. [s \in Small(0) |-> 0] = [s \in Small(0) |-> Fold(f, [t \in Small(0) |-> 0], s)]
      BY <3>1 DEF Fold
    <3>. QED  BY <2>1, <2>2, <3>2
  <2>3. CASE n # 0
    <3>1. n - 1 \in Nat /\ n - 1 \notin Bad
      <4>1. n \in Nat
        OBVIOUS
      <4>2. n - 1 \in Nat /\ ~(n <= n - 1)
        BY <4>1, <2>3
      <4>. HIDE DEF Bad
      <4>. QED  BY <2>1, <4>2
    <3>2. PICK g : g = [s \in Small(n - 1) |-> Fold(f, g, s)]
      BY <3>1
    <3>. DEFINE h == [s \in Small(n) |-> Fold(f, g, s)]
    <3>3. ASSUME NEW s \in Small(n) PROVE Fold(f, g, s) = Fold(f, h, s)
      <4>1. CASE s = {}
        BY <4>1 DEF Fold
      <4>2. CASE s # {}
        <5>. DEFINE t == s \ {Pick(s)}
        <5>1. t \in Small(n - 1) /\ t \in Small(n)
          BY <4>2, <2>1, OneTaken
        <5>2. h[t] = Fold(f, g, t) /\ g[t] = Fold(f, g, t)
          BY <5>1, <3>2
        <5>. QED  BY <4>2, <5>2 DEF Fold
      <4>. QED  BY <4>1, <4>2
    <3>4. h = [s \in Small(n) |-> Fold(f, h, s)]
      BY <3>3
    <3>. QED  BY <2>1, <3>4
  <2>. QED  BY <2>2, <2>3
<1>2. Cardinality(S) \in Nat /\ Small(Cardinality(S)) = SUBSET S
  BY FS_CardinalityType, FS_Subset
<1>3. Cardinality(S) \notin Bad
  BY <1>1
<1>. QED  BY <1>2, <1>3

LEMMA PartialUnfolds ==
  ASSUME NEW f, NEW S, IsFiniteSet(S)
  PROVE  \A s \in SUBSET S : Partial(f, S)[s] = Fold(f, Partial(f, S), s)
<1>1. Partial(f, S) = [s \in SUBSET S |-> Fold(f, Partial(f, S), s)]
  BY PartialExists DEF Partial
<1>. QED  BY <1>1

LEMMA PartialNone ==
  ASSUME NEW f, NEW S, IsFiniteSet(S)
  PROVE  Partial(f, S)[{}] = 0
<1>1. Partial(f, S)[{}] = Fold(f, Partial(f, S), {})
  BY PartialUnfolds
<1>. QED  BY <1>1 DEF Fold

LEMMA PartialSteps ==
  ASSUME NEW f, NEW S, IsFiniteSet(S), NEW s \in SUBSET S, s # {}
  PROVE  Partial(f, S)[s] = f[Pick(s)] + Partial(f, S)[s \ {Pick(s)}]
<1>1. Partial(f, S)[s] = Fold(f, Partial(f, S), s)
  BY PartialUnfolds
<1>. QED  BY <1>1, Zenon DEF Fold

LEMMA PartialInt ==
  ASSUME NEW f, NEW S, IsFiniteSet(S), \A x \in S : f[x] \in Int
  PROVE  \A s \in SUBSET S : Partial(f, S)[s] \in Int
<1>. DEFINE g == Partial(f, S)
            Bad == {s \in SUBSET S : g[s] \notin Int}
<1>1. ASSUME Bad # {} PROVE FALSE
  <2>1. PICK s \in Bad : \A t \in Bad : Cardinality(s) <= Cardinality(t)
    <3>. HIDE DEF g
    <3>. QED  BY <1>1, SmallestSet
  <2>2. s # {} /\ s \in SUBSET S
    <3>1. g[{}] \in Int
      BY PartialNone
    <3>. HIDE DEF g
    <3>. QED  BY <3>1
  <2>3. s \ {Pick(s)} \in SUBSET S /\ s \ {Pick(s)} \notin Bad /\ Pick(s) \in S
    BY <2>1, <2>2, OneTaken
  <2>4. g[s] = f[Pick(s)] + g[s \ {Pick(s)}]
    BY <2>2, PartialSteps
  <2>. HIDE DEF g
  <2>. QED  BY <2>3, <2>4
<1>. QED  BY <1>1

(* Any element may be taken first.                                         *)
LEMMA PartialTakes ==
  ASSUME NEW f, NEW S, IsFiniteSet(S), \A x \in S : f[x] \in Int
  PROVE  \A s \in SUBSET S : \A x \in s : Partial(f, S)[s] = f[x] + Partial(f, S)[s \ {x}]
<1>. DEFINE g == Partial(f, S)
            Bad == {s \in SUBSET S : \E x \in s : g[s] # f[x] + g[s \ {x}]}
<1>0. \A s \in SUBSET S : g[s] \in Int /\ (s # {} => g[s] = f[Pick(s)] + g[s \ {Pick(s)}])
  <2>1. \A s \in SUBSET S : Partial(f, S)[s] \in Int
    BY PartialInt
  <2>2. \A s \in SUBSET S : s # {} => Partial(f, S)[s] = f[Pick(s)] + Partial(f, S)[s \ {Pick(s)}]
    BY PartialSteps, Zenon
  <2>. QED  BY <2>1, <2>2
<1>. HIDE DEF g
<1>1. ASSUME Bad # {} PROVE FALSE
  <2>1. PICK s \in Bad : \A t \in Bad : Cardinality(s) <= Cardinality(t)
    BY <1>1, SmallestSet
  <2>2. PICK x \in s : g[s] # f[x] + g[s \ {x}]
    BY <2>1
  <2>. DEFINE p == Pick(s)
  <2>3. s \in SUBSET S /\ s # {} /\ p \in s /\ x \in S /\ p \in S
    BY <2>2, OneTaken
  <2>4. x # p
    BY <1>0, <2>2, <2>3
  <2>5. s \ {p} \notin Bad /\ s \ {x} \notin Bad
    <3>1. s \ {p} \in SUBSET S /\ Cardinality(s \ {p}) = Cardinality(s) - 1 /\ Cardinality(s) \in Nat
      BY <2>3, OneTaken
    <3>2. s \ {x} \in SUBSET S /\ Cardinality(s \ {x}) = Cardinality(s) - 1
      BY <2>3, OneTaken
    <3>. HIDE DEF Bad
    <3>. QED  BY <2>1, <3>1, <3>2
  <2>6. g[s \ {p}] = f[x] + g[(s \ {p}) \ {x}]
    BY <2>3, <2>4, <2>5
  <2>7. g[s \ {x}] = f[p] + g[(s \ {x}) \ {p}]
    BY <2>3, <2>4, <2>5
  <2>8. (s \ {p}) \ {x} = (s \ {x}) \ {p} /\ (s \ {p}) \ {x} \in SUBSET S
    BY <2>3
  <2>9. g[s] = f[p] + g[s \ {p}]
    BY <1>0, <2>3
  <2>10. f[x] \in Int /\ f[p] \in Int /\ g[(s \ {p}) \ {x}] \in Int
    BY <1>0, <2>3, <2>8
  <2>11. g[s \ {x}] = f[p] + g[(s \ {p}) \ {x}]
    BY <2>7, <2>8
  <2>. HIDE DEF p, Bad
  <2>. QED  BY <2>2, <2>6, <2>9, <2>10, <2>11
<1>. QED  BY <1>1 DEF g

(* Functions that agree on a set, within whatever larger sets, have one    *)
(* sum over it.                                                            *)
LEMMA PartialAgrees ==
  ASSUME NEW f, NEW h, NEW S, NEW R, IsFiniteSet(S), IsFiniteSet(R), NEW T \in SUBSET (S \cap R),
         \A x \in T : f[x] = h[x]
  PROVE  \A s \in SUBSET T : Partial(f, S)[s] = Partial(h, R)[s]
<1>. DEFINE g == Partial(f, S)
            k == Partial(h, R)
            Bad == {s \in SUBSET T : g[s] # k[s]}
<1>0. g[{}] = 0 /\ k[{}] = 0
  BY PartialNone
<1>2. ASSUME NEW s \in SUBSET T, s # {}
      PROVE  g[s] = f[Pick(s)] + g[s \ {Pick(s)}] /\ k[s] = h[Pick(s)] + k[s \ {Pick(s)}]
  <2>1. s \in SUBSET S /\ s \in SUBSET R
    OBVIOUS
  <2>2. g[s] = f[Pick(s)] + g[s \ {Pick(s)}]
    BY <1>2, <2>1, PartialSteps
  <2>3. k[s] = h[Pick(s)] + k[s \ {Pick(s)}]
    BY <1>2, <2>1, PartialSteps
  <2>. QED  BY <2>2, <2>3
<1>. HIDE DEF g, k
<1>1. ASSUME Bad # {} PROVE FALSE
  <2>0. IsFiniteSet(T)
    BY FS_Subset
  <2>1. PICK s \in Bad : \A t \in Bad : Cardinality(s) <= Cardinality(t)
    BY <1>1, <2>0, SmallestSet
  <2>2. s # {} /\ s \in SUBSET T
    BY <1>0
  <2>3. s \ {Pick(s)} \in SUBSET T /\ Pick(s) \in T /\ Cardinality(s \ {Pick(s)}) = Cardinality(s) - 1
        /\ Cardinality(s) \in Nat
    BY <2>0, <2>2, OneTaken
  <2>4. s \ {Pick(s)} \notin Bad
    <3>. HIDE DEF Bad
    <3>. QED  BY <2>1, <2>3
  <2>. QED  BY <1>2, <2>2, <2>3, <2>4
<1>. QED  BY <1>1 DEF g, k

---------------------------------------------------------------------------
(* The facts that others cite.                                             *)

LEMMA SumOfNone == ASSUME NEW f PROVE SumOf(f, {}) = 0
BY SumUnfolds, PartialNone, FS_EmptySet

LEMMA SumIsInt ==
  ASSUME NEW f, NEW S, IsFiniteSet(S), \A x \in S : f[x] \in Int
  PROVE  SumOf(f, S) \in Int
BY SumUnfolds, PartialInt

(* Functions that agree on a set have one sum.                             *)
LEMMA SumAgrees ==
  ASSUME NEW f, NEW h, NEW S, IsFiniteSet(S), \A x \in S : f[x] = h[x]
  PROVE  SumOf(f, S) = SumOf(h, S)
<1>1. Partial(f, S)[S] = Partial(h, S)[S]
  BY PartialAgrees
<1>. QED  BY <1>1, SumUnfolds

(* One element more, or less.                                              *)
LEMMA SumTakes ==
  ASSUME NEW f, NEW S, IsFiniteSet(S), \A x \in S : f[x] \in Int, NEW x \in S
  PROVE  SumOf(f, S) = f[x] + SumOf(f, S \ {x})
<1>1. Partial(f, S)[S] = f[x] + Partial(f, S)[S \ {x}]
  BY PartialTakes
<1>2. Partial(f, S)[S \ {x}] = Partial(f, S \ {x})[S \ {x}]
  <2>1. IsFiniteSet(S \ {x}) /\ S \ {x} \in SUBSET (S \cap (S \ {x}))
    BY FS_RemoveElement
  <2>. DEFINE T == S \ {x}
  <2>2. \A s \in SUBSET T : Partial(f, S)[s] = Partial(f, T)[s]
    BY <2>1, PartialAgrees
  <2>. QED  BY <2>2
<1>. QED  BY <1>1, <1>2, SumUnfolds

LEMMA SumGrows ==
  ASSUME NEW f, NEW S, IsFiniteSet(S), NEW x, x \notin S, \A y \in S \cup {x} : f[y] \in Int
  PROVE  SumOf(f, S \cup {x}) = SumOf(f, S) + f[x]
<1>. DEFINE T == S \cup {x}
<1>1. IsFiniteSet(T) /\ x \in T /\ T \ {x} = S
  BY FS_AddElement
<1>2. SumOf(f, T) = f[x] + SumOf(f, T \ {x})
  BY <1>1, SumTakes
<1>3. SumOf(f, S) \in Int /\ f[x] \in Int
  BY SumIsInt
<1>4. SumOf(f, T \ {x}) = SumOf(f, S)
  BY <1>1, Zenon
<1>5. SumOf(f, T) = SumOf(f, S) + f[x]
  <2>. HIDE DEF T
  <2>. QED  BY <1>2, <1>3, <1>4
<1>. QED  BY <1>5

(* One summand changed.                                                    *)
LEMMA SumMoves ==
  ASSUME NEW f, NEW h, NEW S, IsFiniteSet(S), \A y \in S : f[y] \in Int, NEW x \in S, h[x] \in Int,
         \A y \in S \ {x} : h[y] = f[y]
  PROVE  SumOf(h, S) = SumOf(f, S) - f[x] + h[x]
<1>1. SumOf(f, S) = f[x] + SumOf(f, S \ {x})
  BY SumTakes
<1>2. SumOf(h, S) = h[x] + SumOf(h, S \ {x})
  <2>1. \A y \in S : h[y] \in Int
    OBVIOUS
  <2>. QED  BY <2>1, SumTakes
<1>3. SumOf(f, S \ {x}) = SumOf(h, S \ {x}) /\ SumOf(f, S \ {x}) \in Int
  BY FS_RemoveElement, SumAgrees, SumIsInt
<1>. QED  BY <1>1, <1>2, <1>3


(* A sum of nothing but zeros and ones counts the ones.                    *)
LEMMA PartialCounts ==
  ASSUME NEW f, NEW S, IsFiniteSet(S), \A x \in S : f[x] \in {0, 1}
  PROVE  \A s \in SUBSET S : Partial(f, S)[s] = Cardinality({x \in s : f[x] = 1})
<1>. DEFINE g == Partial(f, S)
            Ones(s) == {x \in s : f[x] = 1}
            Bad == {s \in SUBSET S : g[s] # Cardinality(Ones(s))}
<1>0. g[{}] = 0 /\ Cardinality(Ones({})) = 0
  BY PartialNone, FS_EmptySet
<1>1. ASSUME Bad # {} PROVE FALSE
  <2>1. PICK s \in Bad : \A t \in Bad : Cardinality(s) <= Cardinality(t)
    <3>. HIDE DEF g
    <3>. QED  BY <1>1, SmallestSet
  <2>2. s # {} /\ s \in SUBSET S
    <3>. HIDE DEF g
    <3>. QED  BY <1>0
  <2>. DEFINE p == Pick(s)
              r == s \ {p}
  <2>3. r \in SUBSET S /\ p \in S /\ p \in s /\ Cardinality(r) = Cardinality(s) - 1 /\ Cardinality(s) \in Nat
    BY <2>2, OneTaken
  <2>4. g[s] = f[p] + g[r]
    BY <2>2, PartialSteps
  <2>. HIDE DEF g, p
  <2>5. g[r] = Cardinality(Ones(r))
    <3>. DEFINE c == Cardinality(r)
    <3>1. r \notin Bad
      <4>. HIDE DEF Bad, r
      <4>. QED  BY <2>1, <2>3
    <3>. QED  BY <2>3, <3>1
  <2>6. IsFiniteSet(Ones(r)) /\ Cardinality(Ones(r)) \in Nat
    <3>1. Ones(r) \in SUBSET S
      BY <2>3
    <3>. QED  BY <3>1, FS_Subset, FS_CardinalityType
  <2>7. Cardinality(Ones(s)) = f[p] + Cardinality(Ones(r))
    <3>1. CASE f[p] = 0
      <4>1. Ones(s) = Ones(r)
        BY <3>1
      <4>. QED  BY <2>6, <3>1, <4>1
    <3>2. CASE f[p] = 1
      <4>1. Ones(s) = Ones(r) \cup {p} /\ p \notin Ones(r)
        BY <2>3, <3>2
      <4>2. Cardinality(Ones(r) \cup {p}) = Cardinality(Ones(r)) + 1
        <5>. HIDE DEF Ones
        <5>. QED  BY <2>6, <4>1, FS_AddElement
      <4>. QED  BY <2>6, <3>2, <4>1, <4>2
    <3>. QED  BY <2>3, <3>1, <3>2
  <2>. QED  BY <2>4, <2>5, <2>7
<1>. QED  BY <1>1 DEF g

LEMMA SumCounts ==
  ASSUME NEW f, NEW S, IsFiniteSet(S), \A x \in S : f[x] \in {0, 1}
  PROVE  SumOf(f, S) = Cardinality({x \in S : f[x] = 1})
<1>1. Partial(f, S)[S] = Cardinality({x \in S : f[x] = 1})
  BY PartialCounts
<1>. QED  BY <1>1, SumUnfolds

(* The elements of T changed by d each.                                    *)
LEMMA SumShifts ==
  ASSUME NEW f, NEW h, NEW S, IsFiniteSet(S), NEW T \in SUBSET S, NEW d \in Int,
         \A x \in S : f[x] \in Int /\ h[x] = f[x] + (IF x \in T THEN d ELSE 0)
  PROVE  SumOf(h, S) = SumOf(f, S) + d * Cardinality(T)
<1>. DEFINE g == Partial(f, S)
            k == Partial(h, S)
            Bad == {s \in SUBSET S : k[s] # g[s] + d * Cardinality(s \cap T)}
<1>0. g[{}] = 0 /\ k[{}] = 0 /\ Cardinality({} \cap T) = 0 /\ d * 0 = 0
  <2>1. {} \cap T = {}
    OBVIOUS
  <2>. QED  BY <2>1, PartialNone, FS_EmptySet
<1>2. \A s \in SUBSET S : g[s] \in Int
  BY PartialInt
<1>1. ASSUME Bad # {} PROVE FALSE
  <2>1. PICK s \in Bad : \A t \in Bad : Cardinality(s) <= Cardinality(t)
    <3>. HIDE DEF g, k
    <3>. QED  BY <1>1, SmallestSet
  <2>2. s # {} /\ s \in SUBSET S
    <3>1. k[{}] = g[{}] + d * Cardinality({} \cap T)
      <4>. HIDE DEF g, k
      <4>. QED  BY <1>0
    <3>2. {} \notin Bad
      BY <3>1
    <3>. HIDE DEF g, k
    <3>. QED  BY <2>1, <3>2
  <2>. DEFINE p == Pick(s)
              r == s \ {p}
              c == Cardinality(r \cap T)
  <2>3. r \in SUBSET S /\ p \in S /\ p \in s /\ Cardinality(r) = Cardinality(s) - 1 /\ Cardinality(s) \in Nat
    BY <2>2, OneTaken
  <2>4. g[s] = f[p] + g[r] /\ k[s] = h[p] + k[r]
    BY <2>2, PartialSteps
  <2>. HIDE DEF g, k, p
  <2>5. k[r] = g[r] + d * c
    <3>1. r \notin Bad
      <4>. HIDE DEF Bad, r
      <4>. QED  BY <2>1, <2>3
    <3>. QED  BY <2>3, <3>1
  <2>6. IsFiniteSet(r \cap T) /\ c \in Nat
    <3>1. r \cap T \in SUBSET S
      BY <2>3
    <3>. QED  BY <3>1, FS_Subset, FS_CardinalityType
  <2>7. CASE p \in T
    <3>1. s \cap T = (r \cap T) \cup {p} /\ p \notin r \cap T
      BY <2>3, <2>7
    <3>2. Cardinality(s \cap T) = c + 1
      <4>. DEFINE q == r \cap T
      <4>. HIDE DEF r
      <4>1. Cardinality(q \cup {p}) = Cardinality(q) + 1
        <5>. HIDE DEF q
        <5>. QED  BY <2>6, <3>1, FS_AddElement DEF q
      <4>. QED  BY <3>1, <4>1
    <3>3. h[p] = f[p] + d /\ f[p] \in Int /\ g[r] \in Int
      BY <1>2, <2>3, <2>7
    <3>4. d * (c + 1) = d * c + d
      <4>. HIDE DEF c
      <4>. QED  BY <2>6
    <3>5. d * c \in Int
      <4>. HIDE DEF c
      <4>. QED  BY <2>6
    <3>. DEFINE e == d * c
    <3>6. k[s] = g[s] + (e + d)
      <4>1. e \in Int /\ k[r] = g[r] + e
        BY <2>5, <3>5
      <4>. HIDE DEF e
      <4>. QED  BY <2>4, <3>3, <4>1
    <3>7. k[s] = g[s] + d * Cardinality(s \cap T)
      <4>1. d * Cardinality(s \cap T) = d * (c + 1)
        BY <3>2, Zenon
      <4>2. d * Cardinality(s \cap T) = e + d
        BY <3>4, <4>1, Zenon
      <4>. QED  BY <3>6, <4>2, Zenon
    <3>. QED  BY <2>1, <3>7
  <2>8. CASE p \notin T
    <3>1. s \cap T = r \cap T
      BY <2>3, <2>8
    <3>2. h[p] = f[p] + 0 /\ f[p] \in Int /\ g[r] \in Int
      BY <1>2, <2>3, <2>8
    <3>3. d * c \in Int
      <4>. HIDE DEF c
      <4>. QED  BY <2>6
    <3>. DEFINE e == d * c
    <3>4. k[s] = g[s] + e
      <4>1. e \in Int /\ k[r] = g[r] + e
        BY <2>5, <3>3
      <4>. HIDE DEF e
      <4>. QED  BY <2>4, <3>2, <4>1
    <3>5. k[s] = g[s] + d * Cardinality(s \cap T)
      BY <3>1, <3>4, Zenon
    <3>. QED  BY <2>1, <3>5
  <2>. QED  BY <2>7, <2>8
<1>3. \A s \in SUBSET S : k[s] = g[s] + d * Cardinality(s \cap T)
  BY <1>1
<1>4. S \cap T = T /\ S \in SUBSET S
  OBVIOUS
<1>5. SumOf(f, S) = g[S] /\ SumOf(h, S) = k[S]
  BY SumUnfolds
<1>6. k[S] = g[S] + d * Cardinality(S \cap T)
  <2>. HIDE DEF g, k
  <2>. QED  BY <1>3
<1>. HIDE DEF g, k
<1>. QED  BY <1>4, <1>5, <1>6, Zenon
=============================================================================
