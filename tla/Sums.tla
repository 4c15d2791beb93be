-------------------------------- MODULE Sums --------------------------------
(***************************************************************************)
(* Sums over finite sets: what MapThenSumSet of the community modules      *)
(* returns, for the totals and day counts the components add up.           *)
(*                                                                         *)
(* The library states induction over an operator, which no prover here     *)
(* can instantiate; induction on the size of a set is stated over the set  *)
(* of the subsets that have a property instead.                            *)
(***************************************************************************)
EXTENDS Integers, FiniteSets, FiniteSetsExt, FiniteSetTheorems, WellFoundedInduction, TLAPS

SumOver(f, S) == MapThenSumSet(LAMBDA x : f[x], S)

Chosen(s) == CHOOSE x \in s : TRUE
\* One step of the sum, and the function that makes it of all subsets of S.
SumStep(f, g, s) == IF s = {} THEN 0 ELSE f[Chosen(s)] + g[s \ {Chosen(s)}]
IsSum(f, S, g) == g = [s \in SUBSET S |-> SumStep(f, g, s)]

-----------------------------------------------------------------------------
LEMMA SizeInduction ==
    ASSUME NEW S, IsFiniteSet(S), NEW Good,
           \A s \in SUBSET S :
              (\A t \in SUBSET S : Cardinality(t) < Cardinality(s) => t \in Good) => s \in Good
    PROVE  \A s \in SUBSET S : s \in Good
<1> DEFINE R == OpToRel(<, Nat)
           Bad == {n \in Nat : \E s \in SUBSET S : s \notin Good /\ Cardinality(s) = n}
<1>1. \A s \in SUBSET S : Cardinality(s) \in Nat
  BY FS_Subset, FS_CardinalityType
<1>2. SUFFICES ASSUME NEW least \in SUBSET S, least \notin Good PROVE FALSE
  OBVIOUS
<1>3. Bad \subseteq Nat /\ Bad # {}
  BY <1>1, <1>2
<1>4. PICK n \in Bad : \A m \in Bad : ~ (<<m, n>> \in R)
  <2> HIDE DEF Bad, R
  <2>1. IsWellFoundedOn(R, Nat)
    BY NatLessThanWellFounded DEF R
  <2> QED BY <1>3, <2>1, WFMin
<1>5. \A m \in Bad : ~ (m < n)
  BY <1>3, <1>4 DEF OpToRel
<1>6. PICK s \in SUBSET S : s \notin Good /\ Cardinality(s) = n
  OBVIOUS
<1>7. ASSUME NEW t \in SUBSET S, Cardinality(t) < Cardinality(s) PROVE t \in Good
  <2>1. t \notin Good => Cardinality(t) \in Bad
    BY <1>1
  <2> HIDE DEF Bad
  <2> QED BY <1>5, <1>6, <1>7, <2>1
<1> HIDE DEF Bad
<1>8. \A t \in SUBSET S : Cardinality(t) < Cardinality(s) => t \in Good
  BY <1>7
<1> QED BY <1>6, <1>8

\* Without its first element a set is smaller.
LEMMA Smaller ==
    ASSUME NEW S, IsFiniteSet(S), NEW s \in SUBSET S, NEW x \in s
    PROVE  /\ s \ {x} \in SUBSET S /\ Cardinality(s \ {x}) < Cardinality(s)
           /\ Cardinality(s) \in Nat
<1>1. IsFiniteSet(s)
  BY FS_Subset
<1>2. Cardinality(s) \in Nat /\ Cardinality(s \ {x}) = Cardinality(s) - 1
  BY <1>1, FS_RemoveElement, FS_CardinalityType
<1> QED BY <1>2

LEMMA ChosenIsIn == ASSUME NEW s, s # {} PROVE Chosen(s) \in s
BY DEF Chosen

\* There is such a function: by the size of the sets it is defined on.
LEMMA SumExists ==
    ASSUME NEW S, IsFiniteSet(S), NEW f
    PROVE  \E g : IsSum(f, S, g)
<1> DEFINE Below(s) == {t \in SUBSET S : Cardinality(t) <= Cardinality(s)}
           Upto(s, g) == g = [t \in Below(s) |-> SumStep(f, g, t)]
           Good == {s \in SUBSET S : \E g : Upto(s, g)}
<1>1. ASSUME NEW s \in SUBSET S,
             \A t \in SUBSET S : Cardinality(t) < Cardinality(s) => t \in Good
      PROVE  s \in Good
  <2>1. CASE s = {}
    <3>1. \A t \in Below(s) : t = {}
      <4>1. \A t \in SUBSET S : IsFiniteSet(t)
        BY FS_Subset
      <4>2. Cardinality(s) = 0
        BY <2>1, FS_EmptySet
      <4> QED BY <4>1, <4>2, FS_EmptySet, FS_CardinalityType
    <3>2. Upto(s, [t \in Below(s) |-> 0])
      BY <3>1 DEF SumStep
    <3> QED BY <3>2
  <2>2. CASE s # {}
    <3>1. PICK x \in s : TRUE
      BY <2>2
    <3>2. s \ {x} \in Good
      BY <1>1, <3>1, Smaller
    <3>3. PICK g : Upto(s \ {x}, g)
      BY <3>2
    <3> DEFINE h == [t \in Below(s) |-> SumStep(f, g, t)]
    <3>4. \A t \in Below(s) : t # {} => t \ {Chosen(t)} \in Below(s \ {x})
      <4> SUFFICES ASSUME NEW t \in Below(s), t # {} PROVE t \ {Chosen(t)} \in Below(s \ {x})
        OBVIOUS
      <4>1. IsFiniteSet(t) /\ IsFiniteSet(s)
        BY FS_Subset
      <4>2. /\ Cardinality(t \ {Chosen(t)}) = Cardinality(t) - 1
            /\ Cardinality(s \ {x}) = Cardinality(s) - 1
            /\ Cardinality(t) \in Nat /\ Cardinality(s) \in Nat
        BY <3>1, <4>1, ChosenIsIn, FS_RemoveElement, FS_CardinalityType
      <4> QED BY <4>2
    <3>5. \A t \in Below(s \ {x}) : t \in Below(s) /\ h[t] = g[t]
      <4>1. Cardinality(s \ {x}) < Cardinality(s) /\ Cardinality(s) \in Nat
        BY <3>1, Smaller
      <4>2. \A t \in SUBSET S : Cardinality(t) \in Nat
        BY FS_Subset, FS_CardinalityType
      <4>3. Cardinality(s \ {x}) \in Nat
        BY <4>2
      <4>4. \A t \in Below(s \ {x}) : t \in Below(s)
        BY <4>1, <4>2, <4>3
      <4> QED BY <3>3, <4>4
    <3>6. \A t \in Below(s) : SumStep(f, g, t) = SumStep(f, h, t)
      BY <3>4, <3>5 DEF SumStep
    <3>7. Upto(s, h)
      BY <3>6
    <3> QED BY <3>7
  <2> QED BY <2>1, <2>2
<1>2. S \in Good
  <2> HIDE DEF Good
  <2> QED BY <1>1, SizeInduction
<1>3. \A t \in SUBSET S : Cardinality(t) <= Cardinality(S)
  BY FS_Subset
<1>4. Below(S) = SUBSET S
  BY <1>3
<1> QED BY <1>2, <1>4 DEF IsSum

\* The function the sum is read from.
PartialSums(f, S) == CHOOSE g : IsSum(f, S, g)

LEMMA SumIsSum ==
    ASSUME NEW S, IsFiniteSet(S), NEW f
    PROVE  /\ IsSum(f, S, PartialSums(f, S)) /\ SumOver(f, S) = PartialSums(f, S)[S]
           /\ \A s \in SUBSET S : PartialSums(f, S)[s] = SumStep(f, PartialSums(f, S), s)
<1>1. IsSum(f, S, PartialSums(f, S))
  BY SumExists DEF PartialSums
<1>2. SumOver(f, S) = PartialSums(f, S)[S]
  BY DEF SumOver, MapThenSumSet, MapThenFoldSet, PartialSums, IsSum, SumStep, Chosen
<1>3. \A s \in SUBSET S : PartialSums(f, S)[s] = SumStep(f, PartialSums(f, S), s)
  BY <1>1 DEF IsSum
<1> QED BY <1>1, <1>2, <1>3

\* It does not matter of which set the summed one is a subset.
LEMMA SumOfSubset ==
    ASSUME NEW S, IsFiniteSet(S), NEW T \in SUBSET S, NEW f, NEW g, \A x \in T : f[x] = g[x]
    PROVE  PartialSums(f, S)[T] = SumOver(g, T)
<1> DEFINE F == PartialSums(f, S)  G == PartialSums(g, T)
           Good == {s \in SUBSET T : F[s] = G[s]}
<1>1. IsFiniteSet(T)
  BY FS_Subset
<1>2. /\ \A s \in SUBSET T : F[s] = SumStep(f, F, s) /\ G[s] = SumStep(g, G, s)
      /\ SumOver(g, T) = G[T]
  BY <1>1, SumIsSum
<1> HIDE DEF F, G
<1>3. ASSUME NEW s \in SUBSET T,
             \A t \in SUBSET T : Cardinality(t) < Cardinality(s) => t \in Good
      PROVE  s \in Good
  <2>1. CASE s = {}
    BY <1>2, <2>1 DEF SumStep
  <2>2. CASE s # {}
    <3>1. Chosen(s) \in s
      BY <2>2, ChosenIsIn
    <3>2. s \ {Chosen(s)} \in Good
      BY <1>1, <1>3, <3>1, Smaller
    <3> QED BY <1>2, <2>2, <3>1, <3>2 DEF SumStep
  <2> QED BY <2>1, <2>2
<1>4. T \in Good
  <2> HIDE DEF Good
  <2> QED BY <1>1, <1>3, SizeInduction
<1> QED BY <1>2, <1>4 DEF F

\* Sums of whole numbers are whole numbers, and of natural ones natural ones.
LEMMA SumType ==
    ASSUME NEW S, IsFiniteSet(S), NEW f, \A x \in S : f[x] \in Int
    PROVE  /\ \A s \in SUBSET S : PartialSums(f, S)[s] \in Int
           /\ (\A x \in S : f[x] \in Nat) => SumOver(f, S) \in Nat
<1> DEFINE F == PartialSums(f, S)
           Good == {s \in SUBSET S : /\ F[s] \in Int
                                     /\ (\A x \in S : f[x] \in Nat) => F[s] \in Nat}
<1>1. (\A s \in SUBSET S : F[s] = SumStep(f, F, s)) /\ SumOver(f, S) = F[S]
  BY SumIsSum
<1> HIDE DEF F
<1>2. ASSUME NEW s \in SUBSET S,
             \A t \in SUBSET S : Cardinality(t) < Cardinality(s) => t \in Good
      PROVE  s \in Good
  <2>1. CASE s = {}
    <3>1. F[s] = 0
      BY <1>1, <2>1 DEF SumStep
    <3> QED BY <3>1
  <2>2. CASE s # {}
    <3>1. Chosen(s) \in s /\ Chosen(s) \in S
      BY <2>2, ChosenIsIn
    <3>2. s \ {Chosen(s)} \in Good
      BY <1>2, <3>1, Smaller
    <3>3. F[s] = f[Chosen(s)] + F[s \ {Chosen(s)}]
      BY <1>1, <2>2 DEF SumStep
    <3> QED BY <3>1, <3>2, <3>3
  <2> QED BY <2>1, <2>2
<1>3. \A s \in SUBSET S : s \in Good
  <2> HIDE DEF Good
  <2> QED BY <1>2, SizeInduction
<1> QED BY <1>1, <1>3 DEF F

\* Any element may be added last.
LEMMA SumAnyOrder ==
    ASSUME NEW S, IsFiniteSet(S), NEW f, \A x \in S : f[x] \in Int
    PROVE  \A s \in SUBSET S : \A x \in s : PartialSums(f, S)[s] = f[x] + PartialSums(f, S)[s \ {x}]
<1> DEFINE F == PartialSums(f, S)
           Good == {s \in SUBSET S : \A x \in s : F[s] = f[x] + F[s \ {x}]}
<1>1. \A s \in SUBSET S : F[s] = SumStep(f, F, s) /\ F[s] \in Int
  BY SumIsSum, SumType
<1> HIDE DEF F
<1>2. ASSUME NEW s \in SUBSET S,
             \A t \in SUBSET S : Cardinality(t) < Cardinality(s) => t \in Good,
             NEW x \in s
      PROVE  F[s] = f[x] + F[s \ {x}]
  <2> DEFINE c == Chosen(s)
  <2>1. c \in s /\ F[s] = f[c] + F[s \ {c}] /\ s \ {c} \in SUBSET S /\ s \ {x} \in SUBSET S
    BY <1>1, ChosenIsIn DEF SumStep
  <2>2. CASE x = c
    BY <2>1, <2>2
  <2>3. CASE x # c
    <3>1. s \ {c} \in Good /\ s \ {x} \in Good
      BY <1>2, <2>1, Smaller
    <3>2. F[s \ {c}] = f[x] + F[(s \ {c}) \ {x}] /\ F[s \ {x}] = f[c] + F[(s \ {x}) \ {c}]
      BY <2>1, <2>3, <3>1
    <3>3. (s \ {c}) \ {x} = (s \ {x}) \ {c} /\ (s \ {x}) \ {c} \in SUBSET S
      BY <2>1
    <3>4. f[x] \in Int /\ f[c] \in Int /\ F[(s \ {x}) \ {c}] \in Int
      BY <1>1, <2>1, <3>3
    <3>5. PICK i \in Int, j \in Int, n \in Int :
            i = f[x] /\ j = f[c] /\ n = F[(s \ {x}) \ {c}]
      BY <3>4
    <3>6. F[s] = j + (i + n) /\ F[s \ {x}] = j + n
      BY <2>1, <3>2, <3>3, <3>5
    <3>7. F[s] = i + F[s \ {x}]
      BY <3>6
    <3> QED BY <3>5, <3>7
  <2> QED BY <2>2, <2>3
<1>3. \A s \in SUBSET S : s \in Good
  <2>1. \A s \in SUBSET S :
          (\A t \in SUBSET S : Cardinality(t) < Cardinality(s) => t \in Good) => s \in Good
    BY <1>2
  <2> HIDE DEF Good
  <2> QED BY <2>1, SizeInduction
<1> QED BY <1>3 DEF F

-----------------------------------------------------------------------------
\* What a total adds up.
THEOREM SumOverAdds ==
    ASSUME NEW S, IsFiniteSet(S), NEW f, \A x \in S : f[x] \in Int
    PROVE  /\ SumOver(f, S) \in Int
           /\ (\A x \in S : f[x] \in Nat) => SumOver(f, S) \in Nat
           /\ S = {} => SumOver(f, S) = 0
           /\ \A x \in S : SumOver(f, S) = f[x] + SumOver(f, S \ {x})
<1>1. SumOver(f, S) = PartialSums(f, S)[S] /\ PartialSums(f, S)[S] = SumStep(f, PartialSums(f, S), S)
  BY SumIsSum
<1>2. SumOver(f, S) \in Int /\ ((\A x \in S : f[x] \in Nat) => SumOver(f, S) \in Nat)
  BY <1>1, SumType
<1>3. S = {} => SumOver(f, S) = 0
  BY <1>1 DEF SumStep
<1>4. ASSUME NEW x \in S PROVE SumOver(f, S) = f[x] + SumOver(f, S \ {x})
  <2>1. SumOver(f, S) = f[x] + PartialSums(f, S)[S \ {x}]
    BY <1>1, SumAnyOrder
  <2>2. PartialSums(f, S)[S \ {x}] = SumOver(f, S \ {x})
    BY SumOfSubset
  <2> QED BY <2>1, <2>2
<1> QED BY <1>2, <1>3, <1>4

\* A total depends on what is added and on nothing else.
THEOREM SumOverSame ==
    ASSUME NEW S, IsFiniteSet(S), NEW f, NEW g, \A x \in S : f[x] = g[x]
    PROVE  SumOver(f, S) = SumOver(g, S)
<1>1. PartialSums(f, S)[S] = SumOver(g, S)
  BY SumOfSubset
<1> QED BY <1>1, SumIsSum

\* Where one thing is added, or grows, the total does not fall.
THEOREM SumOverGrows ==
    ASSUME NEW T, IsFiniteSet(T), NEW S \in SUBSET T, NEW x, T \subseteq S \cup {x},
           NEW f, NEW g, \A y \in S : f[y] \in Int, \A y \in T : g[y] \in Int,
           \A y \in S \ {x} : f[y] = g[y],
           x \in T => g[x] >= 0, x \in S => f[x] <= g[x]
    PROVE  SumOver(f, S) <= SumOver(g, T)
<1>1. IsFiniteSet(S) /\ IsFiniteSet(S \ {x})
  BY FS_Subset
<1>2. S \ {x} = T \ {x}
  OBVIOUS
<1>3. SumOver(f, S \ {x}) = SumOver(g, S \ {x}) /\ SumOver(g, S \ {x}) \in Int
  BY <1>1, SumOverSame, SumOverAdds
<1>4. x \in T => SumOver(g, T) = g[x] + SumOver(g, S \ {x})
  BY <1>2, SumOverAdds
<1>5. x \in S => SumOver(f, S) = f[x] + SumOver(f, S \ {x})
  BY <1>1, SumOverAdds
<1>6. PICK m \in Int : m = SumOver(g, S \ {x})
  BY <1>3
<1>7. CASE x \in S
  BY <1>3, <1>4, <1>5, <1>6, <1>7
<1>8. CASE x \notin S /\ x \in T
  <2>1. S \ {x} = S
    BY <1>8
  <2>2. SumOver(f, S) = m
    BY <1>3, <1>6, <2>1
  <2>3. PICK k \in Int : k = g[x]
    BY <1>8
  <2>4. k >= 0 /\ SumOver(g, T) = k + m
    BY <1>4, <1>6, <1>8, <2>3
  <2> QED BY <2>2, <2>4
<1>9. CASE x \notin T
  <2>1. S \ {x} = S /\ T = S
    BY <1>9
  <2> QED BY <1>3, <1>6, <2>1
<1> QED BY <1>7, <1>8, <1>9
=============================================================================
