------------------------------ MODULE SumFacts ------------------------------
(***************************************************************************)
(* Sums and products over finite sets: the balances, caps and holds the    *)
(* components add up with SumFunctionOnSet, the odds of several legs.      *)
(*                                                                         *)
(* SumFunctionOnSet(f, S) is defined by recursion on the subsets of S, so  *)
(* nothing about it follows without an induction.  The library's induction *)
(* theorems take a predicate as a parameter; here the induction runs on a  *)
(* set T of subsets instead.  A nonempty set of subsets of a finite set    *)
(* has a least one under inclusion (LeastSubset), so a T that is closed    *)
(* under adding one element leaves no subset out (SubsetInduction).  The   *)
(* same argument shows that the recursion has a solution (FoldExists) and  *)
(* only one (FoldsAgree); after that a sum is what it should be: empty, it *)
(* is 0, and any element may be taken out of it (SumRemove).               *)
(***************************************************************************)
EXTENDS Integers, FiniteSets, Functions, FiniteSetTheorems, TLAPS

\* Among subsets of a finite set there is one that includes no other.
LEMMA LeastSubset ==
  ASSUME NEW S, IsFiniteSet(S), NEW T, T \subseteq SUBSET S, T # {}
  PROVE  \E m \in T : \A y \in T : ~(y \subseteq m /\ y # m)
<1> DEFINE R == StrictSubsetOrdering(S)
<1>1. IsWellFoundedOn(R, FiniteSubsetsOf(S))
  BY FS_StrictSubsetOrderingWellFounded
<1>2. FiniteSubsetsOf(S) = SUBSET S
  BY FS_FiniteSubsetsOfFinite
<1>3. PICK m \in T : \A y \in T : ~(<<y, m>> \in R)
  <2> HIDE DEF R
  <2> QED BY <1>1, <1>2, WFMin
<1>4. ASSUME NEW y \in T, y \subseteq m, y # m
      PROVE  FALSE
  <2>1. y \in SUBSET S /\ m \in SUBSET S
    OBVIOUS
  <2>2. <<y, m>> \in R
    BY <1>4, <2>1 DEF StrictSubsetOrdering
  <2> QED BY <1>3, <2>2
<1> QED BY <1>4

\* What holds of the empty set, and of a set with one element more, holds of S.
LEMMA SubsetInduction ==
  ASSUME NEW S, IsFiniteSet(S), NEW T,
         {} \in T, \A A \in SUBSET S : \A x \in S \ A : A \in T => A \cup {x} \in T
  PROVE  S \in T
<1>1. SUFFICES ASSUME S \notin T
               PROVE  FALSE
  OBVIOUS
<1> DEFINE Bad == (SUBSET S) \ T
<1>2. PICK m \in Bad : \A y \in Bad : ~(y \subseteq m /\ y # m)
  <2>1. Bad \subseteq SUBSET S /\ Bad # {}
    BY <1>1
  <2> HIDE DEF Bad
  <2> QED BY <2>1, LeastSubset
<1>3. PICK x \in m : TRUE
  OBVIOUS
<1>4. m \ {x} \in T
  BY <1>2
<1>5. (m \ {x}) \cup {x} = m
  OBVIOUS
<1> QED BY <1>4, <1>5

\* The element the recursion takes out of a set.
Chosen(s) == CHOOSE x \in s : TRUE

\* g adds f up over every set of the domain D.
IsFold(f, D, g) ==
  \A s \in D : g[s] = IF s = {} THEN 0 ELSE f[Chosen(s)] + g[s \ {Chosen(s)}]

\* The recursive function behind SumFunctionOnSet.
Fold(f, S, g) ==
  g = [s \in SUBSET S |-> IF s = {} THEN 0 ELSE f[Chosen(s)] + g[s \ {Chosen(s)}]]

LEMMA SumDef ==
  ASSUME NEW S, NEW f
  PROVE  SumFunctionOnSet(f, S) = (CHOOSE g : Fold(f, S, g))[S]
BY DEF SumFunctionOnSet, FoldFunctionOnSet, MapThenFoldSet, Fold, Chosen

LEMMA ChosenIn ==
  ASSUME NEW s, s # {}
  PROVE  Chosen(s) \in s
BY DEF Chosen

\* The subsets no larger than A: the recursion from A stays among them.
Small(S, A) == {s \in SUBSET S : Cardinality(s) <= Cardinality(A)}

LEMMA CardinalityOfSubset ==
  ASSUME NEW S, IsFiniteSet(S), NEW A \in SUBSET S
  PROVE  /\ Cardinality(A) \in Nat
         /\ Cardinality(A) <= Cardinality(S)
         /\ Cardinality(S) \in Nat
         /\ Cardinality(A) = 0 <=> A = {}
         /\ \A x \in A : Cardinality(A \ {x}) = Cardinality(A) - 1
         /\ \A x \in S \ A : Cardinality(A \cup {x}) = Cardinality(A) + 1
<1>1. IsFiniteSet(A) /\ Cardinality(A) <= Cardinality(S)
  BY FS_Subset
<1>2. Cardinality(A) \in Nat /\ Cardinality(S) \in Nat
  BY <1>1, FS_CardinalityType
<1>3. Cardinality(A) = 0 <=> A = {}
  BY <1>1, FS_EmptySet
<1>4. \A x \in A : Cardinality(A \ {x}) = Cardinality(A) - 1
  BY <1>1, FS_RemoveElement
<1>5. \A x \in S \ A : Cardinality(A \cup {x}) = Cardinality(A) + 1
  BY <1>1, FS_AddElement
<1> QED BY <1>1, <1>2, <1>3, <1>4, <1>5

\* The recursion has a solution.
LEMMA FoldExists ==
  ASSUME NEW S, IsFiniteSet(S), NEW f, \A x \in S : f[x] \in Int
  PROVE  \E g \in [SUBSET S -> Int] : Fold(f, S, g)
<1> DEFINE T == {A \in SUBSET S : \E g \in [Small(S, A) -> Int] : IsFold(f, Small(S, A), g)}
<1>1. {} \in T
  <2>1. Small(S, {}) = {{}}
    BY CardinalityOfSubset, FS_EmptySet DEF Small
  <2>2. [s \in {{}} |-> 0] \in [{{}} -> Int]
    OBVIOUS
  <2>3. IsFold(f, {{}}, [s \in {{}} |-> 0])
    BY DEF IsFold
  <2> QED BY <2>1, <2>2, <2>3
<1>2. ASSUME NEW A \in SUBSET S, NEW x \in S \ A, A \in T
      PROVE  A \cup {x} \in T
  <2>1. PICK g \in [Small(S, A) -> Int] : IsFold(f, Small(S, A), g)
    BY <1>2
  <2> DEFINE B == A \cup {x}
             h == [s \in Small(S, B) |-> IF s = {} THEN 0 ELSE f[Chosen(s)] + g[s \ {Chosen(s)}]]
  <2>2. Cardinality(B) = Cardinality(A) + 1 /\ Cardinality(A) \in Nat
    BY CardinalityOfSubset
  <2> HIDE DEF B
  <2>3. ASSUME NEW s \in Small(S, B), s # {}
        PROVE  /\ s \ {Chosen(s)} \in Small(S, A)
               /\ f[Chosen(s)] \in Int
    <3>1. Chosen(s) \in s
      BY <2>3, ChosenIn
    <3>2. s \in SUBSET S /\ Cardinality(s) <= Cardinality(B)
      BY DEF Small
    <3>3. Cardinality(s \ {Chosen(s)}) = Cardinality(s) - 1 /\ Cardinality(s) \in Nat
      BY <3>1, <3>2, CardinalityOfSubset
    <3> QED BY <2>2, <3>1, <3>2, <3>3 DEF Small
  <2>4. h \in [Small(S, B) -> Int]
    BY <2>3
  <2>5. ASSUME NEW s \in Small(S, A)
        PROVE  h[s] = g[s]
    <3>1. s \in Small(S, B)
      BY <2>2, CardinalityOfSubset DEF Small
    <3> QED BY <2>1, <3>1 DEF IsFold
  <2>6. IsFold(f, Small(S, B), h)
    <3>1. SUFFICES ASSUME NEW s \in Small(S, B)
                   PROVE  h[s] = IF s = {} THEN 0 ELSE f[Chosen(s)] + h[s \ {Chosen(s)}]
      BY DEF IsFold
    <3>2. s # {} => h[s \ {Chosen(s)}] = g[s \ {Chosen(s)}]
      <4> HIDE DEF h
      <4> QED BY <2>3, <2>5
    <3> QED BY <3>2
  <2>7. B \in SUBSET S
    BY DEF B
  <2> HIDE DEF h
  <2> QED BY <2>4, <2>6, <2>7 DEF B
<1>3. S \in T
  <2> HIDE DEF T
  <2> QED BY <1>1, <1>2, SubsetInduction
<1>4. PICK g \in [Small(S, S) -> Int] : IsFold(f, Small(S, S), g)
  BY <1>3
<1>5. Small(S, S) = SUBSET S
  BY CardinalityOfSubset DEF Small
<1> QED BY <1>4, <1>5 DEF IsFold, Fold

\* Two solutions agree wherever both are defined.
LEMMA FoldsAgree ==
  ASSUME NEW S, IsFiniteSet(S), NEW A \in SUBSET S, NEW f, NEW g, NEW h,
         Fold(f, S, g), Fold(f, A, h)
  PROVE  h[A] = g[A]
<1> DEFINE Bad == {s \in SUBSET A : h[s] # g[s]}
<1>1. SUFFICES ASSUME Bad # {}
               PROVE  FALSE
  OBVIOUS
<1>2. IsFiniteSet(A)
  BY FS_Subset
<1>3. PICK m \in Bad : \A y \in Bad : ~(y \subseteq m /\ y # m)
  <2>1. Bad \subseteq SUBSET A
    OBVIOUS
  <2> HIDE DEF Bad
  <2> QED BY <1>1, <1>2, <2>1, LeastSubset
<1>4. h[m] = IF m = {} THEN 0 ELSE f[Chosen(m)] + h[m \ {Chosen(m)}]
  BY DEF Fold
<1>5. g[m] = IF m = {} THEN 0 ELSE f[Chosen(m)] + g[m \ {Chosen(m)}]
  BY DEF Fold
<1>6. m # {} => m \ {Chosen(m)} \notin Bad
  BY <1>3, ChosenIn
<1> QED BY <1>4, <1>5, <1>6

\* A sum is its chosen element and the sum of the rest.
LEMMA SumStep ==
  ASSUME NEW S, IsFiniteSet(S), NEW f, \A x \in S : f[x] \in Int
  PROVE  /\ SumFunctionOnSet(f, S) \in Int
         /\ S = {} => SumFunctionOnSet(f, S) = 0
         /\ S # {} => SumFunctionOnSet(f, S) = f[Chosen(S)] + SumFunctionOnSet(f, S \ {Chosen(S)})
<1> DEFINE G(A) == CHOOSE g : Fold(f, A, g)
<1>1. PICK g \in [SUBSET S -> Int] : Fold(f, S, g)
  BY FoldExists
<1>2. ASSUME NEW A \in SUBSET S
      PROVE  SumFunctionOnSet(f, A) = g[A]
  <2>1. IsFiniteSet(A)
    BY FS_Subset
  <2>2. \E h : Fold(f, A, h)
    BY <2>1, FoldExists
  <2>3. Fold(f, A, G(A))
    BY <2>2
  <2>4. G(A)[A] = g[A]
    <3> HIDE DEF G
    <3> QED BY <1>1, <2>3, FoldsAgree
  <2> QED BY <2>4, SumDef
<1>3. g[S] = IF S = {} THEN 0 ELSE f[Chosen(S)] + g[S \ {Chosen(S)}]
  BY <1>1 DEF Fold
<1> QED BY <1>1, <1>2, <1>3

\* Any element may be the one taken out: the order does not matter.
LEMMA SumRemove ==
  ASSUME NEW S, IsFiniteSet(S), NEW f, \A i \in S : f[i] \in Int, NEW x \in S
  PROVE  /\ SumFunctionOnSet(f, S) = f[x] + SumFunctionOnSet(f, S \ {x})
         /\ SumFunctionOnSet(f, S) \in Int
         /\ SumFunctionOnSet(f, S \ {x}) \in Int
<1> DEFINE Total(A) == SumFunctionOnSet(f, A)
           Bad == {A \in SUBSET S : \E i \in A : Total(A) # f[i] + Total(A \ {i})}
<1>1. ASSUME NEW A \in SUBSET S
      PROVE  /\ Total(A) \in Int
             /\ A # {} => Total(A) = f[Chosen(A)] + Total(A \ {Chosen(A)})
  <2>1. IsFiniteSet(A) /\ \A i \in A : f[i] \in Int
    BY FS_Subset
  <2> QED BY <2>1, SumStep
<1> HIDE DEF Total
<1>2. Bad = {}
  <2>1. SUFFICES ASSUME Bad # {}
                 PROVE  FALSE
    OBVIOUS
  <2>2. PICK m \in Bad : \A y \in Bad : ~(y \subseteq m /\ y # m)
    <3>1. Bad \subseteq SUBSET S
      OBVIOUS
    <3> HIDE DEF Bad
    <3> QED BY <2>1, <3>1, LeastSubset
  <2>3. PICK i \in m : Total(m) # f[i] + Total(m \ {i})
    OBVIOUS
  <2> DEFINE p == Chosen(m)
  <2>4. p \in m /\ Total(m) = f[p] + Total(m \ {p})
    BY <1>1, ChosenIn
  <2> HIDE DEF p
  <2>5. p # i
    BY <2>3, <2>4
  <2>6. m \ {p} \notin Bad /\ m \ {i} \notin Bad
    BY <2>2, <2>3, <2>4
  <2>7. Total(m \ {p}) = f[i] + Total((m \ {p}) \ {i})
    BY <2>3, <2>5, <2>6
  <2>8. Total(m \ {i}) = f[p] + Total((m \ {i}) \ {p})
    BY <2>4, <2>5, <2>6
  <2>9. Total((m \ {p}) \ {i}) = Total((m \ {i}) \ {p})
    <3>1. (m \ {p}) \ {i} = (m \ {i}) \ {p}
      OBVIOUS
    <3> QED BY <3>1
  <2>10. f[p] \in Int /\ f[i] \in Int /\ Total((m \ {i}) \ {p}) \in Int
    <3>1. p \in S /\ i \in S /\ (m \ {i}) \ {p} \in SUBSET S
      BY <2>3, <2>4
    <3> QED BY <1>1, <3>1
  <2>11. Total(m) = f[p] + (f[i] + Total((m \ {i}) \ {p}))
    BY <2>4, <2>7, <2>9
  <2>12. f[i] + Total(m \ {i}) = f[i] + (f[p] + Total((m \ {i}) \ {p}))
    BY <2>8
  <2>13. Total(m) = f[i] + Total(m \ {i})
    BY <2>10, <2>11, <2>12
  <2> QED BY <2>3, <2>13
<1>3. Total(S) = f[x] + Total(S \ {x})
  BY <1>2
<1> QED BY <1>1, <1>3 DEF Total

LEMMA SumType ==
  ASSUME NEW S, IsFiniteSet(S), NEW f, \A i \in S : f[i] \in Int
  PROVE  SumFunctionOnSet(f, S) \in Int
BY SumStep

LEMMA SumEmpty ==
  ASSUME NEW f
  PROVE  SumFunctionOnSet(f, {}) = 0
BY SumStep, FS_EmptySet

\* One element more.
LEMMA SumAdd ==
  ASSUME NEW S, IsFiniteSet(S), NEW f, NEW x, x \notin S,
         \A i \in S \cup {x} : f[i] \in Int
  PROVE  SumFunctionOnSet(f, S \cup {x}) = f[x] + SumFunctionOnSet(f, S)
<1>1. IsFiniteSet(S \cup {x})
  BY FS_AddElement
<1>2. (S \cup {x}) \ {x} = S
  OBVIOUS
<1> QED BY <1>1, <1>2, SumRemove

\* The sum depends on the values of the elements and nothing else.
LEMMA SumSame ==
  ASSUME NEW S, IsFiniteSet(S), NEW f, NEW g,
         \A i \in S : f[i] \in Int /\ g[i] = f[i]
  PROVE  SumFunctionOnSet(g, S) = SumFunctionOnSet(f, S)
<1> DEFINE T == {A \in SUBSET S : SumFunctionOnSet(g, A) = SumFunctionOnSet(f, A)}
<1>1. {} \in T
  BY SumEmpty
<1>2. ASSUME NEW A \in SUBSET S, NEW x \in S \ A, A \in T
      PROVE  A \cup {x} \in T
  <2>1. IsFiniteSet(A)
    BY FS_Subset
  <2>2. \A i \in A \cup {x} : f[i] \in Int /\ g[i] \in Int
    OBVIOUS
  <2>3. SumFunctionOnSet(g, A \cup {x}) = g[x] + SumFunctionOnSet(g, A)
    BY <2>1, <2>2, SumAdd
  <2>4. SumFunctionOnSet(f, A \cup {x}) = f[x] + SumFunctionOnSet(f, A)
    BY <2>1, <2>2, SumAdd
  <2> QED BY <1>2, <2>3, <2>4
<1> HIDE DEF T
<1>3. S \in T
  BY <1>1, <1>2, SubsetInduction
<1> QED BY <1>3 DEF T

\* One value changes.
LEMMA SumChange ==
  ASSUME NEW S, IsFiniteSet(S), NEW f, NEW g, NEW x \in S,
         \A i \in S : f[i] \in Int /\ g[i] \in Int,
         \A i \in S \ {x} : g[i] = f[i]
  PROVE  SumFunctionOnSet(g, S) = SumFunctionOnSet(f, S) - f[x] + g[x]
<1>1. IsFiniteSet(S \ {x})
  BY FS_RemoveElement
<1>2. SumFunctionOnSet(g, S \ {x}) = SumFunctionOnSet(f, S \ {x})
  BY <1>1, SumSame
<1>3. /\ SumFunctionOnSet(f, S) = f[x] + SumFunctionOnSet(f, S \ {x})
      /\ SumFunctionOnSet(f, S \ {x}) \in Int
  BY SumRemove
<1>4. SumFunctionOnSet(g, S) = g[x] + SumFunctionOnSet(g, S \ {x})
  BY SumRemove
<1> QED BY <1>2, <1>3, <1>4

\* A sum of naturals over fewer elements is no larger.
LEMMA SumSubset ==
  ASSUME NEW S, IsFiniteSet(S), NEW f, \A i \in S : f[i] \in Nat, NEW A \in SUBSET S
  PROVE  /\ SumFunctionOnSet(f, A) \in Nat
         /\ SumFunctionOnSet(f, S) \in Nat
         /\ SumFunctionOnSet(f, A) <= SumFunctionOnSet(f, S)
<1> DEFINE T == {B \in SUBSET S : 
                   /\ SumFunctionOnSet(f, B) \in Nat
                   /\ \A C \in SUBSET B :
                        /\ SumFunctionOnSet(f, C) \in Nat
                        /\ SumFunctionOnSet(f, C) <= SumFunctionOnSet(f, B)}
<1>1. {} \in T
  BY SumEmpty
<1>2. ASSUME NEW B \in SUBSET S, NEW x \in S \ B, B \in T
      PROVE  B \cup {x} \in T
  <2>1. IsFiniteSet(B)
    BY FS_Subset
  <2>2. \A i \in B \cup {x} : f[i] \in Int
    OBVIOUS
  <2>3. SumFunctionOnSet(f, B \cup {x}) = f[x] + SumFunctionOnSet(f, B)
    BY <2>1, <2>2, SumAdd
  <2>4. f[x] \in Nat /\ SumFunctionOnSet(f, B) \in Nat
    BY <1>2
  <2>5. ASSUME NEW C \in SUBSET (B \cup {x})
        PROVE  /\ SumFunctionOnSet(f, C) \in Nat
               /\ SumFunctionOnSet(f, C) <= SumFunctionOnSet(f, B \cup {x})
    <3>1. CASE x \notin C
      <4>1. C \in SUBSET B
        BY <3>1
      <4> QED BY <1>2, <2>3, <2>4, <4>1
    <3>2. CASE x \in C
      <4>1. IsFiniteSet(C \ {x}) /\ C \ {x} \in SUBSET B
        BY <2>1, FS_Subset
      <4>2. (C \ {x}) \cup {x} = C
        BY <3>2
      <4>3. SumFunctionOnSet(f, (C \ {x}) \cup {x}) = f[x] + SumFunctionOnSet(f, C \ {x})
        BY <2>2, <4>1, SumAdd
      <4> QED BY <1>2, <2>3, <2>4, <4>1, <4>2, <4>3
    <3> QED BY <3>1, <3>2
  <2> QED BY <2>3, <2>4, <2>5
<1> HIDE DEF T
<1>3. S \in T
  BY <1>1, <1>2, SubsetInduction
<1> QED BY <1>3 DEF T

\* No element is larger than the sum it is in.
LEMMA SumAtLeast ==
  ASSUME NEW S, IsFiniteSet(S), NEW f, \A i \in S : f[i] \in Nat, NEW x \in S
  PROVE  f[x] <= SumFunctionOnSet(f, S)
<1>1. SumFunctionOnSet(f, S) = f[x] + SumFunctionOnSet(f, S \ {x})
  BY SumRemove
<1>2. SumFunctionOnSet(f, S \ {x}) \in Nat
  BY SumSubset
<1> QED BY <1>1, <1>2

\* Elements worth 0 may be left out.
LEMMA SumSupport ==
  ASSUME NEW S, IsFiniteSet(S), NEW A \in SUBSET S, NEW f,
         \A i \in A : f[i] \in Int, \A i \in S \ A : f[i] = 0
  PROVE  SumFunctionOnSet(f, S) = SumFunctionOnSet(f, A)
<1> DEFINE T == {B \in SUBSET (S \ A) :
                   SumFunctionOnSet(f, A \cup B) = SumFunctionOnSet(f, A)}
<1>1. IsFiniteSet(S \ A) /\ IsFiniteSet(A)
  BY FS_Subset
<1>2. SumFunctionOnSet(f, A) \in Int
  BY <1>1, SumType
<1>3. {} \in T
  <2>1. A \cup {} = A
    OBVIOUS
  <2> QED
    BY <2>1
<1>4. ASSUME NEW B \in SUBSET (S \ A), NEW x \in (S \ A) \ B, B \in T
      PROVE  B \cup {x} \in T
  <2>1. IsFiniteSet(A \cup B)
    BY FS_Subset
  <2>2. x \notin A \cup B /\ \A i \in (A \cup B) \cup {x} : f[i] \in Int
    OBVIOUS
  <2>3. SumFunctionOnSet(f, (A \cup B) \cup {x}) = f[x] + SumFunctionOnSet(f, A \cup B)
    BY <2>1, <2>2, SumAdd
  <2>4. A \cup (B \cup {x}) = (A \cup B) \cup {x}
    OBVIOUS
  <2>5. SumFunctionOnSet(f, A \cup B) = SumFunctionOnSet(f, A) /\ f[x] = 0
    BY <1>4
  <2> DEFINE whole == SumFunctionOnSet(f, (A \cup B) \cup {x})
             part  == SumFunctionOnSet(f, A \cup B)
             total == SumFunctionOnSet(f, A)
  <2>6. whole = total
    <3>1. total \in Int /\ whole = f[x] + part /\ part = total /\ f[x] = 0
      BY <1>2, <2>3, <2>5
    <3> HIDE DEF whole, part, total
    <3> QED
      BY <3>1
  <2>7. SumFunctionOnSet(f, A \cup (B \cup {x})) = SumFunctionOnSet(f, A)
    BY <2>4, <2>6, Zenon
  <2> QED
    BY <2>7
<1>5. S \ A \in T
  <2> HIDE DEF T
  <2> QED
    BY <1>1, <1>3, <1>4, SubsetInduction
<1>6. A \cup (S \ A) = S
  OBVIOUS
<1> QED
  BY <1>5, <1>6

\* Sums subtract element by element.
LEMMA SumMinus ==
  ASSUME NEW S, IsFiniteSet(S), NEW f, NEW g, NEW h,
         \A i \in S : f[i] \in Int /\ g[i] \in Int /\ h[i] = f[i] - g[i]
  PROVE  /\ SumFunctionOnSet(h, S) = SumFunctionOnSet(f, S) - SumFunctionOnSet(g, S)
         /\ SumFunctionOnSet(f, S) \in Int /\ SumFunctionOnSet(g, S) \in Int
<1> DEFINE T == {A \in SUBSET S :
                   SumFunctionOnSet(h, A) = SumFunctionOnSet(f, A) - SumFunctionOnSet(g, A)}
<1>1. {} \in T
  BY SumEmpty
<1>2. ASSUME NEW A \in SUBSET S, NEW x \in S \ A, A \in T
      PROVE  A \cup {x} \in T
  <2>1. IsFiniteSet(A)
    BY FS_Subset
  <2>2. \A i \in A \cup {x} : f[i] \in Int /\ g[i] \in Int /\ h[i] \in Int
    OBVIOUS
  <2>3. /\ SumFunctionOnSet(f, A) \in Int /\ SumFunctionOnSet(g, A) \in Int
        /\ SumFunctionOnSet(h, A) \in Int
    BY <2>1, <2>2, SumType
  <2>4. /\ SumFunctionOnSet(f, A \cup {x}) = f[x] + SumFunctionOnSet(f, A)
        /\ SumFunctionOnSet(g, A \cup {x}) = g[x] + SumFunctionOnSet(g, A)
        /\ SumFunctionOnSet(h, A \cup {x}) = h[x] + SumFunctionOnSet(h, A)
    BY <2>1, <2>2, SumAdd
  <2>5. /\ SumFunctionOnSet(h, A) = SumFunctionOnSet(f, A) - SumFunctionOnSet(g, A)
        /\ h[x] = f[x] - g[x] /\ f[x] \in Int /\ g[x] \in Int
    BY <1>2
  <2> QED
    BY <2>3, <2>4, <2>5
<1>3. S \in T
  <2> HIDE DEF T
  <2> QED
    BY <1>1, <1>2, SubsetInduction
<1> QED
  BY <1>3, SumType

\* A sum of smaller things is smaller.
LEMMA SumAtMost ==
  ASSUME NEW S, IsFiniteSet(S), NEW f, NEW g,
         \A i \in S : f[i] \in Int /\ g[i] \in Int /\ f[i] <= g[i]
  PROVE  /\ SumFunctionOnSet(f, S) <= SumFunctionOnSet(g, S)
         /\ SumFunctionOnSet(f, S) \in Int /\ SumFunctionOnSet(g, S) \in Int
<1> DEFINE h == [i \in S |-> g[i] - f[i]]
<1>1. \A i \in S : h[i] = g[i] - f[i] /\ h[i] \in Nat
  OBVIOUS
<1> HIDE DEF h
<1>2. /\ SumFunctionOnSet(h, S) = SumFunctionOnSet(g, S) - SumFunctionOnSet(f, S)
      /\ SumFunctionOnSet(g, S) \in Int /\ SumFunctionOnSet(f, S) \in Int
  BY <1>1, SumMinus
<1>3. SumFunctionOnSet(h, S) \in Nat
  BY <1>1, SumSubset
<1> QED
  BY <1>2, <1>3

-----------------------------------------------------------------------------
(* Taking elements out of a set until it may stay as it is. *)

Thins(f, U, Stop, out) ==
  f = [A \in SUBSET U |-> IF A \in Stop THEN A ELSE f[A \ {out[A]}]]

LEMMA ThinningExists ==
  ASSUME NEW U, IsFiniteSet(U), NEW Stop, NEW out,
         \A A \in SUBSET U : A \notin Stop => out[A] \in A
  PROVE  \E f : Thins(f, U, Stop, out)
<1> DEFINE IsThin(D, g) == \A s \in D : g[s] = IF s \in Stop THEN s ELSE g[s \ {out[s]}]
           T == {A \in SUBSET U : \E g \in [Small(U, A) -> SUBSET U] : IsThin(Small(U, A), g)}
<1>1. {} \in T
  <2>1. Small(U, {}) = {{}}
    BY CardinalityOfSubset, FS_EmptySet DEF Small
  <2>2. {} \in Stop
    OBVIOUS
  <2>3. [s \in {{}} |-> s] \in [{{}} -> SUBSET U]
    OBVIOUS
  <2>4. IsThin({{}}, [s \in {{}} |-> s])
    BY <2>2
  <2> QED BY <2>1, <2>3, <2>4
<1>2. ASSUME NEW A \in SUBSET U, NEW x \in U \ A, A \in T
      PROVE  A \cup {x} \in T
  <2>1. PICK g \in [Small(U, A) -> SUBSET U] : IsThin(Small(U, A), g)
    BY <1>2
  <2> DEFINE B == A \cup {x}
             h == [s \in Small(U, B) |-> IF s \in Stop THEN s ELSE g[s \ {out[s]}]]
  <2>2. Cardinality(B) = Cardinality(A) + 1 /\ Cardinality(A) \in Nat
    BY CardinalityOfSubset
  <2> HIDE DEF B
  <2>3. ASSUME NEW s \in Small(U, B), s \notin Stop
        PROVE  s \ {out[s]} \in Small(U, A)
    <3>1. s \in SUBSET U /\ Cardinality(s) <= Cardinality(B)
      BY DEF Small
    <3>2. out[s] \in s
      BY <2>3, <3>1
    <3>3. Cardinality(s \ {out[s]}) = Cardinality(s) - 1 /\ Cardinality(s) \in Nat
      BY <3>1, <3>2, CardinalityOfSubset
    <3> QED BY <2>2, <3>1, <3>3 DEF Small
  <2>4. h \in [Small(U, B) -> SUBSET U]
    BY <2>3 DEF Small
  <2>5. ASSUME NEW s \in Small(U, A)
        PROVE  h[s] = g[s]
    <3>1. s \in Small(U, B)
      BY <2>2, CardinalityOfSubset DEF Small
    <3> QED BY <2>1, <3>1
  <2>6. IsThin(Small(U, B), h)
    <3>1. SUFFICES ASSUME NEW s \in Small(U, B)
                   PROVE  h[s] = IF s \in Stop THEN s ELSE h[s \ {out[s]}]
      OBVIOUS
    <3>2. s \notin Stop => h[s \ {out[s]}] = g[s \ {out[s]}]
      <4> HIDE DEF h
      <4> QED BY <2>3, <2>5
    <3> QED BY <3>2
  <2>7. B \in SUBSET U
    BY DEF B
  <2> HIDE DEF h
  <2> QED BY <2>4, <2>6, <2>7 DEF B
<1>3. U \in T
  <2> HIDE DEF T
  <2> QED BY <1>1, <1>2, SubsetInduction
<1>4. PICK g \in [Small(U, U) -> SUBSET U] : IsThin(Small(U, U), g)
  BY <1>3
<1>5. Small(U, U) = SUBSET U
  BY CardinalityOfSubset DEF Small
<1> QED BY <1>4, <1>5 DEF Thins

\* It ends with a subset that may stay.
LEMMA ThinningEnds ==
  ASSUME NEW U, IsFiniteSet(U), NEW Stop, NEW out, NEW f,
         \A A \in SUBSET U : A \notin Stop => out[A] \in A,
         Thins(f, U, Stop, out)
  PROVE  f[U] \in SUBSET U /\ f[U] \in Stop
<1> DEFINE Bad == {A \in SUBSET U : ~(f[A] \in SUBSET A /\ f[A] \in Stop)}
<1>1. SUFFICES ASSUME Bad # {}
               PROVE  FALSE
  OBVIOUS
<1>2. PICK m \in Bad : \A y \in Bad : ~(y \subseteq m /\ y # m)
  <2>1. Bad \subseteq SUBSET U
    OBVIOUS
  <2> HIDE DEF Bad
  <2> QED BY <1>1, <2>1, LeastSubset
<1>3. f[m] = IF m \in Stop THEN m ELSE f[m \ {out[m]}]
  BY DEF Thins
<1>4. m \notin Stop => m \ {out[m]} \notin Bad
  BY <1>2
<1> QED BY <1>3, <1>4

-----------------------------------------------------------------------------
(* A finite set under a strict total order R, a set of pairs. *)

Ordered(A, R) ==
  /\ \A v, w \in A : v # w => <<v, w>> \in R \/ <<w, v>> \in R
  /\ \A v, w \in A : <<v, w>> \in R => <<w, v>> \notin R
  /\ \A u, v, w \in A : <<u, v>> \in R /\ <<v, w>> \in R => <<u, w>> \in R

LEMMA FirstExists ==
  ASSUME NEW A, IsFiniteSet(A), A # {}, NEW R, Ordered(A, R)
  PROVE  \E v \in A : \A w \in A \ {v} : <<v, w>> \in R
<1> DEFINE T == {B \in SUBSET A : B = {} \/ \E v \in B : \A w \in B \ {v} : <<v, w>> \in R}
<1>1. {} \in T
  OBVIOUS
<1>2. ASSUME NEW B \in SUBSET A, NEW x \in A \ B, B \in T
      PROVE  B \cup {x} \in T
  <2>1. CASE B = {}
    BY <2>1
  <2>2. CASE B # {}
    <3>1. PICK v \in B : \A w \in B \ {v} : <<v, w>> \in R
      BY <1>2, <2>2
    <3>2. CASE <<v, x>> \in R
      BY <3>1, <3>2
    <3>3. CASE <<x, v>> \in R
      <4>1. ASSUME NEW w \in B PROVE <<x, w>> \in R
        BY <3>1, <3>3 DEF Ordered
      <4> QED BY <4>1
    <3> QED BY <3>2, <3>3 DEF Ordered
  <2> QED BY <2>1, <2>2
<1>3. A \in T
  <2> HIDE DEF T
  <2> QED BY <1>1, <1>2, SubsetInduction
<1> QED BY <1>3

LEMMA LastExists ==
  ASSUME NEW A, IsFiniteSet(A), A # {}, NEW R, Ordered(A, R)
  PROVE  \E v \in A : \A w \in A \ {v} : <<w, v>> \in R
<1> DEFINE Q == {p \in A \X A : <<p[2], p[1]>> \in R}
<1>1. \A v, w \in A : <<v, w>> \in Q <=> <<w, v>> \in R
  OBVIOUS
<1> HIDE DEF Q
<1>2. Ordered(A, Q)
  BY <1>1 DEF Ordered
<1>3. \E v \in A : \A w \in A \ {v} : <<v, w>> \in Q
  BY <1>2, FirstExists
<1> QED BY <1>1, <1>3

Lesser(a, b) == IF a <= b THEN a ELSE b
AtLeast0(a) == IF a >= 0 THEN a ELSE 0

EarlierIn(A, R, v) == {w \in A : <<w, v>> \in R}

\* What v gets of rest when those before it take what they have room for.
FillOf(A, R, room, rest, v) ==
  Lesser(room[v], AtLeast0(rest - SumFunctionOnSet(room, EarlierIn(A, R, v))))

\* Filling up in any order hands out the rest, or all the room there is.
LEMMA FillsUp ==
  ASSUME NEW A, IsFiniteSet(A), NEW R, Ordered(A, R),
         NEW room, \A v \in A : room[v] \in Nat, NEW rest \in Nat,
         NEW extra, \A v \in A : extra[v] = FillOf(A, R, room, rest, v)
  PROVE  SumFunctionOnSet(extra, A) = Lesser(rest, SumFunctionOnSet(room, A))
<1> DEFINE Fill(B) == [v \in B |-> FillOf(B, R, room, rest, v)]
           Bad == {B \in SUBSET A :
                     SumFunctionOnSet(Fill(B), B) # Lesser(rest, SumFunctionOnSet(room, B))}
<1>1. ASSUME NEW B \in SUBSET A
      PROVE  /\ SumFunctionOnSet(room, B) \in Nat
             /\ \A v \in B : FillOf(B, R, room, rest, v) \in Nat
             /\ IsFiniteSet(B)
  <2>1. IsFiniteSet(B)
    BY FS_Subset
  <2>2. \A C \in SUBSET B : SumFunctionOnSet(room, C) \in Nat
    BY <2>1, SumSubset
  <2>3. \A v \in B : EarlierIn(B, R, v) \in SUBSET B
    BY DEF EarlierIn
  <2> QED
    BY <2>1, <2>2, <2>3 DEF FillOf, Lesser, AtLeast0
<1>2. Bad = {}
  <2>1. SUFFICES ASSUME Bad # {}
                 PROVE  FALSE
    OBVIOUS
  <2>2. PICK m \in Bad : \A y \in Bad : ~(y \subseteq m /\ y # m)
    <3>1. Bad \subseteq SUBSET A
      OBVIOUS
    <3> HIDE DEF Bad
    <3> QED BY <2>1, <3>1, LeastSubset
  <2>3. m # {}
    <3>1. SumFunctionOnSet(Fill({}), {}) = 0 /\ SumFunctionOnSet(room, {}) = 0
      BY SumEmpty
    <3>2. SumFunctionOnSet(Fill(m), m) # Lesser(rest, SumFunctionOnSet(room, m))
      OBVIOUS
    <3> HIDE DEF Fill, Bad
    <3> QED BY <3>1, <3>2 DEF Lesser
  <2>4. PICK l \in m : \A w \in m \ {l} : <<w, l>> \in R
    <3>1. IsFiniteSet(m) /\ Ordered(m, R)
      BY <1>1 DEF Ordered
    <3> QED BY <2>3, <3>1, LastExists
  <2> DEFINE k == m \ {l}
  <2>5. k \in SUBSET A /\ l \notin k /\ k \cup {l} = m /\ l \in A /\ IsFiniteSet(k)
    BY <1>1
  <2>6. SumFunctionOnSet(Fill(k), k) = Lesser(rest, SumFunctionOnSet(room, k))
    BY <2>2, <2>5
  <2>7. ASSUME NEW v \in k PROVE EarlierIn(m, R, v) = EarlierIn(k, R, v)
    <3>1. <<l, v>> \notin R
      BY <2>4 DEF Ordered
    <3> QED BY <3>1 DEF EarlierIn
  <2>8. EarlierIn(m, R, l) = k
    <3>1. <<l, l>> \notin R
      BY DEF Ordered
    <3> QED BY <2>4, <3>1 DEF EarlierIn
  <2> HIDE DEF k, Bad
  <2>9. \A v \in k : Fill(m)[v] = Fill(k)[v] /\ Fill(k)[v] \in Int
    <3>1. ASSUME NEW v \in k
          PROVE  FillOf(m, R, room, rest, v) = FillOf(k, R, room, rest, v)
      BY <2>7 DEF FillOf
    <3> QED BY <1>1, <2>5, <3>1
  <2>10. Fill(m)[l] = FillOf(m, R, room, rest, l)
    BY <2>5
  <2>11. \A v \in k \cup {l} : Fill(m)[v] \in Int
    BY <1>1, <2>2, <2>5 DEF Bad
  <2> HIDE DEF Fill
  <2>12. SumFunctionOnSet(Fill(m), k) = SumFunctionOnSet(Fill(k), k)
    BY <2>5, <2>9, SumSame
  <2>13. SumFunctionOnSet(Fill(m), m) = Fill(m)[l] + SumFunctionOnSet(Fill(m), k)
    BY <2>5, <2>11, SumAdd
  <2>14. SumFunctionOnSet(room, m) = room[l] + SumFunctionOnSet(room, k)
    <3>1. \A v \in k \cup {l} : room[v] \in Int
      BY <2>5
    <3> QED BY <2>5, <3>1, SumAdd
  <2> DEFINE s == SumFunctionOnSet(room, k)
  <2>15. Fill(m)[l] = Lesser(room[l], AtLeast0(rest - s))
    BY <2>8, <2>10 DEF FillOf
  <2>16. s \in Nat /\ room[l] \in Nat
    BY <1>1, <2>5
  <2>17. SumFunctionOnSet(Fill(m), m) # Lesser(rest, SumFunctionOnSet(room, m))
    BY <2>2 DEF Bad
  <2>18. SumFunctionOnSet(Fill(m), m) = Lesser(room[l], AtLeast0(rest - s)) + Lesser(rest, s)
    BY <2>6, <2>12, <2>13, <2>15
  <2>19. SumFunctionOnSet(room, m) = room[l] + s
    BY <2>14
  <2>20. Lesser(room[l], AtLeast0(rest - s)) + Lesser(rest, s) = Lesser(rest, room[l] + s)
    <3> HIDE DEF s
    <3> QED BY <2>16 DEF Lesser, AtLeast0
  <2> QED BY <2>17, <2>18, <2>19, <2>20
<1>3. SumFunctionOnSet(Fill(A), A) = Lesser(rest, SumFunctionOnSet(room, A))
  BY <1>2
<1>4. \A v \in A : Fill(A)[v] \in Int /\ extra[v] = Fill(A)[v]
  BY <1>1
<1> HIDE DEF Fill
<1> QED
  BY <1>3, <1>4, SumSame

\* Sums scale.
LEMMA SumTimes ==
  ASSUME NEW S, IsFiniteSet(S), NEW f, NEW g, NEW c \in Int,
         \A i \in S : f[i] \in Int /\ g[i] = c * f[i]
  PROVE  SumFunctionOnSet(g, S) = c * SumFunctionOnSet(f, S)
<1> DEFINE T == {A \in SUBSET S : SumFunctionOnSet(g, A) = c * SumFunctionOnSet(f, A)}
<1>1. {} \in T
  BY SumEmpty
<1>2. ASSUME NEW A \in SUBSET S, NEW x \in S \ A, A \in T
      PROVE  A \cup {x} \in T
  <2>1. IsFiniteSet(A)
    BY FS_Subset
  <2>2. \A i \in A \cup {x} : f[i] \in Int /\ g[i] \in Int
    OBVIOUS
  <2>3. SumFunctionOnSet(f, A) \in Int
    BY <2>1, <2>2, SumType
  <2>4. /\ SumFunctionOnSet(f, A \cup {x}) = f[x] + SumFunctionOnSet(f, A)
        /\ SumFunctionOnSet(g, A \cup {x}) = g[x] + SumFunctionOnSet(g, A)
    BY <2>1, <2>2, SumAdd
  <2>5. SumFunctionOnSet(g, A) = c * SumFunctionOnSet(f, A) /\ g[x] = c * f[x] /\ f[x] \in Int
    BY <1>2
  <2>6. \A a, b \in Int : c * (a + b) = c * a + c * b
    OBVIOUS
  <2> QED
    BY <2>3, <2>4, <2>5, <2>6
<1>3. S \in T
  <2> HIDE DEF T
  <2> QED
    BY <1>1, <1>2, SubsetInduction
<1> QED
  BY <1>3

-----------------------------------------------------------------------------
(* Products: the same recursion, with times for plus. *)

\* The product of f over S.
Times(f, S) == FoldFunctionOnSet(LAMBDA x, y : x * y, 1, f, S)

\* g multiplies f over every set of the domain D.
IsProductFold(f, D, g) ==
  \A s \in D : g[s] = IF s = {} THEN 1 ELSE f[Chosen(s)] * g[s \ {Chosen(s)}]

\* The recursive function behind Times.
ProductFold(f, S, g) ==
  g = [s \in SUBSET S |-> IF s = {} THEN 1 ELSE f[Chosen(s)] * g[s \ {Chosen(s)}]]

LEMMA ProductDef ==
  ASSUME NEW S, NEW f
  PROVE  Times(f, S) = (CHOOSE g : ProductFold(f, S, g))[S]
BY DEF Times, FoldFunctionOnSet, MapThenFoldSet, ProductFold, Chosen

\* The recursion has a solution.
LEMMA ProductFoldExists ==
  ASSUME NEW S, IsFiniteSet(S), NEW f, \A x \in S : f[x] \in Int
  PROVE  \E g \in [SUBSET S -> Int] : ProductFold(f, S, g)
<1> DEFINE T == {A \in SUBSET S : \E g \in [Small(S, A) -> Int] : IsProductFold(f, Small(S, A), g)}
<1>1. {} \in T
  <2>1. Small(S, {}) = {{}}
    BY CardinalityOfSubset, FS_EmptySet DEF Small
  <2>2. [s \in {{}} |-> 1] \in [{{}} -> Int]
    OBVIOUS
  <2>3. IsProductFold(f, {{}}, [s \in {{}} |-> 1])
    BY DEF IsProductFold
  <2> QED BY <2>1, <2>2, <2>3
<1>2. ASSUME NEW A \in SUBSET S, NEW x \in S \ A, A \in T
      PROVE  A \cup {x} \in T
  <2>1. PICK g \in [Small(S, A) -> Int] : IsProductFold(f, Small(S, A), g)
    BY <1>2
  <2> DEFINE B == A \cup {x}
             h == [s \in Small(S, B) |-> IF s = {} THEN 1 ELSE f[Chosen(s)] * g[s \ {Chosen(s)}]]
  <2>2. Cardinality(B) = Cardinality(A) + 1 /\ Cardinality(A) \in Nat
    BY CardinalityOfSubset
  <2> HIDE DEF B
  <2>3. ASSUME NEW s \in Small(S, B), s # {}
        PROVE  /\ s \ {Chosen(s)} \in Small(S, A)
               /\ f[Chosen(s)] \in Int
    <3>1. Chosen(s) \in s
      BY <2>3, ChosenIn
    <3>2. s \in SUBSET S /\ Cardinality(s) <= Cardinality(B)
      BY DEF Small
    <3>3. Cardinality(s \ {Chosen(s)}) = Cardinality(s) - 1 /\ Cardinality(s) \in Nat
      BY <3>1, <3>2, CardinalityOfSubset
    <3> QED BY <2>2, <3>1, <3>2, <3>3 DEF Small
  <2>4. h \in [Small(S, B) -> Int]
    BY <2>3
  <2>5. ASSUME NEW s \in Small(S, A)
        PROVE  h[s] = g[s]
    <3>1. s \in Small(S, B)
      BY <2>2, CardinalityOfSubset DEF Small
    <3> QED BY <2>1, <3>1 DEF IsProductFold
  <2>6. IsProductFold(f, Small(S, B), h)
    <3>1. SUFFICES ASSUME NEW s \in Small(S, B)
                   PROVE  h[s] = IF s = {} THEN 1 ELSE f[Chosen(s)] * h[s \ {Chosen(s)}]
      BY DEF IsProductFold
    <3>2. s # {} => h[s \ {Chosen(s)}] = g[s \ {Chosen(s)}]
      <4> HIDE DEF h
      <4> QED BY <2>3, <2>5
    <3> QED BY <3>2
  <2>7. B \in SUBSET S
    BY DEF B
  <2> HIDE DEF h
  <2> QED BY <2>4, <2>6, <2>7 DEF B
<1>3. S \in T
  <2> HIDE DEF T
  <2> QED BY <1>1, <1>2, SubsetInduction
<1>4. PICK g \in [Small(S, S) -> Int] : IsProductFold(f, Small(S, S), g)
  BY <1>3
<1>5. Small(S, S) = SUBSET S
  BY CardinalityOfSubset DEF Small
<1> QED BY <1>4, <1>5 DEF IsProductFold, ProductFold

\* Two solutions agree wherever both are defined.
LEMMA ProductFoldsAgree ==
  ASSUME NEW S, IsFiniteSet(S), NEW A \in SUBSET S, NEW f, NEW g, NEW h,
         ProductFold(f, S, g), ProductFold(f, A, h)
  PROVE  h[A] = g[A]
<1> DEFINE Bad == {s \in SUBSET A : h[s] # g[s]}
<1>1. SUFFICES ASSUME Bad # {}
               PROVE  FALSE
  OBVIOUS
<1>2. IsFiniteSet(A)
  BY FS_Subset
<1>3. PICK m \in Bad : \A y \in Bad : ~(y \subseteq m /\ y # m)
  <2>1. Bad \subseteq SUBSET A
    OBVIOUS
  <2> HIDE DEF Bad
  <2> QED BY <1>1, <1>2, <2>1, LeastSubset
<1>4. h[m] = IF m = {} THEN 1 ELSE f[Chosen(m)] * h[m \ {Chosen(m)}]
  BY DEF ProductFold
<1>5. g[m] = IF m = {} THEN 1 ELSE f[Chosen(m)] * g[m \ {Chosen(m)}]
  BY DEF ProductFold
<1>6. m # {} => m \ {Chosen(m)} \notin Bad
  BY <1>3, ChosenIn
<1> QED BY <1>4, <1>5, <1>6

\* A product is its chosen element and the product of the rest.
LEMMA ProductStep ==
  ASSUME NEW S, IsFiniteSet(S), NEW f, \A x \in S : f[x] \in Int
  PROVE  /\ Times(f, S) \in Int
         /\ S = {} => Times(f, S) = 1
         /\ S # {} => Times(f, S) = f[Chosen(S)] * Times(f, S \ {Chosen(S)})
<1> DEFINE G(A) == CHOOSE g : ProductFold(f, A, g)
<1>1. PICK g \in [SUBSET S -> Int] : ProductFold(f, S, g)
  BY ProductFoldExists
<1>2. ASSUME NEW A \in SUBSET S
      PROVE  Times(f, A) = g[A]
  <2>1. IsFiniteSet(A)
    BY FS_Subset
  <2>2. \E h : ProductFold(f, A, h)
    BY <2>1, ProductFoldExists
  <2>3. ProductFold(f, A, G(A))
    BY <2>2
  <2>4. G(A)[A] = g[A]
    <3> HIDE DEF G
    <3> QED BY <1>1, <2>3, ProductFoldsAgree
  <2> QED BY <2>4, ProductDef
<1>3. g[S] = IF S = {} THEN 1 ELSE f[Chosen(S)] * g[S \ {Chosen(S)}]
  BY <1>1 DEF ProductFold
<1> QED BY <1>1, <1>2, <1>3

\* Any element may be the one taken out: the order does not matter.
LEMMA ProductRemove ==
  ASSUME NEW S, IsFiniteSet(S), NEW f, \A i \in S : f[i] \in Int, NEW x \in S
  PROVE  /\ Times(f, S) = f[x] * Times(f, S \ {x})
         /\ Times(f, S) \in Int
         /\ Times(f, S \ {x}) \in Int
<1> DEFINE Total(A) == Times(f, A)
           Bad == {A \in SUBSET S : \E i \in A : Total(A) # f[i] * Total(A \ {i})}
<1>1. ASSUME NEW A \in SUBSET S
      PROVE  /\ Total(A) \in Int
             /\ A # {} => Total(A) = f[Chosen(A)] * Total(A \ {Chosen(A)})
  <2>1. IsFiniteSet(A) /\ \A i \in A : f[i] \in Int
    BY FS_Subset
  <2> QED BY <2>1, ProductStep
<1> HIDE DEF Total
<1>2. Bad = {}
  <2>1. SUFFICES ASSUME Bad # {}
                 PROVE  FALSE
    OBVIOUS
  <2>2. PICK m \in Bad : \A y \in Bad : ~(y \subseteq m /\ y # m)
    <3>1. Bad \subseteq SUBSET S
      OBVIOUS
    <3> HIDE DEF Bad
    <3> QED BY <2>1, <3>1, LeastSubset
  <2>3. PICK i \in m : Total(m) # f[i] * Total(m \ {i})
    OBVIOUS
  <2> DEFINE p == Chosen(m)
  <2>4. p \in m /\ Total(m) = f[p] * Total(m \ {p})
    BY <1>1, ChosenIn
  <2> HIDE DEF p
  <2>5. p # i
    BY <2>3, <2>4
  <2>6. m \ {p} \notin Bad /\ m \ {i} \notin Bad
    BY <2>2, <2>3, <2>4
  <2>7. Total(m \ {p}) = f[i] * Total((m \ {p}) \ {i})
    BY <2>3, <2>5, <2>6
  <2>8. Total(m \ {i}) = f[p] * Total((m \ {i}) \ {p})
    BY <2>4, <2>5, <2>6
  <2>9. Total((m \ {p}) \ {i}) = Total((m \ {i}) \ {p})
    <3>1. (m \ {p}) \ {i} = (m \ {i}) \ {p}
      OBVIOUS
    <3> QED BY <3>1
  <2>10. f[p] \in Int /\ f[i] \in Int /\ Total((m \ {i}) \ {p}) \in Int
    <3>1. p \in S /\ i \in S /\ (m \ {i}) \ {p} \in SUBSET S
      BY <2>3, <2>4
    <3> QED BY <1>1, <3>1
  <2>11. Total(m) = f[p] * (f[i] * Total((m \ {i}) \ {p}))
    BY <2>4, <2>7, <2>9
  <2>12. f[i] * Total(m \ {i}) = f[i] * (f[p] * Total((m \ {i}) \ {p}))
    BY <2>8
  <2>13. Total(m) = f[i] * Total(m \ {i})
    BY <2>10, <2>11, <2>12
  <2> QED BY <2>3, <2>13
<1>3. Total(S) = f[x] * Total(S \ {x})
  BY <1>2
<1> QED BY <1>1, <1>3 DEF Total


LEMMA ProductOne ==
  ASSUME NEW f
  PROVE  Times(f, {}) = 1
BY ProductStep, FS_EmptySet

LEMMA ProductAdd ==
  ASSUME NEW S, IsFiniteSet(S), NEW f, NEW x, x \notin S,
         \A i \in S \cup {x} : f[i] \in Int
  PROVE  Times(f, S \cup {x}) = f[x] * Times(f, S)
<1>1. IsFiniteSet(S \cup {x})
  BY FS_AddElement
<1>2. (S \cup {x}) \ {x} = S
  OBVIOUS
<1> QED BY <1>1, <1>2, ProductRemove

LEMMA ProductPositive ==
  ASSUME NEW S, IsFiniteSet(S), NEW f, \A i \in S : f[i] \in Nat \ {0}
  PROVE  Times(f, S) \in Nat \ {0}
<1> DEFINE T == {A \in SUBSET S : Times(f, A) \in Nat \ {0}}
<1>1. {} \in T
  BY ProductOne
<1>2. ASSUME NEW A \in SUBSET S, NEW x \in S \ A, A \in T
      PROVE  A \cup {x} \in T
  <2>1. IsFiniteSet(A) /\ \A i \in A \cup {x} : f[i] \in Int
    BY FS_Subset
  <2>2. Times(f, A \cup {x}) = f[x] * Times(f, A)
    BY <2>1, ProductAdd
  <2>3. \A a, b \in Nat \ {0} : a * b \in Nat \ {0}
    OBVIOUS
  <2>4. Times(f, A) \in Nat \ {0} /\ f[x] \in Nat \ {0}
    BY <1>2
  <2>5. Times(f, A \cup {x}) \in Nat \ {0}
    BY <2>2, <2>3, <2>4
  <2> QED BY <2>5
<1> QED
  <2> HIDE DEF T
  <2>1. S \in T
    BY <1>1, <1>2, SubsetInduction
  <2> QED BY <2>1 DEF T
=============================================================================
