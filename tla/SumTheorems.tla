---------------------------- MODULE SumTheorems ----------------------------
(***************************************************************************)
(* Sums over finite sets, and the induction they need: over the natural    *)
(* numbers and over the subsets of a finite set, stated with a set instead *)
(* of a predicate.                                                         *)
(***************************************************************************)
EXTENDS Integers, FiniteSetsExt, FiniteSetTheorems, WellFoundedInduction, TLAPS

\* The order of the natural numbers as a relation.
Less == OpToRel(<, Nat)

\* The pairs of the order.
LEMMA LessIs == Less = {p \in Nat \X Nat : p[1] < p[2]}
BY DEF Less, OpToRel

\* The order of the natural numbers is well founded.
LEMMA LessWF == IsWellFoundedOn(Less, Nat)
BY NatLessThanWellFounded DEF Less

\* A set of natural numbers that is not empty has a least member.
LEMMA Least ==
  ASSUME NEW T, T \subseteq Nat, T # {}
  PROVE \E x \in T : \A y \in T : x <= y
<1>1. \E x \in T : \A y \in T : ~ (<<y, x>> \in Less)
  BY LessWF, WFMin, Zenon
<1>2. \A x, y \in Nat : ~(<<y, x>> \in Less) => x <= y
  <2> SUFFICES ASSUME NEW x \in Nat, NEW y \in Nat, y < x PROVE <<y, x>> \in Less
    OBVIOUS
  <2>1. <<y, x>> \in Nat \X Nat /\ <<y, x>>[1] = y /\ <<y, x>>[2] = x
    OBVIOUS
  <2> QED
    BY <2>1, LessIs
<1> QED
  BY <1>1, <1>2

\* A set that has zero, and with each number its successor, has them all.
LEMMA SetInduction ==
  ASSUME NEW S, 0 \in S, \A n \in Nat : n \in S => n + 1 \in S
  PROVE  Nat \subseteq S
<1> DEFINE T == Nat \ S
<1>1. SUFFICES ASSUME T # {} PROVE FALSE
  OBVIOUS
<1>2. PICK x \in T : \A y \in T : x <= y
  BY <1>1, Least
<1>3. x # 0 /\ x - 1 \in Nat /\ x - 1 \notin T
  BY <1>2
<1> QED BY <1>3

\* A set of sets that has every subset of S of which it has all smaller ones, has them all.
LEMMA SubsetInduction ==
    ASSUME NEW S, IsFiniteSet(S), NEW F,
           \A T \in SUBSET S : (\A U \in SUBSET T : U # T => U \in F) => T \in F
    PROVE  \A T \in SUBSET S : T \in F
<1> DEFINE N == {T \in SUBSET S : T \notin F}
           R == StrictSubsetOrdering(S)
           D == FiniteSubsetsOf(S)
<1> SUFFICES ASSUME N # {} PROVE FALSE
  OBVIOUS
<1>1. N # {}
  OBVIOUS
<1>2. \A T \in SUBSET S : T \in D
  BY FS_Subset DEF FiniteSubsetsOf
<1>3. N \subseteq D
  BY <1>2
<1>4. IsWellFoundedOn(R, D)
  BY FS_StrictSubsetOrderingWellFounded
<1> HIDE DEF N, R, D
<1>5. PICK T \in N : \A U \in N : ~(<<U, T>> \in R)
  <2> QED
    BY ONLY <1>1, <1>3, <1>4, WFMin, ZenonT(30)
<1>6. \A U \in SUBSET T : U # T => U \in F
  <2> SUFFICES ASSUME NEW U \in SUBSET T, U # T, U \notin F PROVE FALSE
    OBVIOUS
  <2>1. U \in N /\ T \in SUBSET S /\ U \in SUBSET S
    BY <1>5 DEF N
  <2>2. <<U, T>> \in R
    BY <2>1 DEF R, StrictSubsetOrdering
  <2> QED
    BY <1>5, <2>1, <2>2
<1> QED
  BY <1>5, <1>6 DEF N
-----------------------------------------------------------------------------
\* The sum of f over a set, as the invariants write it.
SumOver(f, S) == MapThenSumSet(LAMBDA x : f[x], S)

\* The element that the fold takes next, and what it makes of it.
Chosen(s) == CHOOSE x \in s : TRUE

SumStep(f, h, s) == IF s = {} THEN 0 ELSE f[Chosen(s)] + h[s \ {Chosen(s)}]

\* The fold's recursive function over the subsets of S exists.
LEMMA IterExists ==
    ASSUME NEW S, IsFiniteSet(S), NEW f
    PROVE  \E h : h = [s \in SUBSET S |-> SumStep(f, h, s)]
<1> DEFINE Good(h, n) == \A s \in SUBSET S : Cardinality(s) <= n => h[s] = SumStep(f, h, s)
           K == {n \in Nat : \E h : h = [s \in SUBSET S |-> h[s]] /\ Good(h, n)}
<1>0. \A s \in SUBSET S : IsFiniteSet(s) /\ Cardinality(s) \in Nat /\ Cardinality(s) <= Cardinality(S)
  BY FS_Subset, FS_CardinalityType
<1>1. 0 \in K
  <2> DEFINE h == [s \in SUBSET S |-> 0]
  <2>1. h = [s \in SUBSET S |-> h[s]]
    OBVIOUS
  <2>2. ASSUME NEW s \in SUBSET S, Cardinality(s) <= 0 PROVE h[s] = SumStep(f, h, s)
    <3>1. s = {}
      BY <1>0, <2>2, FS_EmptySet
    <3> QED
      BY <3>1 DEF SumStep
  <2> HIDE DEF h
  <2> QED
    BY <2>1, <2>2
<1>2. ASSUME NEW n \in Nat, n \in K PROVE n + 1 \in K
  <2>1. PICK h : h = [s \in SUBSET S |-> h[s]] /\ Good(h, n)
    BY <1>2
  <2> DEFINE g == [s \in SUBSET S |-> SumStep(f, h, s)]
  <2>2. g = [s \in SUBSET S |-> g[s]]
    OBVIOUS
  <2>3. ASSUME NEW s \in SUBSET S, Cardinality(s) <= n + 1 PROVE g[s] = SumStep(f, g, s)
    <3>1. CASE s = {}
      BY <3>1 DEF SumStep
    <3>2. CASE s # {}
      <4> DEFINE r == s \ {Chosen(s)}
      <4>1. Chosen(s) \in s
        BY <3>2 DEF Chosen
      <4>2. r \in SUBSET S /\ Cardinality(r) <= n
        BY <1>0, <2>3, <4>1, FS_RemoveElement
      <4>3. g[r] = h[r]
        BY <2>1, <4>2
      <4> QED
        BY <3>2, <4>3 DEF SumStep
    <3> QED
      BY <3>1, <3>2
  <2> HIDE DEF g
  <2>4. Good(g, n + 1)
    BY <2>3
  <2> HIDE DEF Good
  <2> QED
    BY <2>2, <2>4
<1>3. Nat \subseteq K
  <2> HIDE DEF K
  <2> QED
    BY <1>1, <1>2, SetInduction
<1>4. PICK h : h = [s \in SUBSET S |-> h[s]] /\ Good(h, Cardinality(S))
  BY <1>0, <1>3
<1>5. \A s \in SUBSET S : h[s] = SumStep(f, h, s)
  BY <1>0, <1>4
<1> QED
  BY <1>4, <1>5

\* The fold applies its recursive function to the whole set.
LEMMA SumIsIter ==
    ASSUME NEW S, NEW f
    PROVE  SumOver(f, S) = (CHOOSE h : h = [s \in SUBSET S |-> SumStep(f, h, s)])[S]
BY DEF SumOver, MapThenSumSet, MapThenFoldSet, SumStep, Chosen

\* h is the recursive function.
IterOf(f, S, h) == h = [s \in SUBSET S |-> SumStep(f, h, s)]

\* Whichever set the recursive function was started with, it gives a subset the same sum.
LEMMA IterAgrees ==
    ASSUME NEW S, IsFiniteSet(S), NEW f, NEW T \in SUBSET S, NEW h, IterOf(f, S, h),
           NEW g, IterOf(f, T, g)
    PROVE  \A U \in SUBSET T : h[U] = g[U]
<1> DEFINE F == {U \in SUBSET T : h[U] = g[U]}
<1>1. ASSUME NEW U \in SUBSET T, \A V \in SUBSET U : V # U => V \in F PROVE U \in F
  <2>1. h[U] = SumStep(f, h, U) /\ g[U] = SumStep(f, g, U)
    BY DEF IterOf
  <2>2. CASE U # {}
    <3>1. Chosen(U) \in U
      BY <2>2 DEF Chosen
    <3>2. U \ {Chosen(U)} \in F
      BY <1>1, <3>1
    <3> QED
      BY <2>1, <3>2 DEF SumStep
  <2> QED
    BY <2>1, <2>2 DEF SumStep
<1>2. IsFiniteSet(T)
  BY FS_Subset
<1> HIDE DEF F
<1>3. \A U \in SUBSET T : U \in F
  BY <1>1, <1>2, SubsetInduction
<1> QED
  BY <1>3 DEF F

\* There is such a function, and it gives the sum.
LEMMA SumIterates ==
    ASSUME NEW S, IsFiniteSet(S), NEW f
    PROVE  \E h : IterOf(f, S, h) /\ SumOver(f, S) = h[S]
<1> DEFINE I(h) == IterOf(f, S, h)
           c == CHOOSE h : I(h)
<1>1. \E h : I(h)
  BY IterExists DEF IterOf
<1>2. I(c)
  <2> HIDE DEF I
  <2> QED
    BY <1>1
<1>3. SumOver(f, S) = c[S]
  BY SumIsIter DEF IterOf
<1> HIDE DEF c
<1> QED
  BY <1>2, <1>3

\* The sum over no element.
LEMMA SumEmpty == ASSUME NEW f PROVE SumOver(f, {}) = 0
<1>1. PICK h : IterOf(f, {}, h) /\ SumOver(f, {}) = h[{}]
  BY SumIterates, FS_EmptySet
<1> QED
  BY <1>1 DEF IterOf, SumStep

\* The sum over a set, without the element that the fold takes first.
LEMMA SumChosen ==
    ASSUME NEW S, IsFiniteSet(S), NEW f, S # {}
    PROVE  SumOver(f, S) = f[Chosen(S)] + SumOver(f, S \ {Chosen(S)})
<1> DEFINE T == S \ {Chosen(S)}
<1>0. T \in SUBSET S /\ IsFiniteSet(T)
  BY FS_RemoveElement
<1>1. PICK h : IterOf(f, S, h) /\ SumOver(f, S) = h[S]
  BY SumIterates
<1>2. PICK g : IterOf(f, T, g) /\ SumOver(f, T) = g[T]
  BY <1>0, SumIterates
<1>3. h[S] = f[Chosen(S)] + h[T]
  <2>1. h[S] = SumStep(f, h, S)
    BY <1>1 DEF IterOf
  <2> QED
    BY <2>1 DEF SumStep
<1>4. h[T] = g[T]
  <2> HIDE DEF T
  <2> QED
    BY <1>0, <1>1, <1>2, IterAgrees
<1> QED
  BY <1>1, <1>2, <1>3, <1>4

\* A sum of integers is one.
LEMMA SumType ==
    ASSUME NEW S, IsFiniteSet(S), NEW f, \A x \in S : f[x] \in Int
    PROVE  \A T \in SUBSET S : SumOver(f, T) \in Int
<1> DEFINE F == {T \in SUBSET S : SumOver(f, T) \in Int}
<1>1. ASSUME NEW T \in SUBSET S, \A U \in SUBSET T : U # T => U \in F PROVE T \in F
  <2>1. CASE T = {}
    BY <2>1, SumEmpty
  <2>2. CASE T # {}
    <3>1. Chosen(T) \in T /\ IsFiniteSet(T)
      BY <2>2, FS_Subset DEF Chosen
    <3>2. SumOver(f, T \ {Chosen(T)}) \in Int
      BY <1>1, <3>1
    <3>3. SumOver(f, T) = f[Chosen(T)] + SumOver(f, T \ {Chosen(T)})
      BY <2>2, <3>1, SumChosen
    <3>4. f[Chosen(T)] \in Int
      BY <3>1
    <3>5. SumOver(f, T) \in Int
      BY <3>2, <3>3, <3>4
    <3> QED
      BY <3>5
  <2> QED
    BY <2>1, <2>2
<1> HIDE DEF F
<1>2. \A T \in SUBSET S : T \in F
  BY <1>1, SubsetInduction
<1> QED
  BY <1>2 DEF F

\* The fold may take any element first.
LEMMA SumRemove ==
    ASSUME NEW S, IsFiniteSet(S), NEW f, \A x \in S : f[x] \in Int
    PROVE  \A T \in SUBSET S : \A x \in T : SumOver(f, T) = f[x] + SumOver(f, T \ {x})
<1> DEFINE F == {T \in SUBSET S : \A x \in T : SumOver(f, T) = f[x] + SumOver(f, T \ {x})}
<1>1. ASSUME NEW T \in SUBSET S, \A U \in SUBSET T : U # T => U \in F PROVE T \in F
  <2> SUFFICES ASSUME NEW x \in T PROVE SumOver(f, T) = f[x] + SumOver(f, T \ {x})
    OBVIOUS
  <2> DEFINE c == Chosen(T)
  <2>1. c \in T /\ IsFiniteSet(T) /\ SumOver(f, T) = f[c] + SumOver(f, T \ {c})
    BY FS_Subset, SumChosen DEF Chosen
  <2> HIDE DEF c
  <2>2. CASE x # c
    <3>1. T \ {c} \in F /\ T \ {x} \in F /\ (T \ {c}) \ {x} = (T \ {x}) \ {c}
      BY <1>1, <2>1
    <3>2. /\ SumOver(f, T \ {c}) = f[x] + SumOver(f, (T \ {c}) \ {x})
          /\ SumOver(f, T \ {x}) = f[c] + SumOver(f, (T \ {c}) \ {x})
      BY <2>1, <2>2, <3>1
    <3>3. f[x] \in Int /\ f[c] \in Int /\ SumOver(f, (T \ {c}) \ {x}) \in Int
      BY <2>1, SumType
    <3> QED
      BY <2>1, <3>2, <3>3
  <2> QED
    BY <2>1, <2>2
<1> HIDE DEF F
<1>2. \A T \in SUBSET S : T \in F
  BY <1>1, SubsetInduction
<1> QED
  BY <1>2 DEF F

\* Functions that agree on a set have the same sum over it.
LEMMA SumSame ==
    ASSUME NEW S, IsFiniteSet(S), NEW f, NEW g, \A x \in S : f[x] = g[x]
    PROVE  \A T \in SUBSET S : SumOver(f, T) = SumOver(g, T)
<1> DEFINE F == {T \in SUBSET S : SumOver(f, T) = SumOver(g, T)}
<1>1. ASSUME NEW T \in SUBSET S, \A U \in SUBSET T : U # T => U \in F PROVE T \in F
  <2>1. CASE T = {}
    BY <2>1, SumEmpty
  <2>2. CASE T # {}
    <3>1. Chosen(T) \in T /\ IsFiniteSet(T)
      BY <2>2, FS_Subset DEF Chosen
    <3>2. SumOver(f, T \ {Chosen(T)}) = SumOver(g, T \ {Chosen(T)})
      BY <1>1, <3>1
    <3> QED
      BY <2>2, <3>1, <3>2, SumChosen
  <2> QED
    BY <2>1, <2>2
<1> HIDE DEF F
<1>2. \A T \in SUBSET S : T \in F
  BY <1>1, SubsetInduction
<1> QED
  BY <1>2 DEF F

\* Changing one value changes the sum by the difference.
LEMMA SumExcept ==
    ASSUME NEW S, IsFiniteSet(S), NEW f, NEW g, \A x \in S : f[x] \in Int, NEW y \in S,
           g[y] \in Int, \A x \in S \ {y} : g[x] = f[x]
    PROVE  SumOver(g, S) = SumOver(f, S) + g[y] - f[y]
<1>1. IsFiniteSet(S \ {y})
  BY FS_RemoveElement
<1>2. SumOver(g, S \ {y}) = SumOver(f, S \ {y})
  BY <1>1, SumSame
<1>3. SumOver(f, S) = f[y] + SumOver(f, S \ {y})
  BY SumRemove
<1>4. SumOver(g, S) = g[y] + SumOver(g, S \ {y})
  BY SumRemove
<1>5. SumOver(f, S \ {y}) \in Int
  BY SumType
<1> QED
  BY <1>2, <1>3, <1>4, <1>5

\* Elements that count nothing may be left out of a sum.
LEMMA SumOutside ==
    ASSUME NEW S, IsFiniteSet(S), NEW f, \A x \in S : f[x] \in Int, NEW R \in SUBSET S,
           \A x \in S \ R : f[x] = 0
    PROVE  SumOver(f, S) = SumOver(f, R)
<1> DEFINE F == {T \in SUBSET S : R \subseteq T => SumOver(f, T) = SumOver(f, R)}
<1>1. ASSUME NEW T \in SUBSET S, \A U \in SUBSET T : U # T => U \in F PROVE T \in F
  <2> SUFFICES ASSUME R \subseteq T, R # T PROVE SumOver(f, T) = SumOver(f, R)
    OBVIOUS
  <2>1. PICK x \in T : x \notin R
    OBVIOUS
  <2>2. SumOver(f, T) = f[x] + SumOver(f, T \ {x}) /\ f[x] = 0
    BY <2>1, SumRemove
  <2>3. T \ {x} \in F /\ R \subseteq T \ {x}
    BY <1>1, <2>1
  <2>4. SumOver(f, T \ {x}) = SumOver(f, R) /\ SumOver(f, T \ {x}) \in Int
    BY <2>3, SumType
  <2> QED
    BY <2>2, <2>4
<1> HIDE DEF F
<1>2. \A T \in SUBSET S : T \in F
  BY <1>1, SubsetInduction
<1> QED
  BY <1>2 DEF F

\* The sum of zeros.
LEMMA SumOfZeros ==
    ASSUME NEW S, IsFiniteSet(S), NEW f, \A x \in S : f[x] = 0
    PROVE  SumOver(f, S) = 0
<1>1. SumOver(f, S) = SumOver(f, {})
  BY SumOutside
<1> QED
  BY <1>1, SumEmpty

\* A bound of the values bounds the sum.
LEMMA SumBound ==
    ASSUME NEW S, IsFiniteSet(S), NEW f, NEW w \in Int, \A x \in S : f[x] \in Int /\ f[x] <= w
    PROVE  \A T \in SUBSET S : SumOver(f, T) <= w * Cardinality(T)
<1> DEFINE F == {T \in SUBSET S : SumOver(f, T) <= w * Cardinality(T)}
<1>1. ASSUME NEW T \in SUBSET S, \A U \in SUBSET T : U # T => U \in F PROVE T \in F
  <2>1. CASE T = {}
    BY <2>1, SumEmpty, FS_EmptySet
  <2>2. CASE T # {}
    <3> DEFINE c == Chosen(T)
               R == T \ {c}
    <3>1. c \in T /\ IsFiniteSet(T) /\ R # T
      BY <2>2, FS_Subset DEF Chosen
    <3>2. SumOver(f, T) = f[c] + SumOver(f, R)
      BY <2>2, <3>1, SumChosen
    <3>3. /\ Cardinality(T) \in Nat /\ Cardinality(R) \in Nat
          /\ Cardinality(T) = Cardinality(R) + 1
      <4>1. IsFiniteSet(R) /\ Cardinality(R) = Cardinality(T) - 1
        BY <3>1, FS_RemoveElement
      <4> QED
        BY <3>1, <4>1, FS_CardinalityType
    <3>4. SumOver(f, R) <= w * Cardinality(R) /\ SumOver(f, R) \in Int
      BY <1>1, <3>1, SumType
    <3>5. f[c] \in Int /\ f[c] <= w
      BY <3>1
    <3> DEFINE n == Cardinality(R)
    <3>6. w * (n + 1) = w * n + w /\ w * n \in Int
      <4> HIDE DEF n
      <4>1. n \in Nat
        BY <3>3 DEF n
      <4> QED
        BY <4>1
    <3> HIDE DEF c, R
    <3> QED
      BY <3>2, <3>3, <3>4, <3>5, <3>6
  <2> QED
    BY <2>1, <2>2
<1> HIDE DEF F
<1>2. \A T \in SUBSET S : T \in F
  BY <1>1, SubsetInduction
<1> QED
  BY <1>2 DEF F

\* A sum of natural numbers is one.
LEMMA SumNat ==
    ASSUME NEW S, IsFiniteSet(S), NEW f, \A x \in S : f[x] \in Nat
    PROVE  \A T \in SUBSET S : SumOver(f, T) \in Nat
<1> DEFINE F == {T \in SUBSET S : SumOver(f, T) \in Nat}
<1>1. ASSUME NEW T \in SUBSET S, \A U \in SUBSET T : U # T => U \in F PROVE T \in F
  <2>1. CASE T = {}
    BY <2>1, SumEmpty
  <2>2. CASE T # {}
    <3>1. PICK x \in T : TRUE
      BY <2>2
    <3>2. SumOver(f, T) = f[x] + SumOver(f, T \ {x})
      BY SumRemove
    <3>3. T \ {x} \in F
      BY <1>1, <3>1
    <3> QED
      BY <3>2, <3>3
  <2> QED
    BY <2>1, <2>2
<1> HIDE DEF F
<1>2. \A T \in SUBSET S : T \in F
  BY <1>1, SubsetInduction
<1> QED
  BY <1>2 DEF F

\* The sum over two sets without a common element.
LEMMA SumDisjoint ==
    ASSUME NEW S, IsFiniteSet(S), NEW f, \A x \in S : f[x] \in Int,
           NEW R \in SUBSET S, NEW T \in SUBSET S, R \cap T = {}
    PROVE  SumOver(f, R \cup T) = SumOver(f, R) + SumOver(f, T)
<1> DEFINE F == {U \in SUBSET T : SumOver(f, R \cup U) = SumOver(f, R) + SumOver(f, U)}
<1>0. IsFiniteSet(T)
  BY FS_Subset
<1>1. ASSUME NEW U \in SUBSET T, \A V \in SUBSET U : V # U => V \in F PROVE U \in F
  <2>1. CASE U = {}
    <3>1. R \cup U = R /\ SumOver(f, R) \in Int
      BY <2>1, SumType
    <3> QED
      BY <2>1, <3>1, SumEmpty
  <2>2. CASE U # {}
    <3>1. PICK x \in U : TRUE
      BY <2>2
    <3>2. /\ R \cup U \in SUBSET S /\ U \in SUBSET S /\ x \in R \cup U
          /\ (R \cup U) \ {x} = R \cup (U \ {x})
      BY <3>1
    <3>3. /\ SumOver(f, R \cup U) = f[x] + SumOver(f, R \cup (U \ {x}))
          /\ SumOver(f, U) = f[x] + SumOver(f, U \ {x})
      <4>1. SumOver(f, R \cup U) = f[x] + SumOver(f, (R \cup U) \ {x})
        BY <3>2, SumRemove
      <4>2. SumOver(f, U) = f[x] + SumOver(f, U \ {x})
        BY <3>1, <3>2, SumRemove
      <4> QED
        BY <3>2, <4>1, <4>2
    <3>4. SumOver(f, R \cup (U \ {x})) = SumOver(f, R) + SumOver(f, U \ {x})
      BY <1>1, <3>1
    <3>5. f[x] \in Int /\ SumOver(f, R) \in Int /\ SumOver(f, U \ {x}) \in Int
      BY <3>1, SumType
    <3> QED
      BY <3>3, <3>4, <3>5
  <2> QED
    BY <2>1, <2>2
<1> HIDE DEF F
<1>2. \A U \in SUBSET T : U \in F
  BY <1>0, <1>1, SubsetInduction
<1> QED
  BY <1>2 DEF F
=============================================================================
