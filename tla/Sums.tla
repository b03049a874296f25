-------------------------------- MODULE Sums --------------------------------
(***************************************************************************)
(* Induction over natural numbers and finite sets, by a least              *)
(* counterexample, and what it gives for folds over finite sets and for    *)
(* the sums that the properties write with MapThenSumSet.                  *)
(***************************************************************************)
EXTENDS Integers, FiniteSetsExt, FiniteSetTheorems, WellFoundedInduction, TLAPS

Below == {ss \in Nat \X Nat : ss[1] < ss[2]}

LEMMA BelowWF == IsWellFoundedOn(Below, Nat)
BY NatLessThanWellFounded, Zenon DEF OpToRel, Below

LEMMA Least ==
    ASSUME NEW T \in SUBSET Nat, T # {}
    PROVE  \E m \in T : \A n \in T : m <= n
<1>1. PICK m \in T : \A n \in T : ~ <<n, m>> \in Below
  BY BelowWF, WFMin
<1>2. ASSUME NEW n \in T PROVE m <= n
  <2>1. m \in Nat /\ n \in Nat
    OBVIOUS
  <2>2. n < m => <<n, m>> \in Below
    BY <2>1 DEF Below
  <2> QED BY <1>1, <2>1, <2>2
<1> QED BY <1>2

\* Among subsets of a finite set there is one that is minimal.
LEMMA MinimalSubset ==
    ASSUME NEW D, IsFiniteSet(D), NEW T \in SUBSET (SUBSET D), T # {}
    PROVE  \E m \in T : \A x \in m : m \ {x} \notin T
<1> DEFINE C == {Cardinality(s) : s \in T}
<1>1. ASSUME NEW s \in SUBSET D
      PROVE  /\ IsFiniteSet(s) /\ Cardinality(s) \in Nat
             /\ \A x \in s : Cardinality(s \ {x}) < Cardinality(s)
  <2>1. IsFiniteSet(s)
    BY FS_Subset
  <2>2. Cardinality(s) \in Nat
    BY <2>1, FS_CardinalityType
  <2>3. \A x \in s : Cardinality(s \ {x}) = Cardinality(s) - 1
    BY <2>1, FS_RemoveElement
  <2> QED BY <2>1, <2>2, <2>3
<1>2. C \in SUBSET Nat /\ C # {}
  BY <1>1
<1>3. PICK c \in C : \A n \in C : c <= n
  <2> HIDE DEF C
  <2> QED BY <1>2, Least
<1>4. PICK m \in T : c = Cardinality(m)
  BY <1>3
<1>5. ASSUME NEW x \in m, m \ {x} \in T
      PROVE  FALSE
  <2>1. Cardinality(m \ {x}) \in C
    BY <1>5
  <2>2. c <= Cardinality(m \ {x}) /\ c \in Nat /\ Cardinality(m \ {x}) \in Nat
    BY <1>1, <1>3, <1>4, <2>1
  <2> QED BY <1>1, <1>4, <1>5, <2>2
<1> QED BY <1>5

\* A set that is not finite has finite subsets of every size.
LEMMA FiniteParts ==
    ASSUME NEW D, ~IsFiniteSet(D), NEW n \in Nat
    PROVE  \E s \in SUBSET D : IsFiniteSet(s) /\ Cardinality(s) = n
<1> DEFINE Has(k) == \E s \in SUBSET D : IsFiniteSet(s) /\ Cardinality(s) = k
           T == {k \in Nat : ~Has(k)}
<1>1. SUFFICES ASSUME T # {} PROVE FALSE
  OBVIOUS
<1>2. PICK k \in T : \A l \in T : k <= l
  <2>1. T \in SUBSET Nat
    OBVIOUS
  <2> HIDE DEF T
  <2> QED BY <1>1, <2>1, Least
<1>3. k \in Nat /\ ~Has(k)
  OBVIOUS
<1>4. Has(0)
  BY FS_EmptySet
<1>5. k - 1 \in Nat /\ k - 1 \notin T
  BY <1>2, <1>3, <1>4
<1>6. PICK s \in SUBSET D : IsFiniteSet(s) /\ Cardinality(s) = k - 1
  BY <1>5
<1>7. PICK x \in D : x \notin s
  BY <1>6
<1>8. /\ IsFiniteSet(s \cup {x}) /\ Cardinality(s \cup {x}) = k - 1 + 1
      /\ s \cup {x} \in SUBSET D
  BY <1>6, <1>7, FS_AddElement
<1> QED BY <1>3, <1>8

-----------------------------------------------------------------------------
(***************************************************************************)
(* Folds over finite sets, as the community modules define them: what is   *)
(* added next is whatever CHOOSE picks.  h[<<x, v>>] adds x to v.          *)
(***************************************************************************)
Pick(s) == CHOOSE x \in s : TRUE

NextFold(g, h, base, s) == IF s = {} THEN base
                           ELSE h[<<Pick(s), g[s \ {Pick(s)}]>>]

IsFold(g, h, base, D) == g = [s \in SUBSET D |-> NextFold(g, h, base, s)]

\* There is a fold: for the subsets up to any size, by the size.
LEMMA FoldExists ==
    ASSUME NEW D, IsFiniteSet(D), NEW h, NEW base
    PROVE  \E g : IsFold(g, h, base, D)
<1> DEFINE Small(n) == {s \in SUBSET D : Cardinality(s) <= n}
           Upto(n) == \E g : g = [s \in Small(n) |-> NextFold(g, h, base, s)]
           T == {n \in Nat : ~Upto(n)}
<1>1. ASSUME NEW s \in SUBSET D
      PROVE  /\ Cardinality(s) \in Nat
             /\ Cardinality(s) = 0 <=> s = {}
             /\ \A x \in s : Cardinality(s \ {x}) = Cardinality(s) - 1
             /\ Cardinality(s) <= Cardinality(D)
  <2>1. IsFiniteSet(s)
    BY FS_Subset
  <2> QED BY <2>1, FS_CardinalityType, FS_RemoveElement, FS_EmptySet, FS_Subset
<1>2. Upto(0)
  <2>1. \A s \in Small(0) : s = {}
    BY <1>1
  <2>2. [s \in Small(0) |-> base] = [s \in Small(0) |->
                                    NextFold([t \in Small(0) |-> base], h, base, s)]
    BY <2>1 DEF NextFold
  <2> QED BY <2>2
<1>3. ASSUME NEW n \in Nat, Upto(n)
      PROVE  Upto(n + 1)
  <2>1. PICK g : g = [s \in Small(n) |-> NextFold(g, h, base, s)]
    BY <1>3
  <2> DEFINE k == [s \in Small(n + 1) |-> NextFold(g, h, base, s)]
  <2>2. ASSUME NEW s \in Small(n + 1)
        PROVE  k[s] = NextFold(k, h, base, s)
    <3>1. CASE s = {}
      BY <3>1 DEF NextFold
    <3>2. CASE s # {}
      <4> DEFINE t == s \ {Pick(s)}
      <4>1. Pick(s) \in s
        BY <3>2 DEF Pick
      <4>2. t \in Small(n) /\ t \in Small(n + 1)
        BY <1>1, <4>1
      <4>3. k[t] = g[t]
        <5>1. k[t] = NextFold(g, h, base, t)
          BY <4>2
        <5>2. g[t] = NextFold(g, h, base, t)
          <6> HIDE DEF t, Small
          <6> QED BY <2>1, <4>2
        <5> QED BY <5>1, <5>2
      <4>4. k[s] = h[<<Pick(s), g[t]>>]
        BY <3>2 DEF NextFold
      <4> QED BY <3>2, <4>3, <4>4 DEF NextFold
    <3> QED BY <3>1, <3>2
  <2>3. k = [s \in Small(n + 1) |-> NextFold(k, h, base, s)]
    <3>1. k = [s \in Small(n + 1) |-> k[s]]
      OBVIOUS
    <3> HIDE DEF k, Small
    <3> QED BY <2>2, <3>1
  <2> QED BY <2>3
<1>4. T = {}
  <2>1. SUFFICES ASSUME T # {} PROVE FALSE
    OBVIOUS
  <2>2. PICK m \in T : \A n \in T : m <= n
    <3>1. T \in SUBSET Nat
      OBVIOUS
    <3> QED BY <2>1, <3>1, Least
  <2>3. m \in Nat /\ ~Upto(m)
    OBVIOUS
  <2> HIDE DEF Upto
  <2>4. m # 0 /\ m - 1 \in Nat
    BY <1>2, <2>3
  <2>5. Upto(m - 1)
    BY <2>2, <2>4
  <2>6. Upto((m - 1) + 1)
    BY <1>3, <2>4, <2>5
  <2> QED BY <2>3, <2>4, <2>6
<1>5. Upto(Cardinality(D))
  BY <1>1, <1>4
<1>6. Small(Cardinality(D)) = SUBSET D
  BY <1>1
<1> HIDE DEF Small
<1> QED BY <1>5, <1>6 DEF IsFold

LEMMA FoldType ==
    ASSUME NEW D, IsFiniteSet(D), NEW h, NEW V, NEW base \in V,
           \A x \in D, v \in V : h[<<x, v>>] \in V,
           NEW g, IsFold(g, h, base, D)
    PROVE  \A s \in SUBSET D : g[s] \in V
<1> DEFINE T == {s \in SUBSET D : g[s] \notin V}
<1>1. SUFFICES ASSUME T # {} PROVE FALSE
  OBVIOUS
<1>2. PICK m \in T : \A x \in m : m \ {x} \notin T
  <2>1. T \in SUBSET (SUBSET D)
    OBVIOUS
  <2> HIDE DEF T
  <2> QED BY <1>1, <2>1, MinimalSubset
<1>3. g[m] = NextFold(g, h, base, m) /\ m \in SUBSET D /\ g[m] \notin V
  BY <1>2 DEF IsFold
<1>4. m # {}
  BY <1>3 DEF NextFold
<1>5. Pick(m) \in m /\ g[m] = h[<<Pick(m), g[m \ {Pick(m)}]>>]
  BY <1>3, <1>4 DEF NextFold, Pick
<1>6. g[m \ {Pick(m)}] \in V
  BY <1>2, <1>3, <1>5
<1> QED BY <1>3, <1>5, <1>6

-----------------------------------------------------------------------------
(***************************************************************************)
(* Sums of the values of a function on a finite set.                       *)
(***************************************************************************)
NextSum(g, f, s) == IF s = {} THEN 0 ELSE f[Pick(s)] + g[s \ {Pick(s)}]

IsSums(g, f, D) == g = [s \in SUBSET D |-> NextSum(g, f, s)]

Sum(f, D) == MapThenSumSet(LAMBDA k : f[k], D)

Summable(f, D) == IsFiniteSet(D) /\ \A x \in D : f[x] \in Nat

LEMMA SumIs ==
    ASSUME NEW D, NEW f
    PROVE  Sum(f, D) = (CHOOSE g : IsSums(g, f, D))[D]
BY DEF Sum, MapThenSumSet, MapThenFoldSet, IsSums, NextSum, Pick

\* The equations the partial sums satisfy.
LEMMA SumsStep ==
    ASSUME NEW D, NEW f, NEW g, IsSums(g, f, D)
    PROVE  /\ g[{}] = 0
           /\ \A s \in SUBSET D : s # {} =>
                 /\ Pick(s) \in s
                 /\ g[s] = f[Pick(s)] + g[s \ {Pick(s)}]
BY DEF IsSums, NextSum, Pick

\* Functions that agree on D have the same sums over its subsets.
LEMMA SumsUnique ==
    ASSUME NEW D, NEW E, IsFiniteSet(D), D \subseteq E, NEW f, NEW e,
           \A x \in D : f[x] = e[x],
           NEW g, IsSums(g, f, D), NEW h, IsSums(h, e, E)
    PROVE  \A s \in SUBSET D : g[s] = h[s]
<1> DEFINE T == {s \in SUBSET D : g[s] # h[s]}
<1>1. SUFFICES ASSUME T # {} PROVE FALSE
  OBVIOUS
<1>2. PICK m \in T : \A x \in m : m \ {x} \notin T
  <2>1. T \in SUBSET (SUBSET D)
    OBVIOUS
  <2> HIDE DEF T
  <2> QED BY <1>1, <2>1, MinimalSubset
<1>3. m \in SUBSET D /\ m \in SUBSET E /\ g[m] # h[m]
  BY <1>2
<1>4. g[m] = NextSum(g, f, m) /\ h[m] = NextSum(h, e, m)
  BY <1>3 DEF IsSums
<1>5. m # {}
  BY <1>3, <1>4 DEF NextSum
<1>6. /\ Pick(m) \in m
      /\ g[m] = f[Pick(m)] + g[m \ {Pick(m)}]
      /\ h[m] = e[Pick(m)] + h[m \ {Pick(m)}]
  BY <1>4, <1>5 DEF NextSum, Pick
<1>7. g[m \ {Pick(m)}] = h[m \ {Pick(m)}] /\ f[Pick(m)] = e[Pick(m)]
  BY <1>2, <1>3, <1>6
<1> QED BY <1>3, <1>6, <1>7

LEMMA SumsExist ==
    ASSUME NEW D, NEW f, Summable(f, D)
    PROVE  \E g : /\ IsSums(g, f, D) /\ Sum(f, D) = g[D]
                  /\ \A s \in SUBSET D : g[s] \in Nat
<1> DEFINE h == [xv \in D \X Nat |-> f[xv[1]] + xv[2]]
<1>1. \A x \in D, v \in Nat : h[<<x, v>>] = f[x] + v /\ h[<<x, v>>] \in Nat
  BY DEF Summable
<1> HIDE DEF h
<1>2. PICK g : IsFold(g, h, 0, D)
  BY FoldExists DEF Summable
<1>3. \A s \in SUBSET D : g[s] \in Nat
  BY <1>1, <1>2, FoldType DEF Summable
<1>4. ASSUME NEW s \in SUBSET D
      PROVE  NextFold(g, h, 0, s) = NextSum(g, f, s)
  <2>1. CASE s = {}
    BY <2>1 DEF NextFold, NextSum
  <2>2. CASE s # {}
    <3>1. Pick(s) \in s /\ Pick(s) \in D
      BY <2>2 DEF Pick
    <3>2. h[<<Pick(s), g[s \ {Pick(s)}]>>] = f[Pick(s)] + g[s \ {Pick(s)}]
      BY <1>1, <1>3, <3>1
    <3> QED BY <2>2, <3>2 DEF NextFold, NextSum
  <2> QED BY <2>1, <2>2
<1>5. IsSums(g, f, D)
  <2>1. [s \in SUBSET D |-> NextFold(g, h, 0, s)] = [s \in SUBSET D |-> NextSum(g, f, s)]
    BY <1>4
  <2> QED BY <1>2, <2>1 DEF IsFold, IsSums
<1> DEFINE c == CHOOSE k : IsSums(k, f, D)
<1>6. IsSums(c, f, D)
  BY <1>5
<1>7. Sum(f, D) = c[D]
  BY SumIs
<1> HIDE DEF c
<1>8. \A s \in SUBSET D : c[s] = g[s]
  BY <1>5, <1>6, SumsUnique DEF Summable
<1> QED BY <1>3, <1>6, <1>7, <1>8

\* A sum does not depend on what the function is elsewhere.
LEMMA SumAgrees ==
    ASSUME NEW D, NEW f, NEW e, Summable(f, D), \A x \in D : f[x] = e[x]
    PROVE  Sum(f, D) = Sum(e, D)
<1>1. Summable(e, D)
  BY DEF Summable
<1>2. PICK g : IsSums(g, f, D) /\ Sum(f, D) = g[D]
  BY SumsExist
<1>3. PICK h : IsSums(h, e, D) /\ Sum(e, D) = h[D]
  BY <1>1, SumsExist
<1>4. \A s \in SUBSET D : g[s] = h[s]
  BY <1>2, <1>3, SumsUnique DEF Summable
<1> QED BY <1>2, <1>3, <1>4

\* The sum over any part of D, one summand at a time.
LEMMA SumSteps ==
    ASSUME NEW D, NEW f, Summable(f, D)
    PROVE  /\ Sum(f, {}) = 0
           /\ \A s \in SUBSET D : Sum(f, s) \in Nat
           /\ \A s \in SUBSET D : s # {} =>
                 /\ Pick(s) \in s
                 /\ Sum(f, s) = f[Pick(s)] + Sum(f, s \ {Pick(s)})
<1>1. PICK g : IsSums(g, f, D) /\ \A s \in SUBSET D : g[s] \in Nat
  BY SumsExist
<1>2. ASSUME NEW s \in SUBSET D
      PROVE  Sum(f, s) = g[s]
  <2>1. Summable(f, s)
    BY FS_Subset DEF Summable
  <2>2. PICK h : IsSums(h, f, s) /\ Sum(f, s) = h[s]
    BY <2>1, SumsExist
  <2>3. \A r \in SUBSET s : h[r] = g[r]
    BY <1>1, <2>1, <2>2, SumsUnique DEF Summable
  <2> QED BY <2>2, <2>3
<1>3. /\ g[{}] = 0
      /\ \A s \in SUBSET D : s # {} =>
            /\ Pick(s) \in s
            /\ g[s] = f[Pick(s)] + g[s \ {Pick(s)}]
  BY <1>1, SumsStep
<1>4. ASSUME NEW s \in SUBSET D, s # {}
      PROVE  Pick(s) \in s /\ Sum(f, s) = f[Pick(s)] + Sum(f, s \ {Pick(s)})
  <2>1. s \ {Pick(s)} \in SUBSET D
    OBVIOUS
  <2>2. Sum(f, s) = g[s] /\ Sum(f, s \ {Pick(s)}) = g[s \ {Pick(s)}]
    BY <1>2, <2>1
  <2> QED BY <1>3, <1>4, <2>2
<1>5. {} \in SUBSET D
  OBVIOUS
<1> QED BY <1>1, <1>2, <1>3, <1>4, <1>5

\* Any summand can be taken out.
LEMMA SumRemove ==
    ASSUME NEW D, NEW f, Summable(f, D), NEW x \in D
    PROVE  Sum(f, D) = f[x] + Sum(f, D \ {x})
<1> DEFINE T == {s \in SUBSET D : \E y \in s : Sum(f, s) # f[y] + Sum(f, s \ {y})}
<1>1. SUFFICES ASSUME T # {} PROVE FALSE
  OBVIOUS
<1>2. PICK m \in T : \A y \in m : m \ {y} \notin T
  <2>1. T \in SUBSET (SUBSET D)
    OBVIOUS
  <2> HIDE DEF T
  <2> QED BY <1>1, <2>1, MinimalSubset DEF Summable
<1>3. PICK y \in m : Sum(f, m) # f[y] + Sum(f, m \ {y})
  BY <1>2
<1> DEFINE p == Pick(m)
<1>4. m \in SUBSET D /\ m # {}
  BY <1>2, <1>3
<1>5. p \in m /\ Sum(f, m) = f[p] + Sum(f, m \ {p})
  <2>1. \A s \in SUBSET D : s # {} =>
           /\ Pick(s) \in s
           /\ Sum(f, s) = f[Pick(s)] + Sum(f, s \ {Pick(s)})
    BY SumSteps
  <2> QED BY <1>4, <2>1
<1> HIDE DEF p
<1>6. p # y
  BY <1>3, <1>5
<1>7. Sum(f, m \ {p}) = f[y] + Sum(f, (m \ {p}) \ {y})
  BY <1>2, <1>4, <1>5, <1>6
<1>8. Sum(f, m \ {y}) = f[p] + Sum(f, (m \ {y}) \ {p})
  BY <1>2, <1>3, <1>4, <1>5, <1>6
<1>9. (m \ {p}) \ {y} = (m \ {y}) \ {p} /\ (m \ {p}) \ {y} \in SUBSET D
  BY <1>4
<1>10. f[y] \in Nat /\ f[p] \in Nat /\ Sum(f, (m \ {p}) \ {y}) \in Nat
  BY <1>3, <1>4, <1>5, <1>9, SumSteps DEF Summable
<1> QED BY <1>3, <1>5, <1>7, <1>8, <1>9, <1>10

-----------------------------------------------------------------------------
(***************************************************************************)
(* The total of a function with a finite domain.                           *)
(***************************************************************************)
Total(f) == Sum(f, DOMAIN f)

\* Nothing adds up to nothing.
LEMMA TotalZero ==
    ASSUME NEW f, IsFiniteSet(DOMAIN f), \A k \in DOMAIN f : f[k] = 0
    PROVE  Total(f) = 0
<1> DEFINE D == DOMAIN f
           T == {s \in SUBSET D : Sum(f, s) # 0}
<1>0. Summable(f, D)
  BY DEF Summable
<1>1. SUFFICES ASSUME T # {} PROVE FALSE
  BY DEF Total
<1>2. PICK m \in T : \A x \in m : m \ {x} \notin T
  <2>1. T \in SUBSET (SUBSET D)
    OBVIOUS
  <2> HIDE DEF T
  <2> QED BY <1>1, <2>1, MinimalSubset
<1>3. m \in SUBSET D /\ Sum(f, m) # 0
  BY <1>2
<1>4. m # {} /\ Sum(f, {}) = 0
  BY <1>0, <1>3, SumSteps
<1>5. Pick(m) \in m /\ Sum(f, m) = f[Pick(m)] + Sum(f, m \ {Pick(m)})
  BY <1>0, <1>3, <1>4, SumSteps
<1>6. Sum(f, m \ {Pick(m)}) = 0 /\ f[Pick(m)] = 0
  BY <1>2, <1>3, <1>5
<1> QED BY <1>3, <1>5, <1>6

\* What is added to one summand is added to the total.
LEMMA TotalAdds ==
    ASSUME NEW D, IsFiniteSet(D), NEW f \in [D -> Nat], NEW x \in D,
           NEW d \in Nat
    PROVE  Total([f EXCEPT ![x] = @ + d]) = Total(f) + d
<1> DEFINE e == [f EXCEPT ![x] = @ + d]
           R == D \ {x}
<1>1. /\ e \in [D -> Nat] /\ DOMAIN e = D /\ DOMAIN f = D
      /\ e[x] = f[x] + d /\ f[x] \in Nat
      /\ \A k \in R : f[k] = e[k]
  OBVIOUS
<1> HIDE DEF e
<1>2. Summable(f, D) /\ Summable(e, D)
  BY <1>1 DEF Summable
<1>3. Summable(f, R) /\ R \in SUBSET D
  BY <1>2, FS_Subset DEF Summable
<1>4. Sum(f, D) = f[x] + Sum(f, R) /\ Sum(e, D) = e[x] + Sum(e, R)
  BY <1>2, SumRemove
<1>5. Sum(f, R) = Sum(e, R)
  <2> HIDE DEF R
  <2> QED BY <1>1, <1>3, SumAgrees
<1>6. Sum(f, R) \in Nat
  BY <1>2, <1>3, SumSteps
<1>7. Sum(e, D) = Sum(f, D) + d
  BY <1>1, <1>4, <1>5, <1>6
<1> QED BY <1>1, <1>7 DEF Total, e
=============================================================================
