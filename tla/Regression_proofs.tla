-------------------------- MODULE Regression_proofs --------------------------
(***************************************************************************)
(* For any number of cases, attempts and budgets: the statistics of        *)
(* compare_runs are exact (TestsAreExact), and the verdict on two runs of  *)
(* an agent that did not change is a regression no more often than the     *)
(* suite allows (FalseAlarmsBounded).                                      *)
(*                                                                         *)
(* The proofs are about the tests, not about the steps: ConfigInv says     *)
(* that a report is of the settings and that those are within budget, and  *)
(* both properties follow from it by what the operators of Regression      *)
(* compute.  Induction over data being out of the provers' reach, a        *)
(* property of every element is shown by its least counterexample.         *)
(***************************************************************************)
EXTENDS Regression, FiniteSetTheorems, SequenceTheorems, WellFoundedInduction, TLAPS

-----------------------------------------------------------------------------
(* Orders and counts                                                       *)

\* A set of naturals that is not empty has a least element.
LEMMA Least ==
    ASSUME NEW T, T \subseteq Nat, T # {}
    PROVE  \E n \in T : \A m \in T : n <= m
<1>1. IsWellFoundedOn(OpToRel(<, Nat), Nat)
    BY NatLessThanWellFounded
<1>2. PICK n \in T : \A m \in T : <<m, n>> \notin OpToRel(<, Nat)
    BY <1>1, WFMin
<1>3. \A m \in T : ~(m < n)
    BY <1>2 DEF OpToRel
<1> QED
    BY <1>3

\* The pairs of `before` order S.
IsStrictOrder(before, S) ==
    /\ \A x \in S : <<x, x>> \notin before
    /\ \A x, y \in S : x # y => <<x, y>> \in before \/ <<y, x>> \in before
    /\ \A x, y, z \in S : <<x, y>> \in before /\ <<y, z>> \in before => <<x, z>> \in before

Below(S, before, x) == {y \in S : <<y, x>> \in before}

\* As many elements of a finite ordered set come before an element as its place
\* says, and every place is taken.
LEMMA Ranks ==
    ASSUME NEW S, IsFiniteSet(S), NEW before, IsStrictOrder(before, S)
    PROVE  /\ \A x \in S : Cardinality(Below(S, before, x)) \in 0 .. Cardinality(S) - 1
           /\ \A x, y \in S : <<x, y>> \in before =>
                 Cardinality(Below(S, before, x)) < Cardinality(Below(S, before, y))
           /\ \A k \in 0 .. Cardinality(S) - 1 : \E x \in S : Cardinality(Below(S, before, x)) = k
<1> DEFINE n == Cardinality(S)
           rank == [x \in S |-> Cardinality(Below(S, before, x))]
<1>1. n \in Nat
    BY FS_CardinalityType
<1>2. \A x \in S : IsFiniteSet(Below(S, before, x)) /\ Cardinality(Below(S, before, x)) \in Nat
  <2> TAKE x \in S
  <2>1. Below(S, before, x) \in SUBSET S
    BY DEF Below
  <2> QED
    BY <2>1, FS_Subset, FS_CardinalityType
<1>3. \A x \in S : Cardinality(Below(S, before, x)) \in 0 .. n - 1
  <2> TAKE x \in S
  <2>1. Below(S, before, x) \in SUBSET (S \ {x})
    BY DEF IsStrictOrder, Below
  <2>2. IsFiniteSet(S \ {x}) /\ Cardinality(S \ {x}) = n - 1
    BY FS_RemoveElement
  <2>3. Cardinality(Below(S, before, x)) <= n - 1
    BY <2>1, <2>2, FS_Subset
  <2> QED
    BY <1>1, <1>2, <2>3
<1>4. ASSUME NEW x \in S, NEW y \in S, <<x, y>> \in before
      PROVE  Cardinality(Below(S, before, x)) < Cardinality(Below(S, before, y))
  <2>1. Below(S, before, x) \in SUBSET (Below(S, before, y) \ {x}) /\ x \in Below(S, before, y)
    BY <1>4 DEF IsStrictOrder, Below
  <2>2. /\ IsFiniteSet(Below(S, before, y) \ {x})
        /\ Cardinality(Below(S, before, y) \ {x}) = Cardinality(Below(S, before, y)) - 1
    BY <1>2, <2>1, FS_RemoveElement
  <2>3. Cardinality(Below(S, before, x)) <= Cardinality(Below(S, before, y)) - 1
    BY <2>1, <2>2, FS_Subset
  <2> QED
    BY <1>2, <2>3
<1>5. rank \in Injection(S, 0 .. n - 1)
  <2>1. rank \in [S -> 0 .. n - 1]
    BY <1>3
  <2>2. ASSUME NEW x \in S, NEW y \in S, x # y PROVE rank[x] # rank[y]
    <3>1. <<x, y>> \in before \/ <<y, x>> \in before
        BY <2>2 DEF IsStrictOrder
    <3>2. /\ Cardinality(Below(S, before, x)) \in Nat /\ Cardinality(Below(S, before, y)) \in Nat
          /\ \/ Cardinality(Below(S, before, x)) < Cardinality(Below(S, before, y))
             \/ Cardinality(Below(S, before, y)) < Cardinality(Below(S, before, x))
        BY <1>2, <1>4, <3>1
    <3> QED
        BY <3>2
  <2> QED
    BY <2>1, <2>2 DEF Injection, IsInjective
<1>6. IsFiniteSet(0 .. n - 1) /\ Cardinality(0 .. n - 1) = n
    BY <1>1, FS_Interval
<1>7. rank \in Surjection(S, 0 .. n - 1)
    BY <1>5, <1>6, FS_Injection
<1>8. \A k \in 0 .. n - 1 : \E x \in S : rank[x] = k
    BY <1>7 DEF Surjection
<1> QED
    BY <1>3, <1>4, <1>8

\* sorted(): every element once, each after those that come before it.
LEMMA OrderedIs ==
    ASSUME NEW S, IsFiniteSet(S), NEW before, IsStrictOrder(before, S)
    PROVE  LET order == Ordered(S, before)
               n == Cardinality(S) IN
           /\ n \in Nat
           /\ order \in [1 .. n -> S]
           /\ \A x \in S : \E k \in 1 .. n : order[k] = x
           /\ \A i, j \in 1 .. n : order[i] = order[j] => i = j
           /\ \A k \in 1 .. n : Cardinality(Below(S, before, order[k])) = k - 1
           /\ \A x \in S, k \in 1 .. n :
                 Cardinality(Below(S, before, x)) = k - 1 => order[k] = x
<1> DEFINE n == Cardinality(S)
           order == Ordered(S, before)
<1>1. /\ \A x \in S : Cardinality(Below(S, before, x)) \in 0 .. n - 1
      /\ \A x, y \in S : <<x, y>> \in before => Cardinality(Below(S, before, x)) < Cardinality(Below(S, before, y))
      /\ \A k \in 0 .. n - 1 : \E x \in S : Cardinality(Below(S, before, x)) = k
    BY Ranks
<1>2. n \in Nat /\ Cardinality(S) = n
    BY FS_CardinalityType
<1>3. order = [k \in 1 .. n |-> CHOOSE x \in S : Cardinality(Below(S, before, x)) = k - 1]
    BY <1>2 DEF Ordered, Below
<1> HIDE DEF order, n
<1>4. \A k \in 1 .. n : order[k] \in S /\ Cardinality(Below(S, before, order[k])) = k - 1
  <2> TAKE k \in 1 .. n
  <2>1. k - 1 \in 0 .. n - 1
    BY <1>2
  <2>2. PICK x \in S : Cardinality(Below(S, before, x)) = k - 1
    BY <1>1, <2>1
  <2>3. order[k] = CHOOSE y \in S : Cardinality(Below(S, before, y)) = k - 1
    BY <1>3
  <2>4. order[k] \in S /\ Cardinality(Below(S, before, order[k])) = k - 1
    BY <2>2, <2>3
  <2> QED
    BY <2>4
<1>5. \A x, y \in S : Cardinality(Below(S, before, x)) = Cardinality(Below(S, before, y)) => x = y
  <2> SUFFICES ASSUME NEW x \in S, NEW y \in S, Cardinality(Below(S, before, x)) = Cardinality(Below(S, before, y)), x # y
               PROVE  FALSE
    OBVIOUS
  <2>1. Cardinality(Below(S, before, x)) \in 0 .. n - 1
    BY <1>1
  <2>2. <<x, y>> \in before \/ <<y, x>> \in before
    BY DEF IsStrictOrder
  <2> QED
    BY <1>1, <1>2, <2>1, <2>2
<1>6. order \in [1 .. n -> S]
    BY <1>3, <1>4
<1>7. \A x \in S, k \in 1 .. n : Cardinality(Below(S, before, x)) = k - 1 => order[k] = x
    BY <1>4, <1>5
<1>8. \A x \in S : \E k \in 1 .. n : order[k] = x
  <2> TAKE x \in S
  <2>1. Cardinality(Below(S, before, x)) \in 0 .. n - 1
    BY <1>1
  <2>2. Cardinality(Below(S, before, x)) + 1 \in 1 .. n
    BY <1>2, <2>1
  <2>3. Cardinality(Below(S, before, x)) = (Cardinality(Below(S, before, x)) + 1) - 1
    BY <2>1
  <2> QED
    BY <1>7, <2>2, <2>3
<1>9. \A i, j \in 1 .. n : order[i] = order[j] => i = j
  <2> TAKE i, j \in 1 .. n
  <2>1. order[i] = order[j] => i - 1 = j - 1
    BY <1>4
  <2> QED
    BY <1>2, <2>1
<1> QED
    BY <1>2, <1>4, <1>6, <1>7, <1>8, <1>9 DEF order, n

\* An injective function keeps the number of elements.
LEMMA ImageCount ==
    ASSUME NEW S, IsFiniteSet(S), NEW f, DOMAIN f = S,
           \A x, y \in S : f[x] = f[y] => x = y,
           NEW T, \A x \in S : f[x] \in T, \A t \in T : \E x \in S : f[x] = t
    PROVE  IsFiniteSet(T) /\ Cardinality(T) = Cardinality(S)
<1> DEFINE g == [x \in S |-> f[x]]
<1>1. g \in [S -> T]
    OBVIOUS
<1>2. g \in Bijection(S, T)
    BY <1>1 DEF Bijection, Injection, Surjection, IsInjective
<1> HIDE DEF g
<1> QED
    BY <1>2, FS_Bijection DEF ExistsBijection

\* The recursion by which MapThenSumSet adds w up over D.
SumStep(w, D, g) ==
    [s \in SUBSET D |-> IF s = {} THEN 0
                        ELSE w[CHOOSE x \in s : TRUE] + g[s \ {CHOOSE x \in s : TRUE}]]

SumOver(w, D) == CHOOSE g : g = SumStep(w, D, g)

Fibre(h, X, d) == {x \in X : h[x] = d}

\* Sets without a common element.
LEMMA DisjointUnion ==
    ASSUME NEW S, NEW T, IsFiniteSet(S), IsFiniteSet(T), S \cap T = {}
    PROVE  IsFiniteSet(S \cup T) /\ Cardinality(S \cup T) = Cardinality(S) + Cardinality(T)
<1>1. Cardinality(S) \in Nat /\ Cardinality(T) \in Nat /\ Cardinality(S \cap T) = 0
    BY FS_CardinalityType, FS_EmptySet
<1>2. /\ IsFiniteSet(S \cup T)
      /\ Cardinality(S \cup T) = Cardinality(S) + Cardinality(T) - Cardinality(S \cap T)
    BY FS_Union
<1> QED
    BY <1>1, <1>2

-----------------------------------------------------------------------------
(* Sums.  A fold over a set takes whatever element it chooses next, and    *)
(* its sum is that of any additive function on the subsets.                *)

\* What is true of no least set is true of none.
LEMMA LeastSet ==
    ASSUME NEW D, IsFiniteSet(D), NEW T, T \subseteq SUBSET D, T # {}
    PROVE  \E s \in T : \A d \in s : s \ {d} \notin T
<1>1. IsWellFoundedOn(StrictSubsetOrdering(D), FiniteSubsetsOf(D)) /\ FiniteSubsetsOf(D) = SUBSET D
    BY FS_StrictSubsetOrderingWellFounded, FS_FiniteSubsetsOfFinite
<1>2. PICK s \in T : \A u \in T : <<u, s>> \notin StrictSubsetOrdering(D)
    BY <1>1, WFMin
<1>3. \A d \in s : s \ {d} \in SUBSET D /\ <<s \ {d}, s>> \in StrictSubsetOrdering(D)
    BY <1>2 DEF StrictSubsetOrdering
<1> QED
    BY <1>2, <1>3

\* One more element of a set adds its term, whichever it is.
IsAdditive(G, w, D) ==
    /\ G \in [SUBSET D -> Int]
    /\ G[{}] = 0
    /\ \A s \in SUBSET D : \A d \in s : G[s] = w[d] + G[s \ {d}]

\* Every function of integers on a finite set has its sums: by the least set
\* that has none (induction over data is out of reach).
LEMMA AdditiveExists ==
    ASSUME NEW D, IsFiniteSet(D), NEW w, \A d \in D : w[d] \in Int
    PROVE  \E G : IsAdditive(G, w, D)
<1> DEFINE T == {s \in SUBSET D : ~\E G : IsAdditive(G, w, s)}
<1> SUFFICES ASSUME T # {} PROVE FALSE
    OBVIOUS
<1>1. PICK E \in T : \A d \in E : E \ {d} \notin T
    BY LeastSet
<1>2. E # {}
  <2> SUFFICES ASSUME E = {} PROVE FALSE
    OBVIOUS
  <2> DEFINE G == [s \in SUBSET E |-> 0]
  <2>1. IsAdditive(G, w, E)
    BY DEF IsAdditive
  <2> QED
    BY <2>1
<1>3. PICK d \in E : TRUE
    BY <1>2
<1>4. PICK H : IsAdditive(H, w, E \ {d})
    BY <1>1
<1> DEFINE G == [s \in SUBSET E |-> IF d \in s THEN w[d] + H[s \ {d}] ELSE H[s]]
<1>5. /\ \A s \in SUBSET (E \ {d}) : H[s] \in Int
      /\ H[{}] = 0
      /\ \A s \in SUBSET (E \ {d}) : \A e \in s : H[s] = w[e] + H[s \ {e}]
    BY <1>4 DEF IsAdditive
<1>6. w[d] \in Int /\ \A e \in E : w[e] \in Int
    OBVIOUS
<1>7. ASSUME NEW s \in SUBSET E PROVE G[s] \in Int
  <2>1. d \in s => s \ {d} \in SUBSET (E \ {d})
    OBVIOUS
  <2>2. d \notin s => s \in SUBSET (E \ {d})
    OBVIOUS
  <2> QED
    BY <1>5, <1>6, <2>1, <2>2
<1>8. ASSUME NEW s \in SUBSET E, NEW e \in s PROVE G[s] = w[e] + G[s \ {e}]
  <2>1. CASE d \notin s
    <3>1. s \in SUBSET (E \ {d}) /\ d \notin s \ {e} /\ s \ {e} \in SUBSET E
        BY <2>1
    <3>2. H[s] = w[e] + H[s \ {e}]
        BY <1>5, <3>1
    <3> QED
        BY <2>1, <3>1, <3>2
  <2>2. CASE e = d
    <3>1. d \in s /\ d \notin s \ {e} /\ s \ {e} = s \ {d} /\ s \ {e} \in SUBSET E
        BY <2>2
    <3> QED
        BY <2>2, <3>1
  <2>3. CASE d \in s /\ e # d
    <3>1. s \ {d} \in SUBSET (E \ {d}) /\ e \in s \ {d}
        BY <2>3
    <3>2. H[s \ {d}] = w[e] + H[(s \ {d}) \ {e}]
        BY <1>5, <3>1
    <3>3. (s \ {d}) \ {e} = (s \ {e}) \ {d} /\ d \in s \ {e} /\ s \ {e} \in SUBSET E
        BY <2>3
    <3>4. G[s] = w[d] + H[s \ {d}] /\ G[s \ {e}] = w[d] + H[(s \ {d}) \ {e}]
        BY <2>3, <3>3
    <3>5. (s \ {d}) \ {e} \in SUBSET (E \ {d})
        OBVIOUS
    <3>6. H[(s \ {d}) \ {e}] \in Int /\ w[d] \in Int /\ w[e] \in Int
        BY <1>5, <1>6, <3>5
    <3> HIDE DEF G
    <3> QED
        BY <3>2, <3>4, <3>6
  <2> QED
    BY <2>1, <2>2, <2>3
<1>9. IsAdditive(G, w, E)
  <2>1. G[{}] = 0
    BY <1>5
  <2>2. G \in [SUBSET E -> Int]
    BY <1>7
  <2> HIDE DEF G
  <2> QED
    BY <1>8, <2>1, <2>2 DEF IsAdditive
<1> QED
    BY <1>9

\* The fold of FoldFunction, over whatever element it chooses next, is the sum.
LEMMA SumOverIs ==
    ASSUME NEW D, IsFiniteSet(D), NEW w, NEW G, G = SumStep(w, D, G)
    PROVE  SumOver(w, D)[D] = G[D]
<1> DEFINE Some(s) == CHOOSE x \in s : TRUE
           iter == SumOver(w, D)
<1>1. \A s \in SUBSET D : s # {} => Some(s) \in s
    OBVIOUS
<1>2. iter = SumStep(w, D, iter)
    BY DEF SumOver
<1> HIDE DEF Some, iter
<1>3. \A s \in SUBSET D : G[s] = IF s = {} THEN 0 ELSE w[Some(s)] + G[s \ {Some(s)}]
    BY DEF SumStep, Some
<1>4. \A s \in SUBSET D : iter[s] = IF s = {} THEN 0 ELSE w[Some(s)] + iter[s \ {Some(s)}]
    BY <1>2 DEF SumStep, Some
<1>5. \A s \in SUBSET D : iter[s] = G[s]
  <2> DEFINE T == {s \in SUBSET D : iter[s] # G[s]}
  <2> SUFFICES ASSUME T # {} PROVE FALSE
    OBVIOUS
  <2>1. PICK s \in T : \A d \in s : s \ {d} \notin T
    BY LeastSet
  <2>2. s \in SUBSET D /\ iter[s] # G[s]
    BY <2>1
  <2>3. s # {} /\ iter[s \ {Some(s)}] # G[s \ {Some(s)}]
    BY <1>3, <1>4, <2>2
  <2>4. Some(s) \in s /\ s \ {Some(s)} \in SUBSET D
    BY <1>1, <2>2, <2>3
  <2> QED
    BY <2>1, <2>3, <2>4
<1> QED
    BY <1>5 DEF iter

\* Sum is the sum, whatever the order of the fold.
LEMMA SumIs ==
    ASSUME NEW D, IsFiniteSet(D), NEW w, DOMAIN w = D, NEW G, IsAdditive(G, w, D)
    PROVE  Sum(w) = G[D]
<1>1. Sum(w) = SumOver(w, D)[D]
    BY DEF Sum, MapThenSumSet, MapThenFoldSet, SumOver, SumStep
<1>2. \A s \in SUBSET D : G[s] = IF s = {} THEN 0
          ELSE w[CHOOSE x \in s : TRUE] + G[s \ {CHOOSE x \in s : TRUE}]
  <2> TAKE s \in SUBSET D
  <2>1. s = {} => G[s] = 0
    BY DEF IsAdditive
  <2>2. s # {} => (CHOOSE x \in s : TRUE) \in s
    OBVIOUS
  <2> QED
    BY <2>1, <2>2 DEF IsAdditive
<1>3. G = SumStep(w, D, G)
    BY <1>2 DEF SumStep, IsAdditive
<1> QED
    BY <1>1, <1>3, SumOverIs

\* A sum over a part of the set is its place in the additive function.
LEMMA SumOfPart ==
    ASSUME NEW D, IsFiniteSet(D), NEW w, NEW G, IsAdditive(G, w, D), NEW S, S \subseteq D
    PROVE  Sum([d \in S |-> w[d]]) = G[S]
<1> DEFINE v == [d \in S |-> w[d]]
           H == [s \in SUBSET S |-> G[s]]
<1>1. IsFiniteSet(S) /\ DOMAIN v = S
    BY FS_Subset
<1>2. IsAdditive(H, v, S)
  <2>1. /\ \A s \in SUBSET S : G[s] \in Int
        /\ G[{}] = 0
        /\ \A s \in SUBSET S : \A d \in s : G[s] = w[d] + G[s \ {d}]
    BY DEF IsAdditive
  <2> QED
    BY <2>1 DEF IsAdditive
<1>3. H[S] = G[S]
    OBVIOUS
<1> HIDE DEF v, H
<1>4. Sum(v) = H[S]
    BY <1>1, <1>2, SumIs
<1> QED
    BY <1>3, <1>4 DEF v

\* The sum of integers is one.
LEMMA SumType ==
    ASSUME NEW D, IsFiniteSet(D), NEW w \in [D -> Int]
    PROVE  Sum(w) \in Int
<1>1. PICK G : IsAdditive(G, w, D)
    BY AdditiveExists
<1>2. Sum(w) = G[D] /\ D \in SUBSET D
    BY <1>1, SumIs
<1> QED
    BY <1>1, <1>2 DEF IsAdditive

\* A sum over nothing is 0.
LEMMA SumOfNone ==
    ASSUME NEW w, DOMAIN w = {}
    PROVE  Sum(w) = 0
<1>1. PICK G : IsAdditive(G, w, {})
    BY FS_EmptySet, AdditiveExists
<1> QED
    BY <1>1, FS_EmptySet, SumIs DEF IsAdditive

\* A sum without one of its terms.
LEMMA SumWithout ==
    ASSUME NEW D, IsFiniteSet(D), NEW w \in [D -> Int], NEW d \in D
    PROVE  Sum(w) = w[d] + Sum([x \in D \ {d} |-> w[x]])
<1>1. PICK G : IsAdditive(G, w, D)
    BY AdditiveExists
<1>2. Sum(w) = G[D]
    BY <1>1, SumIs
<1>3. Sum([x \in D \ {d} |-> w[x]]) = G[D \ {d}]
    BY <1>1, SumOfPart
<1> QED
    BY <1>1, <1>2, <1>3 DEF IsAdditive

\* A sum of natural numbers is one, and no term is above it.
LEMMA SumOfNaturals ==
    ASSUME NEW D, IsFiniteSet(D), NEW w \in [D -> Nat]
    PROVE  Sum(w) \in Nat /\ \A d \in D : w[d] <= Sum(w)
<1>1. PICK G : IsAdditive(G, w, D)
    BY AdditiveExists
<1>2. \A s \in SUBSET D : G[s] \in Nat
  <2> DEFINE T == {s \in SUBSET D : G[s] \notin Nat}
  <2> SUFFICES ASSUME T # {} PROVE FALSE
    OBVIOUS
  <2>1. PICK s \in T : \A d \in s : s \ {d} \notin T
    BY LeastSet
  <2>2. s \in SUBSET D /\ s # {}
    <3>1. s \in SUBSET D /\ G[s] \notin Nat /\ G[{}] = 0
        BY <1>1, <2>1 DEF IsAdditive
    <3> QED
        BY <3>1
  <2>3. PICK d \in s : TRUE
    BY <2>2
  <2>4. G[s] = w[d] + G[s \ {d}] /\ G[s \ {d}] \in Nat /\ w[d] \in Nat
    BY <1>1, <2>1, <2>2, <2>3 DEF IsAdditive
  <2> QED
    BY <2>1, <2>4
<1>3. Sum(w) = G[D]
    BY <1>1, SumIs
<1>4. \A d \in D : G[D] = w[d] + G[D \ {d}] /\ G[D \ {d}] \in Nat /\ w[d] \in Nat
    BY <1>1, <1>2 DEF IsAdditive
<1>5. D \in SUBSET D
    OBVIOUS
<1>6. G[D] \in Nat
    BY <1>2, <1>5
<1>7. \A d \in D : w[d] <= G[D]
  <2> TAKE d \in D
  <2>1. G[D] = w[d] + G[D \ {d}] /\ G[D \ {d}] \in Nat /\ w[d] \in Nat
    BY <1>4
  <2> QED
    BY <2>1
<1> QED
    BY <1>3, <1>6, <1>7

\* The elements that h makes of S.
Image(h, S) == {h[e] : e \in S}

\* v has the terms of w by the names h gives them, terms that are zero left out.
Renames(v, E, h, w, D) ==
    /\ IsFiniteSet(D) /\ w \in [D -> Int]
    /\ IsFiniteSet(E) /\ h \in [E -> D]
    /\ \A x, y \in E : h[x] = h[y] => x = y
    /\ \A d \in D : d \notin Image(h, E) => w[d] = 0
    /\ DOMAIN v = E /\ \A e \in E : v[e] = w[h[e]]

\* A sum stays when its terms are renamed.
LEMMA SumRenamed ==
    ASSUME NEW D, NEW w, NEW E, NEW h, NEW v, Renames(v, E, h, w, D)
    PROVE  Sum(w) = Sum(v)
<1> DEFINE I == Image(h, E)
<1>0. /\ IsFiniteSet(D) /\ w \in [D -> Int]
      /\ IsFiniteSet(E) /\ h \in [E -> D]
      /\ \A x, y \in E : h[x] = h[y] => x = y
      /\ \A d \in D : d \notin I => w[d] = 0
      /\ DOMAIN v = E /\ \A e \in E : v[e] = w[h[e]]
    BY DEF Renames
<1>1. \A e \in E : v[e] \in Int
    BY <1>0
<1>2. PICK G : IsAdditive(G, w, D)
    BY <1>0, AdditiveExists
<1>3. PICK H : IsAdditive(H, v, E)
    BY <1>0, <1>1, AdditiveExists
<1>4. H[E] = G[I]
  <2> DEFINE T == {s \in SUBSET E : H[s] # G[Image(h, s)]}
  <2> SUFFICES ASSUME T # {} PROVE FALSE
    BY DEF I
  <2>1. PICK s \in T : \A e \in s : s \ {e} \notin T
    BY <1>0, LeastSet
  <2>2. s \in SUBSET E /\ H[s] # G[Image(h, s)]
    BY <2>1
  <2>3. s # {}
    <3>1. H[{}] = 0 /\ G[{}] = 0 /\ Image(h, {}) = {}
        BY <1>2, <1>3 DEF IsAdditive, Image
    <3> QED
        BY <2>2, <3>1
  <2>4. PICK e \in s : TRUE
    BY <2>3
  <2>5. H[s] = v[e] + H[s \ {e}]
    BY <1>3, <2>2, <2>4 DEF IsAdditive
  <2>6. Image(h, s) \in SUBSET D /\ h[e] \in Image(h, s)
    BY <1>0, <2>2, <2>4 DEF Image
  <2>7. Image(h, s) \ {h[e]} = Image(h, s \ {e})
    BY <1>0, <2>2, <2>4 DEF Image
  <2>8. G[Image(h, s)] = w[h[e]] + G[Image(h, s \ {e})]
    <3> DEFINE A == Image(h, s)
    <3>1. A \in SUBSET D /\ h[e] \in A /\ A \ {h[e]} = Image(h, s \ {e})
        BY <2>6, <2>7
    <3> HIDE DEF A
    <3>2. G[A] = w[h[e]] + G[A \ {h[e]}]
        BY <1>2, <3>1 DEF IsAdditive
    <3> QED
        BY <3>1, <3>2 DEF A
  <2>9. H[s \ {e}] = G[Image(h, s \ {e})]
    BY <2>1, <2>2, <2>4
  <2>10. v[e] = w[h[e]]
    BY <1>0, <2>2, <2>4
  <2> QED
    BY <2>2, <2>5, <2>8, <2>9, <2>10
<1>5. G[D] = G[I]
  <2>0. I \subseteq D
    BY <1>0 DEF Image
  <2> HIDE DEF I
  <2> DEFINE T == {s \in SUBSET D : I \subseteq s /\ G[s] # G[I]}
  <2> SUFFICES ASSUME T # {} PROVE FALSE
    BY <2>0
  <2>11. T \subseteq SUBSET D
    OBVIOUS
  <2> HIDE DEF T
  <2>1. PICK s \in T : \A d \in s : s \ {d} \notin T
    BY <1>0, <2>11, LeastSet
  <2>2. s \in SUBSET D /\ I \subseteq s /\ G[s] # G[I]
    BY <2>1 DEF T
  <2>3. PICK d \in s : d \notin I
    <3>1. s # I /\ I \subseteq s
        BY <2>2
    <3>2. \E d \in s : d \notin I
        BY <3>1
    <3> QED
        BY <3>2
  <2>4. G[s] = w[d] + G[s \ {d}]
    BY <1>2, <2>2, <2>3 DEF IsAdditive
  <2>5. w[d] = 0
    BY <1>0, <2>2, <2>3
  <2>6. s \ {d} \in SUBSET D /\ I \subseteq s \ {d}
    BY <2>2, <2>3
  <2>7. G[s \ {d}] = G[I]
    BY <2>1, <2>3, <2>6 DEF T
  <2>8. G[s \ {d}] \in Int
    BY <1>2, <2>6 DEF IsAdditive
  <2> QED
    BY <2>2, <2>4, <2>5, <2>7, <2>8
<1>6. Sum(w) = G[D]
    BY <1>0, <1>2, SumIs
<1>7. Sum(v) = H[E]
    BY <1>0, <1>3, SumIs
<1> QED
    BY <1>4, <1>5, <1>6, <1>7

\* Fibre counts of a finite set add up to its size.
LEMMA SumCounts ==
    ASSUME NEW D, IsFiniteSet(D), NEW X, IsFiniteSet(X), NEW h \in [X -> D],
           NEW w, DOMAIN w = D, \A d \in D : w[d] = Cardinality(Fibre(h, X, d))
    PROVE  Sum(w) = Cardinality(X)
<1> DEFINE Above(s) == {x \in X : h[x] \in s}
           G == [s \in SUBSET D |-> Cardinality(Above(s))]
<1>1. \A s : IsFiniteSet(Above(s)) /\ Cardinality(Above(s)) \in Nat
  <2> TAKE s
  <2>1. Above(s) \in SUBSET X
    OBVIOUS
  <2> QED
    BY <2>1, FS_Subset, FS_CardinalityType
<1>2. ASSUME NEW s \in SUBSET D, NEW d \in s PROVE G[s] = w[d] + G[s \ {d}]
  <2>1. Above(s) = Above({d}) \cup Above(s \ {d}) /\ Above({d}) \cap Above(s \ {d}) = {}
    OBVIOUS
  <2>2. Above({d}) = Fibre(h, X, d)
    BY DEF Fibre
  <2>3. w[d] = Cardinality(Above({d})) /\ s \ {d} \in SUBSET D
    BY <2>2
  <2> HIDE DEF Above
  <2>4. Cardinality(Above(s)) = w[d] + Cardinality(Above(s \ {d}))
    BY <1>1, <2>1, <2>3, DisjointUnion
  <2> QED
    BY <2>3, <2>4
<1>3. G[{}] = 0
  <2>1. Above({}) = {}
    OBVIOUS
  <2> QED
    BY <2>1, FS_EmptySet
<1>4. IsAdditive(G, w, D)
  <2>1. \A s \in SUBSET D : Cardinality(Above(s)) \in Int
    <3> TAKE s \in SUBSET D
    <3>1. Cardinality(Above(s)) \in Nat
        BY <1>1
    <3> HIDE DEF Above
    <3> QED
        BY <3>1
  <2> HIDE DEF Above
  <2>2. G \in [SUBSET D -> Int]
    BY <2>1
  <2> HIDE DEF G
  <2> QED
    BY <1>2, <1>3, <2>2 DEF IsAdditive
<1>5. G[D] = Cardinality(X)
  <2>1. Above(D) = X
    OBVIOUS
  <2> QED
    BY <2>1
<1> HIDE DEF G
<1> QED
    BY <1>4, <1>5, SumIs

-----------------------------------------------------------------------------
(* Fisher's tables: the binomial coefficients, the weights of a total's    *)
(* tables, and the smallest p-values.                                      *)

\* A line of Pascal's triangle from the one before it in g.
ChooseRow(g, n) ==
    [k \in 0 .. 2 * Runs |->
        IF k = 0 THEN 1 ELSE IF n = 0 THEN 0 ELSE g[n - 1][k - 1] + g[n - 1][k]]

\* A row of the triangle is of naturals, if the one before it is.
LEMMA ChooseRowType ==
    ASSUME NEW g, NEW n \in Nat, n > 0 => g[n - 1] \in [0 .. 2 * Runs -> Nat]
    PROVE  ChooseRow(g, n) \in [0 .. 2 * Runs -> Nat]
<1>1. \A k \in 0 .. 2 * Runs : k # 0 => k - 1 \in 0 .. 2 * Runs
    BY Parameters
<1>2. ASSUME NEW k \in 0 .. 2 * Runs PROVE ChooseRow(g, n)[k] \in Nat
  <2>1. ChooseRow(g, n)[k] = IF k = 0 THEN 1 ELSE IF n = 0 THEN 0 ELSE g[n - 1][k - 1] + g[n - 1][k]
    BY DEF ChooseRow
  <2>2. ASSUME n # 0, k # 0 PROVE g[n - 1][k - 1] \in Nat /\ g[n - 1][k] \in Nat
    <3>1. n > 0 /\ k - 1 \in 0 .. 2 * Runs
        BY <1>1, <2>2
    <3>2. g[n - 1] \in [0 .. 2 * Runs -> Nat]
        BY <3>1
    <3> QED
        BY <3>1, <3>2
  <2> QED
    BY <2>1, <2>2
<1> QED
    BY <1>2 DEF ChooseRow

\* The rows exist, so that Choose is one of them.
LEMMA ChooseExists == \E g : g = [n \in 0 .. 2 * Runs |-> ChooseRow(g, n)]
<1> DEFINE Rows(f, n) == /\ f \in [0 .. n -> [0 .. 2 * Runs -> Nat]]
                         /\ \A j \in 0 .. n : f[j] = ChooseRow(f, j)
           T == {n \in Nat : ~\E f : Rows(f, n)}
<1>1. T = {}
  <2> SUFFICES ASSUME T # {} PROVE FALSE
    OBVIOUS
  <2>1. PICK n \in T : \A m \in T : n <= m
    BY Least
  <2>2. \E f : n = 0 \/ Rows(f, n - 1)
    <3>1. n \in Nat /\ \A m \in T : n <= m
        BY <2>1
    <3> HIDE DEF Rows
    <3>2. n # 0 => n - 1 \in Nat /\ ~(n <= n - 1)
        BY <3>1
    <3> QED
        BY <3>1, <3>2
  <2>3. PICK f : n = 0 \/ Rows(f, n - 1)
    BY <2>2
  <2> DEFINE h == [j \in 0 .. n |-> IF j = n THEN ChooseRow(f, n) ELSE f[j]]
  <2>4. n > 0 => n - 1 \in 0 .. n - 1 /\ f[n - 1] \in [0 .. 2 * Runs -> Nat]
    BY <2>1, <2>3
  <2>5. ChooseRow(f, n) \in [0 .. 2 * Runs -> Nat]
    BY <2>1, <2>4, ChooseRowType
  <2>6. \A j \in 0 .. n : j # n => j \in 0 .. n - 1
    BY <2>1
  <2>7. h \in [0 .. n -> [0 .. 2 * Runs -> Nat]]
    BY <2>1, <2>3, <2>5, <2>6
  <2>8. \A j \in 0 .. n : j # 0 => j - 1 \in 0 .. n /\ h[j - 1] = f[j - 1]
    BY <2>1
  <2>9. \A j \in 0 .. n : ChooseRow(h, j) = ChooseRow(f, j)
    BY <2>8 DEF ChooseRow
  <2>10. \A j \in 0 .. n : h[j] = ChooseRow(f, j)
    BY <2>1, <2>3, <2>6
  <2>11. Rows(h, n)
    BY <2>7, <2>9, <2>10
  <2> HIDE DEF Rows, h
  <2> QED
    BY <2>1, <2>11
<1>2. 2 * Runs \in Nat
    BY Parameters
<1>3. PICK f : Rows(f, 2 * Runs)
    BY <1>1, <1>2
<1>4. f = [n \in 0 .. 2 * Runs |-> ChooseRow(f, n)]
    BY <1>3
<1> QED
    BY <1>4

\* Choose is Pascal's triangle.
LEMMA ChooseIs == \A n \in 0 .. 2 * Runs : Choose[n] = ChooseRow(Choose, n)
<1>1. Choose = CHOOSE g : g = [n \in 0 .. 2 * Runs |-> ChooseRow(g, n)]
    BY DEF Choose, ChooseRow
<1>2. Choose = [n \in 0 .. 2 * Runs |-> ChooseRow(Choose, n)]
    BY <1>1, ChooseExists
<1> QED
    BY <1>2

\* A binomial coefficient is positive where there is something to choose.
LEMMA ChooseFits ==
    \A n \in 0 .. 2 * Runs :
        /\ Choose[n] \in [0 .. 2 * Runs -> Nat]
        /\ \A k \in 0 .. 2 * Runs : Choose[n][k] > 0 <=> k <= n
<1> DEFINE Fits(n) == /\ Choose[n] \in [0 .. 2 * Runs -> Nat]
                      /\ \A k \in 0 .. 2 * Runs : Choose[n][k] > 0 <=> k <= n
           T == {n \in 0 .. 2 * Runs : ~Fits(n)}
<1> SUFFICES ASSUME T # {} PROVE FALSE
    OBVIOUS
<1>0. 2 * Runs \in Nat /\ T \subseteq Nat
    BY Parameters
<1>1. PICK n \in T : \A m \in T : n <= m
    BY <1>0, Least
<1>2. n # 0 => n - 1 \in 0 .. 2 * Runs /\ Fits(n - 1)
    BY <1>0, <1>1
<1>3. Choose[n] = ChooseRow(Choose, n)
    BY <1>1, ChooseIs
<1>4. Choose[n] \in [0 .. 2 * Runs -> Nat]
    BY <1>1, <1>2, <1>3, ChooseRowType
<1>5. ASSUME NEW k \in 0 .. 2 * Runs PROVE Choose[n][k] > 0 <=> k <= n
  <2>1. n \in Nat /\ k \in Nat
    BY <1>0, <1>1
  <2>2. Choose[n][k] = IF k = 0 THEN 1 ELSE IF n = 0 THEN 0 ELSE Choose[n - 1][k - 1] + Choose[n - 1][k]
    BY <1>3 DEF ChooseRow
  <2>3. CASE k = 0 \/ n = 0
    BY <2>1, <2>2, <2>3
  <2>4. CASE k # 0 /\ n # 0
    <3>1. /\ Choose[n - 1] \in [0 .. 2 * Runs -> Nat]
          /\ \A j \in 0 .. 2 * Runs : Choose[n - 1][j] > 0 <=> j <= n - 1
        BY <1>2, <2>4
    <3>2. k - 1 \in 0 .. 2 * Runs
        BY <1>0, <2>1, <2>4
    <3>3. /\ Choose[n - 1][k - 1] \in Nat /\ Choose[n - 1][k] \in Nat
          /\ Choose[n - 1][k - 1] > 0 <=> k - 1 <= n - 1
          /\ Choose[n - 1][k] > 0 <=> k <= n - 1
        BY <3>1, <3>2
    <3>4. Choose[n][k] = Choose[n - 1][k - 1] + Choose[n - 1][k]
        BY <2>2, <2>4
    <3> QED
        BY <2>1, <3>3, <3>4
  <2> QED
    BY <2>3, <2>4
<1> QED
    BY <1>1, <1>4, <1>5

\* Some tables have every case's total, and no case has none.
LEMMA WeightFits ==
    /\ Tables \in Nat /\ Tables > 0
    /\ \A total \in 0 .. 2 * Runs : \A x \in 0 .. Runs : Weight[total][x] \in Nat
<1>1. Runs \in Nat /\ 2 * Runs \in 0 .. 2 * Runs /\ Runs \in 0 .. 2 * Runs
    BY Parameters
<1>2. Tables \in Nat /\ Tables > 0
  <2>1. /\ Choose[2 * Runs] \in [0 .. 2 * Runs -> Nat]
        /\ Choose[2 * Runs][Runs] > 0
    BY <1>1, ChooseFits
  <2> QED
    BY <1>1, <2>1 DEF Tables
<1>3. ASSUME NEW total \in 0 .. 2 * Runs, NEW x \in 0 .. Runs
      PROVE  Weight[total][x] \in Nat
  <2>1. /\ 2 * Runs - total \in 0 .. 2 * Runs /\ x \in 0 .. 2 * Runs
        /\ Runs - x \in 0 .. 2 * Runs
    BY <1>1
  <2>2. Choose[total][x] \in Nat /\ Choose[2 * Runs - total][Runs - x] \in Nat
    BY <2>1, ChooseFits
  <2>3. Weight[total][x] = Choose[total][x] * Choose[2 * Runs - total][Runs - x]
    BY DEF Weight
  <2>4. \A a, b \in Nat : a * b \in Nat
    OBVIOUS
  <2> QED
    BY <2>2, <2>3, <2>4
<1> QED
    BY <1>2, <1>3

\* No p-value of a case is below the smallest that its total allows.
LEMMA MinWorseIsLeast ==
    ASSUME NEW total \in 0 .. 2 * Runs, NEW x \in Support[total]
    PROVE  /\ PWorse[total][x] \in Nat
           /\ MinWorse[total] \in Nat
           /\ MinWorse[total] <= PWorse[total][x]
<1>1. x \in 0 .. Runs /\ Runs \in Nat
    BY Parameters DEF Support
<1>2. PICK y \in Support[total] : \A z \in Support[total] : y <= z
  <2>1. Support[total] \subseteq Nat
    BY <1>1 DEF Support
  <2> QED
    BY <2>1, Least
<1>3. Min(Support[total]) \in Support[total] /\ \A z \in Support[total] : Min(Support[total]) <= z
    BY <1>2 DEF Min
<1> DEFINE least == Min(Support[total])
           w == [z \in 0 .. x |-> Weight[total][z]]
<1>4. least \in 0 .. x /\ least \in 0 .. Runs
    BY <1>1, <1>3 DEF Support
<1>5. w \in [0 .. x -> Nat] /\ w[least] = Weight[total][least]
    BY <1>1, <1>4, WeightFits
<1>6. IsFiniteSet(0 .. x)
    BY <1>1, FS_Interval
<1>7. PWorse[total][x] = Sum(w)
    BY <1>1 DEF PWorse
<1>8. MinWorse[total] = w[least]
    BY <1>5 DEF MinWorse
<1> HIDE DEF w, least
<1>9. Sum(w) \in Nat /\ w[least] <= Sum(w)
    BY <1>4, <1>5, <1>6, SumOfNaturals
<1> QED
    BY <1>4, <1>5, <1>7, <1>8, <1>9

\* A table has at most Runs passes on either side.
LEMMA SupportIs ==
    ASSUME NEW total \in 0 .. 2 * Runs, NEW x \in Support[total]
    PROVE  x \in 0 .. Runs /\ total - x \in 0 .. Runs
<1>1. x \in 0 .. Runs /\ Weight[total][x] > 0 /\ Runs \in Nat
    BY Parameters DEF Support
<1>2. /\ 2 * Runs - total \in 0 .. 2 * Runs /\ x \in 0 .. 2 * Runs
      /\ Runs - x \in 0 .. 2 * Runs
    BY <1>1
<1>3. Choose[total][x] \in Nat /\ Choose[2 * Runs - total][Runs - x] \in Nat
    BY <1>2, ChooseFits
<1>4. Weight[total][x] = Choose[total][x] * Choose[2 * Runs - total][Runs - x]
    BY <1>1 DEF Weight
<1>5. \A a, b \in Nat : a * b > 0 => a > 0 /\ b > 0
    OBVIOUS
<1>6. Choose[total][x] > 0 /\ Choose[2 * Runs - total][Runs - x] > 0
    BY <1>1, <1>3, <1>4, <1>5
<1>7. x <= total /\ Runs - x <= 2 * Runs - total
    BY <1>2, <1>6, ChooseFits
<1> QED
    BY <1>1, <1>7

-----------------------------------------------------------------------------
(* The family of the step-down: what the binary search finds is the first  *)
(* size that no more hypotheses can reach (ADR 0014).                      *)

\* A budget or a share.
IsFraction(alpha) == alpha \in Nat \X Nat /\ 0 < alpha[1] /\ alpha[1] < alpha[2]

\* A smaller p-value is within the threshold of a smaller family.
LEMMA AtMostKeeps ==
    ASSUME NEW v \in Nat, NEW u \in Nat, u <= v, NEW l \in Nat, NEW k \in Nat, k <= l,
           NEW alpha, IsFraction(alpha), AtMost(v, alpha, l)
    PROVE  AtMost(u, alpha, k)
<1> DEFINE d == alpha[2]
<1>1. d \in Nat
    BY DEF IsFraction
<1>2. alpha[1] * Tables \in Int
    BY WeightFits DEF IsFraction
<1> HIDE DEF d
<1>3. \A x, y, z \in Nat : x <= y => x * z <= y * z /\ z * x <= z * y
    OBVIOUS
<1>4. u * d <= v * d /\ u * d \in Nat /\ v * d \in Nat
    BY <1>1, <1>3
<1>5. (u * d) * k <= (u * d) * l /\ (u * d) * l <= (v * d) * l
    BY <1>3, <1>4
<1>6. (u * d) * k \in Int /\ (u * d) * l \in Int /\ (v * d) * l \in Int
    BY <1>4
<1> HIDE DEF Tables
<1>7. (v * d) * l <= alpha[1] * Tables
    BY DEF AtMost, d
<1>8. (u * d) * k <= alpha[1] * Tables
    BY <1>2, <1>5, <1>6, <1>7
<1> QED
    BY <1>8 DEF AtMost, d

\* Hypotheses as compare_cases has them.
AreHypotheses(m, S) == IsFiniteSet(S) /\ \A i \in S : m[i] \in Nat

\* Fewer hypotheses reach the threshold of a larger family, and fewer of a part.
LEMMA CanReachIs ==
    ASSUME NEW m, NEW S, AreHypotheses(m, S), NEW alpha, IsFraction(alpha)
    PROVE  /\ \A k \in Nat : /\ CanReach(m, S, alpha, k) \in Nat
                             /\ CanReach(m, S, alpha, k) <= Cardinality(S)
           /\ \A k, l \in Nat : k <= l => CanReach(m, S, alpha, l) <= CanReach(m, S, alpha, k)
           /\ \A P \in SUBSET S : \A k \in Nat :
                  CanReach(m, P, alpha, k) <= CanReach(m, S, alpha, k)
<1> DEFINE Reach(P, k) == {i \in P : AtMost(m[i], alpha, k)}
<1>1. \A P \in SUBSET S : \A k : IsFiniteSet(Reach(P, k)) /\ Cardinality(Reach(P, k)) \in Nat
  <2> TAKE P \in SUBSET S
  <2> TAKE k
  <2>1. Reach(P, k) \in SUBSET S
    OBVIOUS
  <2> QED
    BY <2>1, FS_Subset, FS_CardinalityType DEF AreHypotheses
<1>2. \A k : Cardinality(Reach(S, k)) <= Cardinality(S)
  <2> TAKE k
  <2>1. Reach(S, k) \in SUBSET S
    OBVIOUS
  <2> QED
    BY <2>1, FS_Subset DEF AreHypotheses
<1>3. ASSUME NEW k \in Nat, NEW l \in Nat, k <= l
      PROVE  Cardinality(Reach(S, l)) <= Cardinality(Reach(S, k))
  <2>1. \A i \in S : AtMost(m[i], alpha, l) => AtMost(m[i], alpha, k)
    BY <1>3, AtMostKeeps DEF AreHypotheses
  <2>2. Reach(S, l) \in SUBSET Reach(S, k)
    BY <2>1
  <2>3. IsFiniteSet(Reach(S, k))
    BY <1>1
  <2> HIDE DEF Reach
  <2> QED
    BY <2>2, <2>3, FS_Subset
<1>4. ASSUME NEW P \in SUBSET S, NEW k \in Nat
      PROVE  Cardinality(Reach(P, k)) <= Cardinality(Reach(S, k))
  <2>1. Reach(P, k) \in SUBSET Reach(S, k)
    OBVIOUS
  <2> QED
    BY <1>1, <2>1, FS_Subset
<1> QED
    BY <1>1, <1>2, <1>3, <1>4 DEF CanReach

\* The least number of hypotheses that is no less than those that can reach
\* alpha over it.
IsFamily(K, m, S, alpha) ==
    /\ K \in Nat /\ 1 <= K
    /\ CanReach(m, S, alpha, K) <= K
    /\ \A k \in Nat : 1 <= k /\ CanReach(m, S, alpha, k) <= k => K <= k

\* The binary search's step, g being the search.
SearchStep(g, m, S, alpha) ==
    [low \in 1 .. NumCases + 1 |->
        [high \in 1 .. NumCases + 1 |->
            IF low >= high THEN low
            ELSE LET middle == (low + high) \div 2 IN
                 IF CanReach(m, S, alpha, middle) <= middle
                 THEN g[low][middle] ELSE g[middle + 1][high]]]

\* What it looks for: the first that fits, or the last of all.
IsFirst(f, low, high, m, S, alpha) ==
    /\ f \in low .. high
    /\ f = high \/ CanReach(m, S, alpha, f) <= f
    /\ \A k \in low .. high : k = high \/ CanReach(m, S, alpha, k) <= k => f <= k

\* The binary search may leave out the half that it leaves out.
LEMMA Halves ==
    ASSUME NEW m, NEW S, AreHypotheses(m, S), NEW alpha, IsFraction(alpha),
           NEW low \in Nat, NEW high \in Nat, low < high
    PROVE  LET middle == (low + high) \div 2 IN
           /\ middle \in Nat /\ low <= middle /\ middle < high
           /\ CanReach(m, S, alpha, middle) <= middle =>
                \A f : IsFirst(f, low, middle, m, S, alpha) => IsFirst(f, low, high, m, S, alpha)
           /\ ~(CanReach(m, S, alpha, middle) <= middle) =>
                \A f : IsFirst(f, middle + 1, high, m, S, alpha) => IsFirst(f, low, high, m, S, alpha)
<1> DEFINE middle == (low + high) \div 2
           Reach(k) == CanReach(m, S, alpha, k)
<1>1. middle \in Nat /\ low <= middle /\ middle < high
    OBVIOUS
<1>2. /\ \A k \in Nat : Reach(k) \in Nat
      /\ \A k, l \in Nat : k <= l => Reach(l) <= Reach(k)
    BY CanReachIs
<1> HIDE DEF middle, Reach
<1>3. ASSUME Reach(middle) <= middle, NEW f,
             /\ f \in low .. middle
             /\ f = middle \/ Reach(f) <= f
             /\ \A k \in low .. middle : k = middle \/ Reach(k) <= k => f <= k
      PROVE  /\ f \in low .. high
             /\ f = high \/ Reach(f) <= f
             /\ \A k \in low .. high : k = high \/ Reach(k) <= k => f <= k
  <2>1. f \in Nat /\ f <= middle
    BY <1>1, <1>3
  <2>2. f \in low .. high /\ Reach(f) <= f
    BY <1>1, <1>3, <2>1
  <2>3. \A k \in low .. high : Reach(k) <= k => f <= k
    BY <1>1, <1>3, <2>1
  <2>4. f <= high
    BY <2>2
  <2> QED
    BY <2>2, <2>3, <2>4
<1>4. ASSUME ~(Reach(middle) <= middle), NEW f,
             /\ f \in middle + 1 .. high
             /\ f = high \/ Reach(f) <= f
             /\ \A k \in middle + 1 .. high : k = high \/ Reach(k) <= k => f <= k
      PROVE  /\ f \in low .. high
             /\ f = high \/ Reach(f) <= f
             /\ \A k \in low .. high : k = high \/ Reach(k) <= k => f <= k
  <2>1. f \in low .. high
    BY <1>1, <1>4
  <2>2. ASSUME NEW k \in low .. high, k = high \/ Reach(k) <= k PROVE f <= k
    <3>1. CASE k <= middle
      <4>1. k \in Nat /\ Reach(k) <= k /\ Reach(middle) <= Reach(k)
        BY <1>1, <1>2, <2>2, <3>1
      <4>2. Reach(k) \in Nat /\ Reach(middle) \in Nat
        BY <1>1, <1>2, <4>1
      <4> QED
        BY <1>1, <1>4, <3>1, <4>1, <4>2
    <3>2. CASE ~(k <= middle)
      <4>1. k \in middle + 1 .. high
        BY <1>1, <2>2, <3>2
      <4> QED
        BY <1>4, <2>2, <4>1
    <3> QED
        BY <3>1, <3>2
  <2> QED
    BY <1>4, <2>1, <2>2
<1>5. Reach(middle) <= middle =>
        \A f : IsFirst(f, low, middle, m, S, alpha) => IsFirst(f, low, high, m, S, alpha)
    BY <1>3 DEF IsFirst, Reach
<1>6. ~(Reach(middle) <= middle) =>
        \A f : IsFirst(f, middle + 1, high, m, S, alpha) => IsFirst(f, low, high, m, S, alpha)
    BY <1>4 DEF IsFirst, Reach
<1> QED
    BY <1>1, <1>5, <1>6 DEF middle, Reach

\* There is one family size that the search looks for.
LEMMA FirstExists ==
    ASSUME NEW m, NEW S, NEW alpha, NEW low \in Nat, NEW high \in Nat, low <= high
    PROVE  \E f : /\ IsFirst(f, low, high, m, S, alpha)
                  /\ \A e : IsFirst(e, low, high, m, S, alpha) => e = f
<1> DEFINE T == {k \in low .. high : k = high \/ CanReach(m, S, alpha, k) <= k}
<1>1. T \subseteq Nat /\ high \in T
    OBVIOUS
<1>2. PICK f \in T : \A k \in T : f <= k
    BY <1>1, Least
<1>3. IsFirst(f, low, high, m, S, alpha)
    BY <1>2 DEF IsFirst
<1>4. ASSUME NEW e, IsFirst(e, low, high, m, S, alpha) PROVE e = f
  <2>1. e \in T /\ \A k \in T : e <= k
    BY <1>4 DEF IsFirst
  <2>2. e <= f /\ f <= e /\ e \in Nat /\ f \in Nat
    BY <1>1, <1>2, <2>1
  <2> QED
    BY <2>2
<1> QED
    BY <1>3, <1>4

\* The table of searches exists, by the least range without one.
LEMMA SearchExists ==
    ASSUME NEW m, NEW S, AreHypotheses(m, S), NEW alpha, IsFraction(alpha)
    PROVE  \E g : g = SearchStep(g, m, S, alpha)
<1> DEFINE N == NumCases + 1
           First(low, high) == CHOOSE f : IsFirst(f, low, high, m, S, alpha)
           G == [low \in 1 .. N |-> [high \in 1 .. N |-> IF low >= high THEN low ELSE First(low, high)]]
<1>1. N \in Nat /\ 1 .. N \subseteq Nat
    BY Parameters
<1>2. ASSUME NEW low \in Nat, NEW high \in Nat, low <= high
      PROVE  /\ IsFirst(First(low, high), low, high, m, S, alpha)
             /\ \A e : IsFirst(e, low, high, m, S, alpha) => First(low, high) = e
    BY <1>2, FirstExists
<1>3. \A low \in Nat : First(low, low) = low
  <2> TAKE low \in Nat
  <2>1. IsFirst(low, low, low, m, S, alpha)
    BY DEF IsFirst
  <2> HIDE DEF First
  <2> QED
    BY <1>2, <2>1
<1> HIDE DEF First
<1>4. \A low, high \in 1 .. N : low <= high => G[low][high] = First(low, high)
  <2> TAKE low \in 1 .. N, high \in 1 .. N
  <2>1. low = high => First(low, high) = low
    BY <1>1, <1>3
  <2> QED
    BY <1>1, <2>1
<1>5. \A low, high \in 1 .. N : low >= high => G[low][high] = low
    OBVIOUS
<1>6. G = [low \in 1 .. N |-> G[low]] /\ \A low \in 1 .. N : G[low] = [high \in 1 .. N |-> G[low][high]]
    OBVIOUS
<1> HIDE DEF G
<1>7. ASSUME NEW low \in 1 .. N, NEW high \in 1 .. N, low < high
      PROVE  LET middle == (low + high) \div 2 IN
             G[low][high] = IF CanReach(m, S, alpha, middle) <= middle
                            THEN G[low][middle] ELSE G[middle + 1][high]
  <2> DEFINE middle == (low + high) \div 2
             fits == CanReach(m, S, alpha, middle) <= middle
  <2>1. low \in Nat /\ high \in Nat /\ low <= high
    BY <1>1, <1>7
  <2>2. /\ middle \in Nat /\ low <= middle /\ middle < high
        /\ fits => \A f : IsFirst(f, low, middle, m, S, alpha) => IsFirst(f, low, high, m, S, alpha)
        /\ ~fits => \A f : IsFirst(f, middle + 1, high, m, S, alpha) => IsFirst(f, low, high, m, S, alpha)
    BY <1>7, <2>1, Halves
  <2> HIDE DEF middle
  <2>3. middle \in 1 .. N /\ middle + 1 \in 1 .. N /\ middle + 1 <= high /\ middle + 1 \in Nat
    BY <1>1, <2>1, <2>2
  <2>4. /\ G[low][high] = First(low, high)
        /\ G[low][middle] = First(low, middle)
        /\ G[middle + 1][high] = First(middle + 1, high)
    BY <1>4, <2>1, <2>2, <2>3
  <2>5. /\ IsFirst(First(low, middle), low, middle, m, S, alpha)
        /\ IsFirst(First(middle + 1, high), middle + 1, high, m, S, alpha)
    BY <1>2, <2>1, <2>2, <2>3
  <2>6. fits => First(low, high) = First(low, middle)
    BY <1>2, <2>1, <2>2, <2>5
  <2>7. ~fits => First(low, high) = First(middle + 1, high)
    BY <1>2, <2>1, <2>2, <2>5
  <2>8. G[low][high] = IF fits THEN G[low][middle] ELSE G[middle + 1][high]
    BY <2>4, <2>6, <2>7
  <2> QED
    BY <2>8 DEF middle
<1>8. \A low, high \in 1 .. N : G[low][high] = SearchStep(G, m, S, alpha)[low][high]
  <2> TAKE low \in 1 .. N, high \in 1 .. N
  <2>1. low >= high \/ low < high
    BY <1>1
  <2> QED
    BY <1>1, <1>5, <1>7, <2>1 DEF SearchStep
<1>9. G = SearchStep(G, m, S, alpha)
  <2>1. \A low \in 1 .. N : G[low] = SearchStep(G, m, S, alpha)[low]
    BY <1>6, <1>8 DEF SearchStep
  <2> QED
    BY <1>6, <2>1 DEF SearchStep
<1> QED
    BY <1>9

\* Every search finds the first family size of its range.
LEMMA SearchFinds ==
    ASSUME NEW m, NEW S, AreHypotheses(m, S), NEW alpha, IsFraction(alpha),
           NEW g, g = SearchStep(g, m, S, alpha)
    PROVE  \A low, high \in 1 .. NumCases + 1 :
              low <= high => IsFirst(g[low][high], low, high, m, S, alpha)
<1> DEFINE N == NumCases + 1
           T == {d \in Nat : \E low, high \in 1 .. N :
                    low <= high /\ d = high - low /\ ~IsFirst(g[low][high], low, high, m, S, alpha)}
<1>1. N \in Nat /\ 1 .. N \subseteq Nat
    BY Parameters
<1>2. T = {}
  <2> SUFFICES ASSUME T # {} PROVE FALSE
    OBVIOUS
  <2>1. PICK d \in T : \A e \in T : d <= e
    BY Least
  <2>2. PICK low \in 1 .. N, high \in 1 .. N :
            low <= high /\ d = high - low /\ ~IsFirst(g[low][high], low, high, m, S, alpha)
    BY <2>1
  <2>3. low \in Nat /\ high \in Nat /\ d \in Nat
    BY <1>1, <2>1
  <2> DEFINE middle == (low + high) \div 2
             fits == CanReach(m, S, alpha, middle) <= middle
  <2>4. g[low][high] = IF low >= high THEN low ELSE IF fits THEN g[low][middle] ELSE g[middle + 1][high]
    BY DEF SearchStep
  <2>5. low < high
    <3> SUFFICES ASSUME ~(low < high) PROVE FALSE
        OBVIOUS
    <3>1. low = high /\ g[low][high] = low
        BY <2>2, <2>3, <2>4
    <3> QED
        BY <2>2, <2>3, <3>1 DEF IsFirst
  <2>6. /\ middle \in Nat /\ low <= middle /\ middle < high
        /\ fits => \A f : IsFirst(f, low, middle, m, S, alpha) => IsFirst(f, low, high, m, S, alpha)
        /\ ~fits => \A f : IsFirst(f, middle + 1, high, m, S, alpha) => IsFirst(f, low, high, m, S, alpha)
    BY <2>3, <2>5, Halves
  <2> HIDE DEF middle
  <2>7. middle \in 1 .. N /\ middle + 1 \in 1 .. N /\ middle + 1 <= high
    BY <1>1, <2>3, <2>6
  <2>8. ASSUME NEW a \in 1 .. N, NEW b \in 1 .. N, a <= b, b - a < d
        PROVE  IsFirst(g[a][b], a, b, m, S, alpha)
    <3>1. b - a \in Nat /\ ~(d <= b - a)
        BY <1>1, <2>3, <2>8
    <3>2. b - a \notin T
        BY <2>1, <3>1
    <3> QED
        BY <2>8, <3>1, <3>2
  <2>9. IsFirst(g[low][middle], low, middle, m, S, alpha)
    <3>1. middle - low < d
        BY <2>2, <2>3, <2>6
    <3> QED
        BY <2>6, <2>7, <2>8, <3>1
  <2>10. IsFirst(g[middle + 1][high], middle + 1, high, m, S, alpha)
    <3>1. high - (middle + 1) < d
        BY <2>2, <2>3, <2>6
    <3> QED
        BY <2>6, <2>7, <2>8, <3>1
  <2>11. ~(low >= high)
    BY <2>3, <2>5
  <2> QED
    BY <2>2, <2>4, <2>6, <2>9, <2>10, <2>11
<1>3. ASSUME NEW low \in 1 .. N, NEW high \in 1 .. N, low <= high
      PROVE  IsFirst(g[low][high], low, high, m, S, alpha)
  <2>1. high - low \in Nat
    BY <1>1, <1>3
  <2>2. high - low \notin T
    BY <1>2
  <2> QED
    BY <1>3, <2>1, <2>2
<1> QED
    BY <1>3

\* The binary search finds the family that ADR 0014 defines.
LEMMA FamilySizeIs ==
    ASSUME NEW m, NEW S, AreHypotheses(m, S), Cardinality(S) <= NumCases,
           NEW alpha, IsFraction(alpha)
    PROVE  IsFamily(FamilySize(m, S, alpha), m, S, alpha)
<1> DEFINE most == Max({1, Cardinality(S)})
           Search == CHOOSE g : g = SearchStep(g, m, S, alpha)
           K == Search[1][most]
<1>1. FamilySize(m, S, alpha) = K
    BY DEF FamilySize, SearchStep
<1>2. Search = SearchStep(Search, m, S, alpha)
    BY SearchExists
<1>3. Cardinality(S) \in Nat
    BY FS_CardinalityType DEF AreHypotheses
<1>4. most \in {1, Cardinality(S)} /\ most >= 1 /\ most >= Cardinality(S)
  <2> DEFINE T == {1, Cardinality(S)}
  <2>1. \E x \in T : \A y \in T : x >= y
    BY <1>3
  <2>2. Max(T) \in T /\ \A y \in T : Max(T) >= y
    BY <2>1 DEF Max
  <2> QED
    BY <2>2
<1> HIDE DEF most, Search
<1>5. most \in 1 .. NumCases + 1 /\ 1 \in 1 .. NumCases + 1 /\ most \in Nat
    BY <1>3, <1>4, Parameters
<1>6. IsFirst(K, 1, most, m, S, alpha)
    BY <1>2, <1>4, <1>5, SearchFinds
<1> HIDE DEF K
<1>7. /\ \A k \in Nat : CanReach(m, S, alpha, k) \in Nat /\ CanReach(m, S, alpha, k) <= Cardinality(S)
    BY CanReachIs
<1>8. CanReach(m, S, alpha, most) <= most
  <2>1. /\ CanReach(m, S, alpha, most) \in Nat
        /\ CanReach(m, S, alpha, most) <= Cardinality(S)
    BY <1>5, <1>7
  <2> QED
    BY <1>3, <1>4, <1>5, <2>1
<1>9. K \in Nat /\ 1 <= K /\ K <= most /\ CanReach(m, S, alpha, K) <= K
    BY <1>5, <1>6, <1>8 DEF IsFirst
<1>10. ASSUME NEW k \in Nat, 1 <= k, CanReach(m, S, alpha, k) <= k PROVE K <= k
  <2>1. CASE k <= most
    <3>1. k \in 1 .. most
        BY <1>5, <1>10, <2>1
    <3> QED
        BY <1>6, <1>10, <3>1 DEF IsFirst
  <2>2. CASE ~(k <= most)
    BY <1>5, <1>9, <2>2
  <2> QED
    BY <2>1, <2>2
<1> QED
    BY <1>1, <1>9, <1>10 DEF IsFamily

\* A family of fewer hypotheses is no larger, and hypotheses that reach nothing
\* count for nothing.
LEMMA FamilyGrows ==
    ASSUME NEW m, NEW S, AreHypotheses(m, S), NEW P \in SUBSET S, NEW alpha, IsFraction(alpha),
           NEW K, IsFamily(K, m, S, alpha), NEW L, IsFamily(L, m, P, alpha)
    PROVE  L <= K
<1>1. CanReach(m, P, alpha, K) <= CanReach(m, S, alpha, K) /\ CanReach(m, S, alpha, K) \in Nat
    BY CanReachIs DEF IsFamily
<1>2. AreHypotheses(m, P)
    BY FS_Subset DEF AreHypotheses
<1>3. CanReach(m, P, alpha, K) \in Nat
    BY <1>2, CanReachIs DEF IsFamily
<1>4. CanReach(m, P, alpha, K) <= K
    BY <1>1, <1>3 DEF IsFamily
<1> QED
    BY <1>4 DEF IsFamily

\* A family is never larger than the hypotheses it is of.
LEMMA FamilyIsSmall ==
    ASSUME NEW m, NEW S, AreHypotheses(m, S), S # {}, NEW alpha, IsFraction(alpha),
           NEW K, IsFamily(K, m, S, alpha)
    PROVE  K <= Cardinality(S)
<1>1. Cardinality(S) \in Nat /\ Cardinality(S) # 0
    BY FS_CardinalityType, FS_EmptySet DEF AreHypotheses
<1>2. CanReach(m, S, alpha, Cardinality(S)) <= Cardinality(S)
    BY <1>1, CanReachIs
<1> QED
    BY <1>1, <1>2 DEF IsFamily

\* The family depends on how many reach each threshold alone.
LEMMA SameFamily ==
    ASSUME NEW m, NEW S, NEW P, NEW alpha,
           \A k \in Nat : 1 <= k => CanReach(m, S, alpha, k) = CanReach(m, P, alpha, k),
           NEW K, IsFamily(K, m, S, alpha), NEW L, IsFamily(L, m, P, alpha)
    PROVE  K = L
<1>1. CanReach(m, S, alpha, L) <= L /\ CanReach(m, P, alpha, K) <= K
    BY DEF IsFamily
<1>2. K <= L /\ L <= K /\ K \in Nat /\ L \in Nat
    BY <1>1 DEF IsFamily
<1> QED
    BY <1>2

-----------------------------------------------------------------------------
(* What the step-down rejects: said without an order, so that ties and the *)
(* order of the suite decide nothing, and a superset of what Holm rejects. *)

\* An order of the hypotheses D by p-value, ties in any way.
SortsBy(order, p, D) ==
    LET n == Cardinality(D) IN
    /\ order \in [1 .. n -> D]
    /\ \A x \in D : \E k \in 1 .. n : order[k] = x
    /\ \A i, j \in 1 .. n : order[i] = order[j] => i = j
    /\ \A i, j \in 1 .. n : i < j => p[order[i]] <= p[order[j]]

\* Sorting by an order in which p never falls.
LEMMA OrderedSorts ==
    ASSUME NEW D, IsFiniteSet(D), NEW p, NEW before, IsStrictOrder(before, D),
           \A x, y \in D : <<x, y>> \in before => p[x] <= p[y]
    PROVE  SortsBy(Ordered(D, before), p, D)
<1> DEFINE n == Cardinality(D)
           order == Ordered(D, before)
<1>1. /\ n \in Nat
      /\ order \in [1 .. n -> D]
      /\ \A x \in D : \E k \in 1 .. n : order[k] = x
      /\ \A i, j \in 1 .. n : order[i] = order[j] => i = j
      /\ \A k \in 1 .. n : Cardinality(Below(D, before, order[k])) = k - 1
    BY OrderedIs
<1> HIDE DEF order
<1>2. ASSUME NEW i \in 1 .. n, NEW j \in 1 .. n, i < j PROVE p[order[i]] <= p[order[j]]
  <2>1. order[i] \in D /\ order[j] \in D /\ order[i] # order[j]
    BY <1>1, <1>2
  <2>2. <<order[j], order[i]>> \notin before
    <3> SUFFICES ASSUME <<order[j], order[i]>> \in before PROVE FALSE
        OBVIOUS
    <3>1. Cardinality(Below(D, before, order[j])) < Cardinality(Below(D, before, order[i]))
        BY <2>1, Ranks
    <3>2. j - 1 < i - 1
        BY <1>1, <3>1
    <3> QED
        BY <1>1, <1>2, <3>2
  <2> QED
    BY <2>1, <2>2 DEF IsStrictOrder
<1> QED
    BY <1>1, <1>2 DEF SortsBy, order

\* The order of the step-down sorts by p-value.
LEMMA OrderSorts ==
    ASSUME NEW D, IsFiniteSet(D), D \subseteq Int, NEW p, DOMAIN p = D, \A i \in D : p[i] \in Nat
    PROVE  SortsBy(Order(p), p, D)
<1> DEFINE before == {q \in D \X D : p[q[1]] < p[q[2]] \/ (p[q[1]] = p[q[2]] /\ q[1] < q[2])}
<1>1. \A x, y \in D : <<x, y>> \in before <=> p[x] < p[y] \/ (p[x] = p[y] /\ x < y)
    OBVIOUS
<1>2. Order(p) = Ordered(D, before)
    BY DEF Order
<1> HIDE DEF before
<1>3. IsStrictOrder(before, D)
  <2>1. \A x \in D : p[x] \in Int /\ x \in Int
    OBVIOUS
  <2> QED
    BY <1>1, <2>1 DEF IsStrictOrder
<1>4. \A x, y \in D : <<x, y>> \in before => p[x] <= p[y]
    BY <1>1
<1> QED
    BY <1>2, <1>3, <1>4, OrderedSorts

\* The other way round for ties.
LEMMA BackwardsSorts ==
    ASSUME NEW D, IsFiniteSet(D), D \subseteq Int, NEW p, \A i \in D : p[i] \in Nat
    PROVE  SortsBy(Ordered(D, {q \in D \X D :
                      p[q[1]] < p[q[2]] \/ (p[q[1]] = p[q[2]] /\ q[1] > q[2])}), p, D)
<1> DEFINE before == {q \in D \X D : p[q[1]] < p[q[2]] \/ (p[q[1]] = p[q[2]] /\ q[1] > q[2])}
<1>1. \A x, y \in D : <<x, y>> \in before <=> p[x] < p[y] \/ (p[x] = p[y] /\ x > y)
    OBVIOUS
<1> HIDE DEF before
<1>2. IsStrictOrder(before, D)
  <2>1. \A x \in D : p[x] \in Int /\ x \in Int
    OBVIOUS
  <2> QED
    BY <1>1, <2>1 DEF IsStrictOrder
<1>3. \A x, y \in D : <<x, y>> \in before => p[x] <= p[y]
    BY <1>1
<1>4. SortsBy(Ordered(D, before), p, D)
    BY <1>2, <1>3, OrderedSorts
<1> QED
    BY <1>4 DEF before

\* The hypotheses with a p-value no smaller.
AtLeast(p, D, value) == {l \in D : p[l] >= value}

\* What the step-down rejects, whatever order ties are in: those whose p-value,
\* and every smaller one, is within alpha over the family of what is no smaller.
Passing(p, m, alpha, D) ==
    {i \in D : \A j \in D : p[j] <= p[i] =>
        AtMost(p[j], alpha, FamilySize(m, AtLeast(p, D, p[j]), alpha))}

\* Hypotheses as the step-down is given them: no p-value below the smallest
\* that its hypothesis can reach.
AreTests(p, m, D, alpha) ==
    /\ AreHypotheses(m, D) /\ Cardinality(D) <= NumCases /\ IsFraction(alpha)
    /\ \A i \in D : p[i] \in Nat /\ m[i] <= p[i]

\* What is left at any step has its family.
LEMMA PartIsFamily ==
    ASSUME NEW p, NEW m, NEW D, NEW alpha, AreTests(p, m, D, alpha), NEW S, S \subseteq D
    PROVE  AreHypotheses(m, S) /\ IsFamily(FamilySize(m, S, alpha), m, S, alpha)
<1>1. /\ IsFiniteSet(D) /\ Cardinality(D) <= NumCases /\ IsFraction(alpha)
      /\ Cardinality(D) \in Nat
    BY FS_CardinalityType DEF AreTests, AreHypotheses
<1>2. IsFiniteSet(S) /\ Cardinality(S) <= Cardinality(D) /\ Cardinality(S) \in Nat
    BY <1>1, FS_Subset, FS_CardinalityType
<1>3. AreHypotheses(m, S) /\ Cardinality(S) <= NumCases
    BY <1>1, <1>2, Parameters DEF AreTests, AreHypotheses
<1> QED
    BY <1>1, <1>3, FamilySizeIs

\* However ties are sorted, the step-down rejects the same hypotheses.
LEMMA RejectedIs ==
    ASSUME NEW p, NEW m, NEW D, NEW alpha, AreTests(p, m, D, alpha),
           NEW order, SortsBy(order, p, D)
    PROVE  Rejected(p, m, order, alpha) = Passing(p, m, alpha, D)
<1> DEFINE n == Cardinality(D)
           rest(s) == {order[i] : i \in s .. n}
<1>1. n \in Nat
    BY FS_CardinalityType DEF AreTests, AreHypotheses
<1>2. /\ order \in [1 .. n -> D]
      /\ \A x \in D : \E k \in 1 .. n : order[k] = x
      /\ \A i, j \in 1 .. n : order[i] = order[j] => i = j
      /\ \A i, j \in 1 .. n : i < j => p[order[i]] <= p[order[j]]
    BY DEF SortsBy
<1>3. Len(order) = n /\ DOMAIN order = 1 .. n
    BY <1>1, <1>2
<1>4. \A s : Holds(p, m, order, alpha, s) <=> AtMost(p[order[s]], alpha, FamilySize(m, rest(s), alpha))
    BY <1>3 DEF Holds
<1>5. \A i \in D : p[i] \in Nat
    BY DEF AreTests
<1> HIDE DEF n
<1>6. ASSUME NEW t \in 1 .. n, \A s \in 1 .. t : Holds(p, m, order, alpha, s)
      PROVE  order[t] \in Passing(p, m, alpha, D)
  <2>1. order[t] \in D
    BY <1>2
  <2>2. ASSUME NEW j \in D, p[j] <= p[order[t]]
        PROVE  AtMost(p[j], alpha, FamilySize(m, AtLeast(p, D, p[j]), alpha))
    <3> DEFINE Same == {k \in 1 .. n : p[order[k]] = p[j]}
    <3>1. Same \subseteq Nat /\ Same # {}
        BY <1>1, <1>2
    <3>2. PICK s \in Same : \A k \in Same : s <= k
        BY <3>1, Least
    <3>3. s \in 1 .. n /\ p[order[s]] = p[j]
        OBVIOUS
    <3>4. s <= t
      <4> SUFFICES ASSUME t < s PROVE FALSE
        BY <1>1, <3>3
      <4>1. p[order[t]] <= p[order[s]]
        BY <1>2, <3>3
      <4>2. p[order[t]] = p[j]
        BY <1>2, <1>5, <2>2, <3>3, <4>1
      <4> QED
        BY <1>1, <3>2, <3>3, <4>2
    <3>5. rest(s) = AtLeast(p, D, p[j])
      <4>1. ASSUME NEW i \in s .. n PROVE order[i] \in D /\ p[order[i]] >= p[j]
        <5>1. i \in 1 .. n /\ (i = s \/ s < i)
            BY <1>1, <3>3
        <5>2. p[order[s]] <= p[order[i]]
            BY <1>2, <1>5, <3>3, <5>1
        <5> QED
            BY <1>2, <1>5, <3>3, <5>1, <5>2
      <4>2. ASSUME NEW l \in D, p[l] >= p[j] PROVE \E i \in s .. n : order[i] = l
        <5>1. PICK k \in 1 .. n : order[k] = l
            BY <1>2
        <5>2. s <= k
          <6> SUFFICES ASSUME k < s PROVE FALSE
            BY <1>1, <3>3
          <6>1. p[l] <= p[j]
            BY <1>2, <3>3, <5>1
          <6>2. p[order[k]] = p[j]
            BY <1>5, <4>2, <5>1, <6>1
          <6> QED
            BY <1>1, <3>2, <3>3, <6>2
        <5> QED
            BY <1>1, <3>3, <5>1, <5>2
      <4> QED
        BY <4>1, <4>2 DEF AtLeast
    <3>6. s \in 1 .. t
        BY <1>1, <3>3, <3>4
    <3>7. AtMost(p[order[s]], alpha, FamilySize(m, rest(s), alpha))
        BY <1>4, <1>6, <3>6
    <3> HIDE DEF Same, rest
    <3> QED
        BY <3>3, <3>5, <3>7
  <2> QED
    BY <2>1, <2>2 DEF Passing
<1>7. ASSUME NEW t \in 1 .. n, order[t] \in Passing(p, m, alpha, D), NEW s \in 1 .. t
      PROVE  Holds(p, m, order, alpha, s)
  <2> DEFINE j == order[s]
             U == AtLeast(p, D, p[j])
  <2>1. s \in 1 .. n /\ (s < t \/ s = t) /\ t \in 1 .. n
    BY <1>1, <1>7
  <2>2. j \in D /\ order[t] \in D
    BY <1>2, <2>1
  <2>3. p[j] <= p[order[t]]
    BY <1>2, <1>5, <2>1, <2>2
  <2>4. AtMost(p[j], alpha, FamilySize(m, U, alpha))
    BY <1>7, <2>2, <2>3 DEF Passing
  <2>5. rest(s) \subseteq U
    <3> SUFFICES ASSUME NEW i \in s .. n PROVE order[i] \in D /\ p[order[i]] >= p[j]
        BY DEF AtLeast
    <3>1. i \in 1 .. n /\ (i = s \/ s < i)
        BY <1>1, <2>1
    <3> QED
        BY <1>2, <1>5, <2>1, <2>2, <3>1
  <2>6. U \subseteq D
    BY DEF AtLeast
  <2> DEFINE K == FamilySize(m, U, alpha)
             L == FamilySize(m, rest(s), alpha)
  <2>7. rest(s) \in SUBSET U /\ rest(s) \subseteq D
    BY <2>5, <2>6
  <2> HIDE DEF j, U, rest
  <2>8. /\ AreHypotheses(m, U) /\ IsFamily(K, m, U, alpha)
        /\ IsFamily(L, m, rest(s), alpha)
    BY <2>6, <2>7, PartIsFamily
  <2>9. IsFraction(alpha)
    BY DEF AreTests
  <2> HIDE DEF K, L
  <2>10. L <= K
    BY <2>7, <2>8, <2>9, FamilyGrows
  <2>11. L \in Nat /\ K \in Nat
    BY <2>8 DEF IsFamily
  <2>12. p[j] \in Nat /\ p[j] <= p[j]
    BY <1>5, <2>2
  <2>13. AtMost(p[j], alpha, L)
    BY <2>4, <2>9, <2>10, <2>11, <2>12, AtMostKeeps DEF K
  <2> QED
    BY <1>4, <2>13 DEF L, j
<1>8. ASSUME NEW i \in Rejected(p, m, order, alpha) PROVE i \in Passing(p, m, alpha, D)
  <2>1. PICK t \in DOMAIN order : i = order[t] /\ \A s \in 1 .. t : Holds(p, m, order, alpha, s)
    BY DEF Rejected
  <2> QED
    BY <1>3, <1>6, <2>1
<1>9. ASSUME NEW i \in Passing(p, m, alpha, D) PROVE i \in Rejected(p, m, order, alpha)
  <2>1. i \in D
    BY DEF Passing
  <2>2. PICK t \in 1 .. n : order[t] = i
    BY <1>2, <2>1
  <2>3. \A s \in 1 .. t : Holds(p, m, order, alpha, s)
    BY <1>7, <2>2
  <2> QED
    BY <1>3, <2>2, <2>3 DEF Rejected
<1> QED
    BY <1>8, <1>9

\* Holm's divisor is never below that of the step-down.
LEMMA HolmIsKept ==
    ASSUME NEW p, NEW m, NEW D, AreTests(p, m, D, CasesAlpha),
           NEW order, SortsBy(order, p, D)
    PROVE  HolmRejected(p, order) \subseteq Rejected(p, m, order, CasesAlpha)
<1> DEFINE n == Cardinality(D)
           rest(s) == {order[i] : i \in s .. n}
           alpha == CasesAlpha
<1>1. n \in Nat
    BY FS_CardinalityType DEF AreTests, AreHypotheses
<1>2. order \in [1 .. n -> D] /\ \A i, j \in 1 .. n : order[i] = order[j] => i = j
    BY DEF SortsBy
<1>3. Len(order) = n /\ DOMAIN order = 1 .. n
    BY <1>1, <1>2
<1>4. IsFraction(alpha) /\ \A i \in D : p[i] \in Nat
    BY DEF AreTests
<1> HIDE DEF n, alpha
<1>5. ASSUME NEW s \in 1 .. n, AtMost(p[order[s]], alpha, n - s + 1)
      PROVE  AtMost(p[order[s]], alpha, FamilySize(m, rest(s), alpha))
  <2>1. rest(s) \subseteq D /\ order[s] \in rest(s)
    BY <1>1, <1>2
  <2>2. IsFiniteSet(rest(s)) /\ Cardinality(rest(s)) = n - s + 1
    <3> DEFINE f == [i \in s .. n |-> order[i]]
               I == s .. n
    <3>1. IsFiniteSet(I) /\ Cardinality(I) = n - s + 1
        BY <1>1, FS_Interval
    <3>2. DOMAIN f = I /\ \A x, y \in I : f[x] = f[y] => x = y
        BY <1>1, <1>2
    <3>3. (\A x \in I : f[x] \in rest(s)) /\ \A t \in rest(s) : \E x \in I : f[x] = t
        OBVIOUS
    <3> HIDE DEF f, I, rest
    <3> QED
        BY <3>1, <3>2, <3>3, ImageCount
  <2> DEFINE K == FamilySize(m, rest(s), alpha)
  <2> HIDE DEF rest
  <2>3. AreHypotheses(m, rest(s)) /\ IsFamily(K, m, rest(s), alpha)
    BY <2>1, PartIsFamily DEF alpha
  <2>4. K <= n - s + 1 /\ K \in Nat /\ n - s + 1 \in Nat
    <3>1. n - s + 1 \in Nat
        BY <1>1
    <3>2. rest(s) # {}
        BY <2>1
    <3> HIDE DEF K
    <3>3. K <= Cardinality(rest(s))
        BY <1>4, <2>3, <3>2, FamilyIsSmall
    <3> QED
        BY <2>2, <2>3, <3>1, <3>3 DEF IsFamily
  <2>5. p[order[s]] \in Nat /\ p[order[s]] <= p[order[s]]
    BY <1>2, <1>4
  <2> HIDE DEF K
  <2>6. AtMost(p[order[s]], alpha, K)
    BY <1>4, <1>5, <2>4, <2>5, AtMostKeeps
  <2> QED
    BY <2>6 DEF K
<1>6. \A s : Holds(p, m, order, alpha, s) <=> AtMost(p[order[s]], alpha, FamilySize(m, rest(s), alpha))
    BY <1>3 DEF Holds
<1> HIDE DEF rest
<1>7. ASSUME NEW x \in HolmRejected(p, order) PROVE x \in Rejected(p, m, order, alpha)
  <2>1. PICK t \in 1 .. n : x = order[t] /\ \A s \in 1 .. t : AtMost(p[order[s]], alpha, n - s + 1)
    BY <1>3 DEF HolmRejected, alpha
  <2>2. \A s \in 1 .. t : s \in 1 .. n
    BY <1>1
  <2>3. \A s \in 1 .. t : Holds(p, m, order, alpha, s)
    BY <1>5, <1>6, <2>1, <2>2
  <2> QED
    BY <1>3, <2>1, <2>3 DEF Rejected
<1> QED
    BY <1>7 DEF alpha

\* A hypothesis that reaches no level reaches no level over a family.
LEMMA OutOfReach ==
    ASSUME NEW value \in Nat, value >= Tables, NEW alpha, IsFraction(alpha),
           NEW k \in Nat, 1 <= k
    PROVE  ~AtMost(value, alpha, k)
<1> SUFFICES ASSUME AtMost(value, alpha, k) PROVE FALSE
    OBVIOUS
<1> DEFINE a == alpha[1]
           d == alpha[2]
           T == Tables
<1>1. a \in Nat /\ d \in Nat /\ a < d /\ T \in Nat /\ T > 0
    BY WeightFits DEF IsFraction
<1>2. AtMost(T, alpha, 1)
    BY <1>1, AtMostKeeps
<1> HIDE DEF T, a, d
<1>3. T * d * 1 <= a * T
    BY <1>2 DEF AtMost, T, a, d
<1>4. T * d * 1 = T * d /\ T * d \in Int /\ a * T = T * a
    BY <1>1
<1>5. \A x, y, z \in Nat : x > 0 /\ y < z => x * y < x * z
    OBVIOUS
<1>6. T * a < T * d /\ T * a \in Int
    BY <1>1, <1>5
<1> QED
    BY <1>3, <1>4, <1>6

\* A case that could never be significant takes nothing from the others.
LEMMA PossibleDecide ==
    ASSUME NEW p, NEW m, NEW D, NEW alpha, AreTests(p, m, D, alpha)
    PROVE  Passing(p, m, alpha, {i \in D : m[i] < Tables}) = Passing(p, m, alpha, D)
<1> DEFINE P == {i \in D : m[i] < Tables}
<1>1. Tables \in Nat /\ IsFraction(alpha)
    BY WeightFits DEF AreTests
<1>2. \A i \in D : p[i] \in Nat /\ m[i] \in Nat /\ m[i] <= p[i]
    BY DEF AreTests, AreHypotheses
<1>3. P \subseteq D /\ \A i \in D : i \notin P => m[i] >= Tables /\ p[i] >= Tables
    BY <1>1, <1>2
<1>4. \A value : AtLeast(p, P, value) = AtLeast(p, D, value) \cap P
    BY DEF AtLeast
<1> HIDE DEF P
<1>5. ASSUME NEW S, S \subseteq D
      PROVE  FamilySize(m, S, alpha) = FamilySize(m, S \cap P, alpha)
  <2>1. ASSUME NEW k \in Nat, 1 <= k
        PROVE  CanReach(m, S, alpha, k) = CanReach(m, S \cap P, alpha, k)
    <3>1. \A i \in S : i \notin P => ~AtMost(m[i], alpha, k)
        BY <1>1, <1>2, <1>3, <1>5, <2>1, OutOfReach
    <3>2. {i \in S : AtMost(m[i], alpha, k)} = {i \in S \cap P : AtMost(m[i], alpha, k)}
        BY <3>1
    <3> QED
        BY <3>2 DEF CanReach
  <2> DEFINE Q == S \cap P
  <2>2. Q \subseteq D
    BY <1>5
  <2>3. \A k \in Nat : 1 <= k => CanReach(m, S, alpha, k) = CanReach(m, Q, alpha, k)
    BY <2>1
  <2> HIDE DEF Q
  <2>4. /\ IsFamily(FamilySize(m, S, alpha), m, S, alpha)
        /\ IsFamily(FamilySize(m, Q, alpha), m, Q, alpha)
    BY <1>5, <2>2, PartIsFamily
  <2>5. FamilySize(m, S, alpha) = FamilySize(m, Q, alpha)
    BY <2>3, <2>4, SameFamily
  <2> QED
    BY <2>5 DEF Q
<1>6. ASSUME NEW j \in D
      PROVE  FamilySize(m, AtLeast(p, P, p[j]), alpha) = FamilySize(m, AtLeast(p, D, p[j]), alpha)
  <2>1. AtLeast(p, D, p[j]) \subseteq D
    BY DEF AtLeast
  <2> QED
    BY <1>4, <1>5, <2>1
<1>7. ASSUME NEW j \in D, NEW value, AtMost(p[j], alpha, FamilySize(m, AtLeast(p, D, value), alpha))
      PROVE  p[j] < Tables
  <2>1. AtLeast(p, D, value) \subseteq D
    BY DEF AtLeast
  <2>2. IsFamily(FamilySize(m, AtLeast(p, D, value), alpha), m, AtLeast(p, D, value), alpha)
    BY <2>1, PartIsFamily
  <2>3. /\ FamilySize(m, AtLeast(p, D, value), alpha) \in Nat
        /\ 1 <= FamilySize(m, AtLeast(p, D, value), alpha)
    BY <2>2 DEF IsFamily
  <2>4. ~(p[j] >= Tables)
    BY <1>1, <1>2, <1>7, <2>3, OutOfReach
  <2> QED
    BY <1>1, <1>2, <2>4
<1>8. ASSUME NEW i \in Passing(p, m, alpha, D) PROVE i \in Passing(p, m, alpha, P)
  <2>1. i \in D /\ \A j \in D : p[j] <= p[i] =>
            AtMost(p[j], alpha, FamilySize(m, AtLeast(p, D, p[j]), alpha))
    BY DEF Passing
  <2>2. p[i] < Tables
    BY <1>2, <1>7, <2>1
  <2>3. i \in P
    BY <1>1, <1>2, <1>3, <2>1, <2>2
  <2> QED
    BY <1>3, <1>6, <2>1, <2>3 DEF Passing
<1>9. ASSUME NEW i \in Passing(p, m, alpha, P) PROVE i \in Passing(p, m, alpha, D)
  <2>1. i \in P /\ i \in D /\ \A j \in P : p[j] <= p[i] =>
            AtMost(p[j], alpha, FamilySize(m, AtLeast(p, P, p[j]), alpha))
    BY <1>3 DEF Passing
  <2>2. \A j \in P : p[j] <= p[i] =>
            AtMost(p[j], alpha, FamilySize(m, AtLeast(p, D, p[j]), alpha))
    BY <1>3, <1>6, <2>1
  <2>3. p[i] < Tables
    BY <1>2, <1>7, <2>1, <2>2
  <2>4. \A j \in D : p[j] <= p[i] => j \in P
    BY <1>1, <1>2, <1>3, <2>1, <2>3
  <2> QED
    BY <2>1, <2>2, <2>4 DEF Passing
<1>10. Passing(p, m, alpha, P) = Passing(p, m, alpha, D)
    BY <1>8, <1>9
<1> QED
    BY <1>10 DEF P

\* A part of the hypotheses may be tested alone.
LEMMA PossibleAreTests ==
    ASSUME NEW p, NEW m, NEW D, NEW alpha, AreTests(p, m, D, alpha), NEW P, P \subseteq D
    PROVE  AreTests([i \in P |-> p[i]], m, P, alpha) /\ AreTests(p, m, P, alpha)
<1>1. /\ IsFiniteSet(D) /\ Cardinality(D) <= NumCases /\ Cardinality(D) \in Nat
    BY FS_CardinalityType DEF AreTests, AreHypotheses
<1>2. IsFiniteSet(P) /\ Cardinality(P) <= Cardinality(D) /\ Cardinality(P) \in Nat
    BY <1>1, FS_Subset, FS_CardinalityType
<1>3. Cardinality(P) <= NumCases
    BY <1>1, <1>2, Parameters
<1> QED
    BY <1>2, <1>3 DEF AreTests, AreHypotheses

-----------------------------------------------------------------------------
(* The step-down of a comparison: StepDownIsSound                          *)

\* Some cases, each with its passes over both runs.
TotalsTypeOK == totals \in UNION {[1 .. n -> 0 .. 2 * Runs] : n \in 0 .. NumCases}

\* A report is of a candidate that the totals allow, by the settings.
Compared ==
    /\ TotalsTypeOK
    /\ report # NoReport =>
          config \in Blocks /\ after \in Outcomes(totals) /\ report = Report(totals, after)

\* The per-case share is a fraction, set by the suite or half of the budget.
LEMMA ShareIsFraction == config \in Blocks => IsFraction(CasesAlpha)
<1> SUFFICES ASSUME config \in Blocks PROVE IsFraction(CasesAlpha)
    OBVIOUS
<1>1. config.alpha \in Alphas /\ config.alpha_cases \in CaseShares \cup {Unset}
    BY DEF Blocks
<1>2. \A alpha \in Alphas \cup CaseShares : IsFraction(alpha)
    BY Parameters DEF IsFraction
<1>3. \A alpha : IsFraction(alpha) => IsFraction(Half(alpha))
    BY DEF IsFraction, Half
<1>4. CasesAlpha = IF config.alpha_cases = Unset THEN Half(config.alpha) ELSE config.alpha_cases
    BY DEF CasesAlpha, CasesShare
<1> QED
    BY <1>1, <1>2, <1>3, <1>4

\* The step-down of every comparison is what ADR 0014 defines.
LEMMA StepDownHolds == Compared => StepDownIsSound
<1> SUFFICES ASSUME Compared, report # NoReport PROVE StepDownIsSound
    BY DEF StepDownIsSound
<1> DEFINE n == Len(totals)
           D == 1 .. n
           p == [i \in D |-> PWorse[totals[i]][after[i]]]
           m == [i \in D |-> MinWorse[totals[i]]]
           alpha == CasesAlpha
           order == Order(p)
           possible == {i \in D : m[i] < Tables}
           backwards == Ordered(D, {q \in D \X D :
                           p[q[1]] < p[q[2]] \/ (p[q[1]] = p[q[2]] /\ q[1] > q[2])})
           forward == Order([i \in possible |-> p[i]])
<1>1. n \in 0 .. NumCases /\ n \in Nat /\ totals \in [D -> 0 .. 2 * Runs]
  <2>1. PICK k \in 0 .. NumCases : totals \in [1 .. k -> 0 .. 2 * Runs]
    BY DEF Compared, TotalsTypeOK
  <2>2. k \in Nat
    BY <2>1
  <2>3. Len(totals) = k
    BY <2>1, <2>2
  <2> QED
    BY <2>1, <2>2, <2>3
<1> HIDE DEF n
<1>2. \A i \in D : totals[i] \in 0 .. 2 * Runs /\ after[i] \in Support[totals[i]]
  <2>1. DOMAIN totals = D /\ after \in Outcomes(totals)
    BY <1>1 DEF Compared
  <2> HIDE DEF D
  <2> QED
    BY <1>1, <2>1 DEF Outcomes
<1>3. IsFiniteSet(D) /\ Cardinality(D) = n /\ D \subseteq Int
    BY <1>1, FS_Interval
<1>4. \A i \in D : p[i] \in Nat /\ m[i] \in Nat /\ m[i] <= p[i]
  <2> TAKE i \in D
  <2>1. p[i] = PWorse[totals[i]][after[i]] /\ m[i] = MinWorse[totals[i]]
    OBVIOUS
  <2> QED
    BY <1>2, <2>1, MinWorseIsLeast
<1>5. DOMAIN p = D
    OBVIOUS
<1>6. IsFraction(alpha)
    BY ShareIsFraction DEF Compared
<1> HIDE DEF D, p, m, alpha
<1>7. n <= NumCases
    BY <1>1
<1>8. AreTests(p, m, D, alpha)
    BY <1>3, <1>4, <1>6, <1>7 DEF AreTests, AreHypotheses
<1>9. SortsBy(order, p, D)
    BY <1>3, <1>4, <1>5, OrderSorts
<1>10. SortsBy(backwards, p, D)
    BY <1>3, <1>4, BackwardsSorts
<1>11. SortsBy(forward, p, possible)
  <2> DEFINE q == [i \in possible |-> p[i]]
  <2>1. DOMAIN q = possible /\ \A i \in possible : q[i] = p[i] /\ q[i] \in Nat
    BY <1>4
  <2>2. IsFiniteSet(possible) /\ possible \subseteq Int
    BY <1>3, FS_Subset
  <2> HIDE DEF q, possible
  <2>3. SortsBy(Order(q), q, possible)
    BY <2>1, <2>2, OrderSorts
  <2>4. SortsBy(Order(q), p, possible)
    <3> DEFINE o == Order(q)
    <3> HIDE DEF o
    <3>1. SortsBy(o, q, possible)
        BY <2>3 DEF o
    <3>2. SortsBy(o, p, possible)
        BY <2>1, <3>1 DEF SortsBy
    <3> QED
        BY <3>2 DEF o
  <2> QED
    BY <2>4 DEF q
<1>12. AreTests(p, m, possible, alpha)
  <2>1. possible \subseteq D
    OBVIOUS
  <2> HIDE DEF possible
  <2> QED
    BY <1>8, <2>1, PossibleAreTests
<1>13. Passing(p, m, alpha, possible) = Passing(p, m, alpha, D)
    BY <1>8, PossibleDecide
<1> HIDE DEF order, backwards, forward, possible
<1>14. /\ Rejected(p, m, order, alpha) = Passing(p, m, alpha, D)
       /\ Rejected(p, m, backwards, alpha) = Passing(p, m, alpha, D)
       /\ Rejected(p, m, forward, alpha) = Passing(p, m, alpha, possible)
    BY <1>8, <1>9, <1>10, <1>11, <1>12, RejectedIs
<1>15. HolmRejected(p, order) \subseteq Rejected(p, m, order, alpha)
    BY <1>8, <1>9, HolmIsKept DEF alpha
<1>16. ASSUME NEW S \in SUBSET D
       PROVE  FamilySize(m, S, alpha) = Min({k \in 1 .. n + 1 : CanReach(m, S, alpha, k) <= k})
  <2> DEFINE K == FamilySize(m, S, alpha)
             T == {k \in 1 .. n + 1 : CanReach(m, S, alpha, k) <= k}
  <2>1. AreHypotheses(m, S) /\ IsFamily(K, m, S, alpha)
    BY <1>8, PartIsFamily
  <2>2. Cardinality(S) <= n /\ Cardinality(S) \in Nat /\ (S = {} => Cardinality(S) = 0)
    BY <1>3, FS_Subset, FS_CardinalityType, FS_EmptySet
  <2>3. K <= n + 1
    <3>1. CASE S # {}
      <4> HIDE DEF K
      <4>1. K <= Cardinality(S)
        BY <1>6, <2>1, <3>1, FamilyIsSmall
      <4> QED
        BY <1>1, <2>1, <2>2, <4>1 DEF IsFamily
    <3>2. CASE S = {}
      <4>1. CanReach(m, S, alpha, 1) <= 1
        <5>1. CanReach(m, S, alpha, 1) \in Nat /\ CanReach(m, S, alpha, 1) <= Cardinality(S)
            BY <1>6, <2>1, CanReachIs
        <5> QED
            BY <2>2, <3>2, <5>1
      <4> HIDE DEF K
      <4>2. K <= 1 /\ K \in Nat
        BY <2>1, <4>1 DEF IsFamily
      <4> QED
        BY <1>1, <4>2
    <3> QED
        BY <3>1, <3>2
  <2>4. \A k \in T : K <= k
    BY <1>1, <2>1 DEF IsFamily
  <2>5. K \in T
    BY <1>1, <2>1, <2>3 DEF IsFamily
  <2>6. T \subseteq Nat /\ K \in Nat
    BY <1>1, <2>1 DEF IsFamily
  <2> HIDE DEF K, T
  <2>7. \A y \in T : (\A x \in T : y <= x) => y = K
    BY <2>4, <2>5, <2>6
  <2>8. Min(T) = K
    BY <2>4, <2>5, <2>7 DEF Min
  <2> QED
    BY <2>8 DEF K, T
<1> QED
    BY <1>13, <1>14, <1>15, <1>16
       DEF StepDownIsSound, n, D, p, m, alpha, order, backwards, forward, possible

-----------------------------------------------------------------------------
(* The signs of the suite test: SignedSums counts sign assignments, one    *)
(* value at a time, and a value 0 doubles them: SuiteTestIsExact.          *)

\* The sign assignments of n values, and the signed sum of the values.
Signs(n) == [1 .. n -> {-1, 1}]

Signed(s, values, n) == Sum([i \in 1 .. n |-> s[i] * values[i]])

\* The deltas of a suite of n cases.
AreDeltas(values, n) ==
    /\ n \in Nat /\ n <= NumCases
    /\ values \in [1 .. n -> -Runs .. Runs]

\* There are finitely many sign assignments.
LEMMA SignsAreFinite ==
    ASSUME NEW D, IsFiniteSet(D)
    PROVE  IsFiniteSet([D -> {-1, 1}])
<1> DEFINE f == [S \in SUBSET D |-> [i \in D |-> IF i \in S THEN 1 ELSE -1]]
<1>1. IsFiniteSet(SUBSET D)
    BY FS_SUBSET
<1>2. f \in [SUBSET D -> [D -> {-1, 1}]]
    OBVIOUS
<1>3. ASSUME NEW s \in [D -> {-1, 1}] PROVE \E S \in SUBSET D : f[S] = s
  <2> DEFINE S == {i \in D : s[i] = 1}
  <2>1. S \in SUBSET D
    OBVIOUS
  <2>2. \A i \in D : s[i] = IF i \in S THEN 1 ELSE -1
    OBVIOUS
  <2>3. s = [i \in D |-> s[i]]
    OBVIOUS
  <2>4. f[S] = s
    BY <2>1, <2>2, <2>3
  <2> QED
    BY <2>1, <2>4
<1>4. f \in Surjection(SUBSET D, [D -> {-1, 1}])
    BY <1>2, <1>3 DEF Surjection
<1> HIDE DEF f
<1> QED
    BY <1>1, <1>4, FS_Surjection

\* The last value adds to the signed sum of the others.
LEMMA SignedStep ==
    ASSUME NEW values, NEW n \in Nat, n > 0, NEW s, \A i \in 1 .. n : s[i] * values[i] \in Int
    PROVE  /\ Signed(s, values, n) = s[n] * values[n] + Signed(s, values, n - 1)
           /\ Signed(s, values, n - 1) \in Int
<1> DEFINE w == [i \in 1 .. n |-> s[i] * values[i]]
           v == [i \in 1 .. n - 1 |-> s[i] * values[i]]
<1>1. IsFiniteSet(1 .. n) /\ IsFiniteSet(1 .. n - 1) /\ n \in 1 .. n
    BY FS_Interval
<1>2. w \in [1 .. n -> Int]
    OBVIOUS
<1>3. (1 .. n) \ {n} = 1 .. n - 1 /\ \A i \in 1 .. n - 1 : i \in 1 .. n
    OBVIOUS
<1>4. [x \in (1 .. n) \ {n} |-> w[x]] = v
    BY <1>3
<1>5. v \in [1 .. n - 1 -> Int]
    BY <1>3
<1>6. w[n] = s[n] * values[n]
    BY <1>1
<1> HIDE DEF w, v
<1>7. Sum(w) = w[n] + Sum([x \in (1 .. n) \ {n} |-> w[x]])
    BY <1>1, <1>2, SumWithout
<1>8. Sum(v) \in Int
    BY <1>1, <1>5, SumType
<1> QED
    BY <1>4, <1>6, <1>7, <1>8 DEF Signed, w, v

\* A signed delta is a delta.
LEMMA SignedTerm ==
    ASSUME NEW values, NEW n, AreDeltas(values, n), NEW k \in 0 .. n, NEW s \in Signs(k)
    PROVE  \A i \in 1 .. k : s[i] * values[i] \in -Runs .. Runs
<1> TAKE i \in 1 .. k
<1>1. s[i] \in {-1, 1} /\ values[i] \in -Runs .. Runs
    BY DEF Signs, AreDeltas
<1>2. s[i] = 1 => s[i] * values[i] = values[i]
    BY <1>1
<1>3. s[i] = -1 => s[i] * values[i] = -values[i]
    BY <1>1
<1> QED
    BY <1>1, <1>2, <1>3, Parameters

\* A signed sum of k deltas is within k * Runs.
LEMMA SignedIsNear ==
    ASSUME NEW values, NEW n, AreDeltas(values, n)
    PROVE  \A k \in 0 .. n : \A s \in Signs(k) :
              Signed(s, values, k) \in -(k * Runs) .. k * Runs
<1> DEFINE Near(k) == \A s \in Signs(k) : Signed(s, values, k) \in -(k * Runs) .. k * Runs
           T == {k \in 0 .. n : ~Near(k)}
<1>0. n \in Nat /\ Runs \in Nat
    BY Parameters DEF AreDeltas
<1> SUFFICES ASSUME T # {} PROVE FALSE
    OBVIOUS
<1>1. T \subseteq Nat
    BY <1>0
<1>2. PICK k \in T : \A j \in T : k <= j
    BY <1>1, Least
<1>3. k \in 0 .. n /\ k \in Nat
    BY <1>1
<1>4. PICK s \in Signs(k) : Signed(s, values, k) \notin -(k * Runs) .. k * Runs
    BY <1>2
<1>5. CASE k = 0
  <2>1. Signed(s, values, 0) = 0
    <3> DEFINE w == [i \in 1 .. 0 |-> s[i] * values[i]]
    <3>1. DOMAIN w = {}
        OBVIOUS
    <3> HIDE DEF w
    <3>2. Sum(w) = 0
        BY <3>1, SumOfNone
    <3> QED
        BY <3>2 DEF Signed, w
  <2> QED
    BY <1>0, <1>4, <1>5, <2>1
<1>6. CASE k # 0
  <2> DEFINE j == k - 1
             u == [i \in 1 .. j |-> s[i]]
  <2>1. j \in 0 .. n /\ j \in Nat /\ k > 0 /\ ~(k <= j)
    BY <1>0, <1>3, <1>6
  <2>2. Near(j)
    BY <1>2, <2>1
  <2>3. u \in Signs(j)
    BY <1>3, <2>1 DEF Signs
  <2>4. Signed(u, values, j) \in -(j * Runs) .. j * Runs
    BY <2>2, <2>3
  <2>5. Signed(u, values, j) = Signed(s, values, j)
    <3>1. [i \in 1 .. j |-> u[i] * values[i]] = [i \in 1 .. j |-> s[i] * values[i]]
        OBVIOUS
    <3> QED
        BY <3>1 DEF Signed
  <2>6. \A i \in 1 .. k : s[i] * values[i] \in -Runs .. Runs
    BY <1>3, SignedTerm
  <2>7. \A i \in 1 .. k : s[i] * values[i] \in Int
    BY <1>0, <2>6
  <2>8. /\ Signed(s, values, k) = s[k] * values[k] + Signed(s, values, j)
        /\ Signed(s, values, j) \in Int
    BY <1>3, <2>1, <2>7, SignedStep
  <2>9. s[k] * values[k] \in -Runs .. Runs
    BY <1>3, <2>1, <2>6
  <2>10. k * Runs = j * Runs + Runs /\ j * Runs \in Int
    BY <1>0, <1>3
  <2> HIDE DEF j, u
  <2> QED
    BY <1>0, <1>4, <2>4, <2>5, <2>8, <2>9, <2>10
<1> QED
    BY <1>5, <1>6

\* The signs of k values under which they have a sum.
WithSum(values, k, t) == {s \in Signs(k) : Signed(s, values, k) = t}

\* Finitely many assignments have a sum.
LEMMA WithSumIsFinite ==
    ASSUME NEW values, NEW k \in Nat, NEW t
    PROVE  IsFiniteSet(WithSum(values, k, t)) /\ Cardinality(WithSum(values, k, t)) \in Nat
<1>1. IsFiniteSet(Signs(k))
  <2>1. IsFiniteSet(1 .. k)
    BY FS_Interval
  <2> QED
    BY <2>1, SignsAreFinite DEF Signs
<1>2. WithSum(values, k, t) \in SUBSET Signs(k)
    BY DEF WithSum
<1> QED
    BY <1>1, <1>2, FS_Subset, FS_CardinalityType

\* One sign more: the values before it have the sum without it.
LEMMA WithLastSign ==
    ASSUME NEW values, NEW n, AreDeltas(values, n), NEW k \in 1 .. n, NEW t \in Int,
           NEW sign \in {-1, 1}
    PROVE  LET last == {s \in WithSum(values, k, t) : s[k] = sign} IN
           /\ IsFiniteSet(last)
           /\ Cardinality(last) = Cardinality(WithSum(values, k - 1, t - sign * values[k]))
<1> DEFINE S == WithSum(values, k - 1, t - sign * values[k])
           T == {s \in WithSum(values, k, t) : s[k] = sign}
           f == [u \in S |-> [i \in 1 .. k |-> IF i = k THEN sign ELSE u[i]]]
<1>0. n \in Nat /\ k \in Nat /\ k > 0 /\ k - 1 \in 0 .. n /\ k - 1 \in Nat /\ k \in 0 .. n /\ k \in 1 .. k
    BY DEF AreDeltas
<1>1. ASSUME NEW s \in Signs(k)
      PROVE  /\ Signed(s, values, k) = s[k] * values[k] + Signed(s, values, k - 1)
             /\ Signed(s, values, k - 1) \in Int /\ s[k] * values[k] \in Int
  <2>1. \A i \in 1 .. k : s[i] * values[i] \in -Runs .. Runs
    BY <1>0, SignedTerm
  <2>2. \A i \in 1 .. k : s[i] * values[i] \in Int
    BY <2>1, Parameters
  <2> QED
    BY <1>0, <2>2, SignedStep
<1>2. \A i \in 1 .. k - 1 : i \in 1 .. k /\ i # k
    BY <1>0
<1>3. ASSUME NEW u \in S PROVE f[u] \in T
  <2>1. u \in Signs(k - 1) /\ Signed(u, values, k - 1) = t - sign * values[k]
    BY DEF WithSum
  <2>2. f[u] \in Signs(k) /\ f[u][k] = sign
    BY <1>0, <2>1 DEF Signs
  <2>3. Signed(f[u], values, k - 1) = Signed(u, values, k - 1)
    <3>1. [i \in 1 .. k - 1 |-> f[u][i] * values[i]] = [i \in 1 .. k - 1 |-> u[i] * values[i]]
        BY <1>2
    <3> QED
        BY <3>1 DEF Signed
  <2>4. sign * values[k] \in Int
    BY <1>1, <2>2
  <2> HIDE DEF f, S
  <2>5. Signed(f[u], values, k) = t
    BY <1>1, <2>1, <2>2, <2>3, <2>4
  <2> QED
    BY <2>2, <2>5 DEF WithSum
<1>4. ASSUME NEW s \in T PROVE \E u \in S : f[u] = s
  <2> DEFINE u == [i \in 1 .. k - 1 |-> s[i]]
  <2>1. s \in Signs(k) /\ Signed(s, values, k) = t /\ s[k] = sign
    BY DEF WithSum
  <2>2. u \in Signs(k - 1)
    BY <1>2, <2>1 DEF Signs
  <2>3. Signed(u, values, k - 1) = Signed(s, values, k - 1)
    <3>1. [i \in 1 .. k - 1 |-> u[i] * values[i]] = [i \in 1 .. k - 1 |-> s[i] * values[i]]
        OBVIOUS
    <3> QED
        BY <3>1 DEF Signed
  <2>4. Signed(u, values, k - 1) = t - sign * values[k]
    BY <1>1, <2>1, <2>3
  <2>5. u \in S
    BY <2>2, <2>4 DEF WithSum
  <2>6. f[u] = s
    <3>1. s = [i \in 1 .. k |-> s[i]]
        BY <2>1 DEF Signs
    <3>2. \A i \in 1 .. k : i # k => i \in 1 .. k - 1
        BY <1>0
    <3>3. \A i \in 1 .. k : s[i] = IF i = k THEN sign ELSE u[i]
        BY <2>1, <3>2
    <3>4. f[u] = [i \in 1 .. k |-> IF i = k THEN sign ELSE u[i]]
        BY <2>5
    <3> HIDE DEF f, u
    <3> QED
        BY <3>1, <3>3, <3>4
  <2> QED
    BY <2>5, <2>6
<1>5. ASSUME NEW u \in S, NEW v \in S, f[u] = f[v] PROVE u = v
  <2>1. u \in Signs(k - 1) /\ v \in Signs(k - 1)
    BY DEF WithSum
  <2>2. \A i \in 1 .. k - 1 : u[i] = f[u][i] /\ v[i] = f[v][i]
    BY <1>2
  <2> HIDE DEF f
  <2> QED
    BY <1>5, <2>1, <2>2 DEF Signs
<1>6. IsFiniteSet(S)
    BY <1>0, WithSumIsFinite
<1>7. DOMAIN f = S
    OBVIOUS
<1> HIDE DEF f, S, T
<1>8. IsFiniteSet(T) /\ Cardinality(T) = Cardinality(S)
    BY <1>3, <1>4, <1>5, <1>6, <1>7, ImageCount
<1> QED
    BY <1>8 DEF S, T

\* The assignments with a sum, by the sign of the last value.
LEMMA WithSumIs ==
    ASSUME NEW values, NEW n, AreDeltas(values, n), NEW k \in 1 .. n, NEW t \in Int
    PROVE  Cardinality(WithSum(values, k, t))
              = Cardinality(WithSum(values, k - 1, t - values[k]))
                + Cardinality(WithSum(values, k - 1, t + values[k]))
<1> DEFINE A == {s \in WithSum(values, k, t) : s[k] = 1}
           B == {s \in WithSum(values, k, t) : s[k] = -1}
<1>1. WithSum(values, k, t) = A \cup B /\ A \cap B = {}
  <2>1. \A s \in WithSum(values, k, t) : s[k] \in {-1, 1}
    BY DEF WithSum, Signs, AreDeltas
  <2> QED
    BY <2>1
<1>2. t - 1 * values[k] = t - values[k] /\ t - (-1) * values[k] = t + values[k]
  <2>1. values[k] \in Int
    BY Parameters DEF AreDeltas
  <2> QED
    BY <2>1
<1>3. IsFiniteSet(A) /\ Cardinality(A) = Cardinality(WithSum(values, k - 1, t - 1 * values[k]))
  <2> DEFINE one == 1
  <2>1. one \in {-1, 1}
    OBVIOUS
  <2> HIDE DEF one
  <2>2. LET last == {s \in WithSum(values, k, t) : s[k] = one} IN
        /\ IsFiniteSet(last)
        /\ Cardinality(last) = Cardinality(WithSum(values, k - 1, t - one * values[k]))
    BY <2>1, WithLastSign
  <2> QED
    BY <2>2 DEF one
<1>4. IsFiniteSet(B) /\ Cardinality(B) = Cardinality(WithSum(values, k - 1, t - (-1) * values[k]))
  <2> DEFINE one == -1
  <2>1. one \in {-1, 1}
    OBVIOUS
  <2> HIDE DEF one
  <2>2. LET last == {s \in WithSum(values, k, t) : s[k] = one} IN
        /\ IsFiniteSet(last)
        /\ Cardinality(last) = Cardinality(WithSum(values, k - 1, t - one * values[k]))
    BY <2>1, WithLastSign
  <2> QED
    BY <2>2 DEF one
<1> HIDE DEF A, B
<1> QED
    BY <1>1, <1>2, <1>3, <1>4, DisjointUnion

\* The sums that SignedSums keeps: no signed sum is outside.
Window == -(NumCases * Runs) .. NumCases * Runs

\* The sums of k values are within it.
LEMMA WindowIs ==
    /\ NumCases * Runs \in Nat
    /\ IsFiniteSet(Window) /\ Window \subseteq Int
    /\ \A k \in 0 .. NumCases : -(k * Runs) .. k * Runs \subseteq Window
<1>1. NumCases \in Nat /\ Runs \in Nat
    BY Parameters
<1>2. NumCases * Runs \in Nat
    BY <1>1
<1>3. \A a, b, c \in Nat : a <= b => a * c <= b * c /\ a * c \in Nat
    OBVIOUS
<1>4. ASSUME NEW k \in 0 .. NumCases PROVE -(k * Runs) .. k * Runs \subseteq Window
  <2>1. k * Runs <= NumCases * Runs /\ k * Runs \in Nat
    BY <1>1, <1>3
  <2> QED
    BY <1>2, <2>1 DEF Window
<1>5. IsFiniteSet(Window)
    BY <1>2, FS_Interval DEF Window
<1> QED
    BY <1>2, <1>4, <1>5 DEF Window

\* What a table of counts says of a sum: none beyond its ends.
CountAt(f, t) == IF t \in Window THEN f[t] ELSE 0

\* One value more in signed_sum_counts, g being the counts so far.
CountsStep(g, values) ==
    [n \in 0 .. Len(values) |->
        IF n = 0 THEN [t \in Window |-> IF t = 0 THEN 1 ELSE 0]
        ELSE LET v == values[n] IN
             [t \in Window |-> CountAt(g[n - 1], t - v) + CountAt(g[n - 1], t + v)]]

\* How many assignments of the first k values have each sum.
CountsOf(values, k) == [t \in Window |-> Cardinality(WithSum(values, k, t))]

\* A count outside the window is 0.
LEMMA CountAtIs ==
    ASSUME NEW values, NEW n, AreDeltas(values, n), NEW k \in 0 .. n, NEW t \in Int
    PROVE  CountAt(CountsOf(values, k), t) = Cardinality(WithSum(values, k, t))
<1>1. CASE t \in Window
    BY <1>1 DEF CountAt, CountsOf
<1>2. CASE t \notin Window
  <2>1. k \in 0 .. NumCases
    BY Parameters DEF AreDeltas
  <2>2. \A s \in Signs(k) : Signed(s, values, k) # t
    BY <1>2, <2>1, SignedIsNear, WindowIs
  <2>3. WithSum(values, k, t) = {}
    BY <2>2 DEF WithSum
  <2> QED
    BY <1>2, <2>3, FS_EmptySet DEF CountAt
<1> QED
    BY <1>1, <1>2

\* No value has one sum, zero.
LEMMA CountsOfNone ==
    ASSUME NEW values
    PROVE  CountsOf(values, 0) = [t \in Window |-> IF t = 0 THEN 1 ELSE 0]
<1>1. \A s : Signed(s, values, 0) = 0
  <2> TAKE s
  <2> DEFINE w == [i \in 1 .. 0 |-> s[i] * values[i]]
  <2>1. DOMAIN w = {}
    OBVIOUS
  <2> HIDE DEF w
  <2>2. Sum(w) = 0
    BY <2>1, SumOfNone
  <2> QED
    BY <2>2 DEF Signed, w
<1> DEFINE none == [i \in 1 .. 0 |-> 1]
<1>2. Signs(0) = {none}
  <2>1. none \in Signs(0)
    BY DEF Signs
  <2>2. \A s \in Signs(0) : s = none
    <3> TAKE s \in Signs(0)
    <3>1. s = [i \in 1 .. 0 |-> s[i]]
        BY DEF Signs
    <3>2. [i \in 1 .. 0 |-> s[i]] = none
        OBVIOUS
    <3> QED
        BY <3>1, <3>2
  <2> QED
    BY <2>1, <2>2
<1> HIDE DEF none
<1>3. \A t : WithSum(values, 0, t) = IF t = 0 THEN {none} ELSE {}
    BY <1>1, <1>2 DEF WithSum
<1>4. \A t : Cardinality(WithSum(values, 0, t)) = IF t = 0 THEN 1 ELSE 0
    BY <1>3, FS_EmptySet, FS_Singleton
<1> QED
    BY <1>4 DEF CountsOf

\* The counts follow the recursion of SignedSums.
LEMMA CountsOfNext ==
    ASSUME NEW values, NEW n, AreDeltas(values, n), NEW k \in 1 .. n
    PROVE  CountsOf(values, k) =
              [t \in Window |-> CountAt(CountsOf(values, k - 1), t - values[k])
                                + CountAt(CountsOf(values, k - 1), t + values[k])]
<1>1. k - 1 \in 0 .. n /\ values[k] \in Int
    BY Parameters DEF AreDeltas
<1>2. ASSUME NEW t \in Window
      PROVE  Cardinality(WithSum(values, k, t))
                = CountAt(CountsOf(values, k - 1), t - values[k])
                  + CountAt(CountsOf(values, k - 1), t + values[k])
  <2>1. t \in Int /\ t - values[k] \in Int /\ t + values[k] \in Int
    BY <1>1, WindowIs
  <2>2. /\ CountAt(CountsOf(values, k - 1), t - values[k])
              = Cardinality(WithSum(values, k - 1, t - values[k]))
        /\ CountAt(CountsOf(values, k - 1), t + values[k])
              = Cardinality(WithSum(values, k - 1, t + values[k]))
    BY <1>1, <2>1, CountAtIs
  <2> QED
    BY <2>1, <2>2, WithSumIs
<1> QED
    BY <1>2 DEF CountsOf

\* SignedSums counts sign assignments.
LEMMA SignedSumsAre ==
    ASSUME NEW values, NEW n, AreDeltas(values, n)
    PROVE  SignedSums(values) = CountsOf(values, n)
<1>1. n \in Nat /\ Len(values) = n
    BY DEF AreDeltas
<1> DEFINE Counts == CHOOSE g : g = CountsStep(g, values)
           G == [k \in 0 .. n |-> CountsOf(values, k)]
<1>2. SignedSums(values) = Counts[n]
    BY <1>1 DEF SignedSums, CountsStep, CountAt, Window
<1>3. G = CountsStep(G, values)
  <2>1. ASSUME NEW k \in 0 .. n PROVE G[k] = CountsStep(G, values)[k]
    <3>1. CASE k = 0
        BY <1>1, <3>1, CountsOfNone DEF CountsStep
    <3>2. CASE k # 0
      <4>1. k \in 1 .. n /\ k - 1 \in 0 .. n
        BY <1>1, <3>2
      <4>2. G[k] = CountsOf(values, k) /\ G[k - 1] = CountsOf(values, k - 1)
        BY <4>1
      <4>3. CountsStep(G, values)[k] =
                [t \in Window |-> CountAt(G[k - 1], t - values[k]) + CountAt(G[k - 1], t + values[k])]
        BY <1>1, <3>2 DEF CountsStep
      <4>4. CountsOf(values, k) =
                [t \in Window |-> CountAt(CountsOf(values, k - 1), t - values[k])
                                  + CountAt(CountsOf(values, k - 1), t + values[k])]
        BY <4>1, CountsOfNext
      <4> HIDE DEF G
      <4> QED
        BY <4>2, <4>3, <4>4
    <3> QED
        BY <3>1, <3>2
  <2>2. CountsStep(G, values) = [k \in 0 .. n |-> CountsStep(G, values)[k]]
    BY <1>1 DEF CountsStep
  <2> QED
    BY <2>1, <2>2
<1> HIDE DEF G
<1>4. Counts = CountsStep(Counts, values)
    BY <1>3
<1> HIDE DEF Counts
<1>5. \A k \in 0 .. n : Counts[k] = CountsOf(values, k)
  <2> DEFINE T == {k \in 0 .. n : Counts[k] # CountsOf(values, k)}
  <2> SUFFICES ASSUME T # {} PROVE FALSE
    OBVIOUS
  <2>1. T \subseteq Nat
    BY <1>1
  <2>2. PICK k \in T : \A j \in T : k <= j
    BY <2>1, Least
  <2>3. k \in 0 .. n /\ Counts[k] # CountsOf(values, k)
    BY <2>2
  <2>4. k # 0
    <3>1. 0 \in 0 .. n
        BY <1>1
    <3>2. Counts[0] = [t \in Window |-> IF t = 0 THEN 1 ELSE 0]
        BY <1>1, <1>4, <3>1 DEF CountsStep
    <3> QED
        BY <2>3, <3>2, CountsOfNone
  <2>5. k \in 1 .. n /\ k - 1 \in 0 .. n /\ ~(k <= k - 1)
    BY <1>1, <2>3, <2>4
  <2>6. Counts[k - 1] = CountsOf(values, k - 1)
    BY <2>2, <2>5
  <2>7. Counts[k] = [t \in Window |-> CountAt(Counts[k - 1], t - values[k])
                                      + CountAt(Counts[k - 1], t + values[k])]
    BY <1>1, <1>4, <2>3, <2>4 DEF CountsStep
  <2> QED
    BY <2>3, <2>5, <2>6, <2>7, CountsOfNext
<1>6. n \in 0 .. n
    BY <1>1
<1> QED
    BY <1>2, <1>5, <1>6

\* The tail of the counts has as many signs as have their sum in it.
LEMMA TailIs ==
    ASSUME NEW values, NEW n, AreDeltas(values, n), NEW Hits
    PROVE  LET counts == SignedSums(values) IN
           /\ DOMAIN counts = Window
           /\ Sum([t \in {t \in Window : t \in Hits} |-> counts[t]])
                = Cardinality({s \in Signs(n) : Signed(s, values, n) \in Hits})
<1> DEFINE counts == SignedSums(values)
           D == {t \in Window : t \in Hits}
           X == {s \in Signs(n) : Signed(s, values, n) \in Hits}
           h == [s \in X |-> Signed(s, values, n)]
           w == [t \in D |-> counts[t]]
<1>1. counts = CountsOf(values, n)
    BY SignedSumsAre
<1>2. n \in Nat /\ n \in 0 .. n /\ n \in 0 .. NumCases
    BY Parameters DEF AreDeltas
<1>3. IsFiniteSet(D)
    BY WindowIs, FS_Subset
<1>4. IsFiniteSet(X)
  <2>1. IsFiniteSet(1 .. n)
    BY <1>2, FS_Interval
  <2>2. IsFiniteSet(Signs(n))
    BY <2>1, SignsAreFinite DEF Signs
  <2> QED
    BY <2>2, FS_Subset
<1>5. \A s \in Signs(n) : Signed(s, values, n) \in Window
    BY <1>2, SignedIsNear, WindowIs
<1>6. h \in [X -> D]
    BY <1>5
<1>7. \A t \in D : Fibre(h, X, t) = WithSum(values, n, t)
    BY DEF Fibre, WithSum
<1>8. \A t \in D : w[t] = Cardinality(Fibre(h, X, t))
    BY <1>1, <1>7 DEF CountsOf
<1>9. DOMAIN w = D /\ DOMAIN counts = Window
    BY <1>1 DEF CountsOf
<1> HIDE DEF counts, D, X, h, w
<1>10. Sum(w) = Cardinality(X)
    BY <1>3, <1>4, <1>6, <1>8, <1>9, SumCounts
<1> QED
    BY <1>9, <1>10 DEF counts, D, X, w

\* The cases that changed.
Kept(deltas) == {i \in DOMAIN deltas : deltas[i] # 0}

\* The deltas that are not zero, each once.
LEMMA NonZeroIs ==
    ASSUME NEW deltas, NEW n, AreDeltas(deltas, n)
    PROVE  LET z == Cardinality(Kept(deltas)) IN
           /\ AreDeltas(NonZero(deltas), z) /\ z <= n
           /\ \E order \in [1 .. z -> Kept(deltas)] :
                /\ \A i \in Kept(deltas) : \E k \in 1 .. z : order[k] = i
                /\ \A i, j \in 1 .. z : order[i] = order[j] => i = j
                /\ NonZero(deltas) = [k \in 1 .. z |-> deltas[order[k]]]
<1> DEFINE K == Kept(deltas)
           z == Cardinality(K)
           before == {q \in K \X K : q[1] < q[2]}
           order == Ordered(K, before)
<1>1. n \in Nat /\ n <= NumCases /\ NumCases \in Nat /\ DOMAIN deltas = 1 .. n /\ K \subseteq 1 .. n
    BY Parameters DEF AreDeltas, Kept
<1>2. IsFiniteSet(1 .. n) /\ Cardinality(1 .. n) = n
    BY <1>1, FS_Interval
<1>3. NonZero(deltas) = [k \in DOMAIN order |-> deltas[order[k]]]
    BY DEF NonZero, Kept
<1>4. \A x, y \in K : <<x, y>> \in before <=> x < y
    OBVIOUS
<1> HIDE DEF K, before
<1>5. IsFiniteSet(K) /\ z <= n /\ z \in Nat
  <2>1. K \in SUBSET (1 .. n)
    BY <1>1
  <2>2. IsFiniteSet(K) /\ Cardinality(K) <= Cardinality(1 .. n)
    BY <1>2, <2>1, FS_Subset
  <2> QED
    BY <1>2, <2>2, FS_CardinalityType
<1>6. IsStrictOrder(before, K)
  <2>1. \A x \in K : x \in Int
    BY <1>1
  <2> QED
    BY <1>4, <2>1 DEF IsStrictOrder
<1>7. /\ order \in [1 .. z -> K]
      /\ \A x \in K : \E k \in 1 .. z : order[k] = x
      /\ \A i, j \in 1 .. z : order[i] = order[j] => i = j
    BY <1>5, <1>6, OrderedIs
<1> HIDE DEF order, z
<1>8. NonZero(deltas) = [k \in 1 .. z |-> deltas[order[k]]]
    BY <1>3, <1>7
<1>9. AreDeltas(NonZero(deltas), z)
  <2>1. \A k \in 1 .. z : deltas[order[k]] \in -Runs .. Runs
    BY <1>1, <1>7 DEF AreDeltas
  <2> QED
    BY <1>1, <1>5, <1>8, <2>1 DEF AreDeltas
<1> QED
    BY <1>5, <1>7, <1>8, <1>9 DEF K, z

\* Every choice of signs is one for the deltas that count, and one for the zeros.
LEMMA ZerosDouble ==
    ASSUME NEW deltas, NEW n, AreDeltas(deltas, n), NEW Hits
    PROVE  LET z == Cardinality(Kept(deltas)) IN
           Cardinality({s \in Signs(n) : Signed(s, deltas, n) \in Hits})
              = Cardinality({u \in Signs(z) : Signed(u, NonZero(deltas), z) \in Hits}) * 2 ^ (n - z)
<1> DEFINE K == Kept(deltas)
           z == Cardinality(K)
           values == NonZero(deltas)
           Z == (1 .. n) \ K
           X == {s \in Signs(n) : Signed(s, deltas, n) \in Hits}
           Y == {u \in Signs(z) : Signed(u, values, z) \in Hits}
<1>1. /\ n \in Nat /\ Runs \in Nat /\ deltas \in [1 .. n -> -Runs .. Runs] /\ K \subseteq 1 .. n
      /\ \A i \in 1 .. n : i \notin K => deltas[i] = 0
    BY Parameters DEF AreDeltas, Kept
<1>2. AreDeltas(values, z) /\ z <= n
    BY NonZeroIs
<1>3. PICK order \in [1 .. z -> K] :
            /\ \A i \in K : \E k \in 1 .. z : order[k] = i
            /\ \A i, j \in 1 .. z : order[i] = order[j] => i = j
            /\ values = [k \in 1 .. z |-> deltas[order[k]]]
    BY NonZeroIs
<1> HIDE DEF K, values
<1>4. z \in Nat /\ IsFiniteSet(1 .. n) /\ Cardinality(1 .. n) = n /\ IsFiniteSet(1 .. z)
    BY <1>1, <1>2, FS_Interval DEF AreDeltas
<1> HIDE DEF z
<1> DEFINE chosen(c) == [k \in 1 .. z |-> c[order[k]]]
           plus(c) == {i \in Z : c[i] = 1}
           f == [c \in X |-> <<chosen(c), plus(c)>>]
<1>5. ASSUME NEW s \in Signs(n)
      PROVE  chosen(s) \in Signs(z) /\ Signed(chosen(s), values, z) = Signed(s, deltas, n)
  <2>1. \A k \in 1 .. z : order[k] \in 1 .. n
    BY <1>1, <1>3
  <2>2. chosen(s) \in Signs(z)
    BY <2>1 DEF Signs
  <2> DEFINE D == 1 .. n
             E == 1 .. z
             w == [i \in D |-> s[i] * deltas[i]]
             v == [k \in E |-> chosen(s)[k] * values[k]]
  <2>3. \A i \in D : w[i] \in Int
    <3>1. n \in 0 .. n
        BY <1>1
    <3>2. \A i \in 1 .. n : s[i] * deltas[i] \in -Runs .. Runs
        BY <3>1, SignedTerm
    <3> QED
        BY <1>1, <3>2
  <2>4. w \in [D -> Int]
    BY <2>3
  <2>5. order \in [E -> D]
    BY <1>3, <2>1
  <2>6. \A d \in D : d \notin Image(order, E) => w[d] = 0
    <3> TAKE d \in D
    <3>1. d \notin Image(order, E) => d \notin K
        BY <1>3 DEF Image
    <3>2. s[d] \in Int
        BY DEF Signs
    <3>3. \A x \in Int : x * 0 = 0
        OBVIOUS
    <3> QED
        BY <1>1, <3>1, <3>2, <3>3
  <2>7. DOMAIN v = E /\ \A k \in E : v[k] = w[order[k]]
    BY <1>3, <2>1
  <2>8. IsFiniteSet(D) /\ IsFiniteSet(E) /\ \A x, y \in E : order[x] = order[y] => x = y
    BY <1>3, <1>4
  <2> HIDE DEF w, v, D, E
  <2>12. Renames(v, E, order, w, D)
    BY <2>4, <2>5, <2>6, <2>7, <2>8 DEF Renames
  <2>9. Sum(w) = Sum(v)
    BY <2>12, SumRenamed
  <2>10. Signed(s, deltas, n) = Sum(w)
    BY DEF Signed, w, D
  <2>11. Signed(chosen(s), values, z) = Sum(v)
    BY DEF Signed, v, E
  <2> QED
    BY <2>2, <2>9, <2>10, <2>11
<1>6. IsFiniteSet(Signs(n)) /\ IsFiniteSet(Signs(z))
    BY <1>4, SignsAreFinite DEF Signs
<1>7. IsFiniteSet(X) /\ IsFiniteSet(Y)
    BY <1>6, FS_Subset
<1>8. IsFiniteSet(Z) /\ Cardinality(Z) = n - z
  <2> DEFINE N == 1 .. n
  <2>1. N \cap K = K /\ Z = N \ K
    BY <1>1
  <2>2. IsFiniteSet(N) /\ Cardinality(N) = n
    BY <1>4
  <2> HIDE DEF N, Z
  <2>3. IsFiniteSet(N \ K) /\ Cardinality(N \ K) = Cardinality(N) - Cardinality(N \cap K)
    BY <2>2, FS_Difference
  <2> QED
    BY <2>1, <2>2, <2>3 DEF z
<1>9. ASSUME NEW s \in X PROVE f[s] \in Y \X SUBSET Z
  <2>1. chosen(s) \in Signs(z) /\ Signed(chosen(s), values, z) \in Hits
    BY <1>5
  <2>2. plus(s) \in SUBSET Z
    OBVIOUS
  <2> HIDE DEF chosen, plus
  <2> QED
    BY <2>1, <2>2
<1>10. ASSUME NEW r \in X, NEW s \in X, f[r] = f[s] PROVE r = s
  <2>1. chosen(r) = chosen(s) /\ plus(r) = plus(s)
    BY <1>10
  <2>2. r \in Signs(n) /\ s \in Signs(n)
    OBVIOUS
  <2>3. ASSUME NEW i \in 1 .. n PROVE r[i] = s[i]
    <3>1. CASE i \in K
      <4>1. PICK k \in 1 .. z : order[k] = i
        BY <1>3, <3>1
      <4>2. chosen(r)[k] = r[i] /\ chosen(s)[k] = s[i]
        BY <4>1
      <4> QED
        BY <2>1, <4>2
    <3>2. CASE i \notin K
      <4>1. i \in Z
        BY <3>2
      <4>2. r[i] = 1 <=> s[i] = 1
        BY <2>1, <4>1
      <4>3. r[i] \in {-1, 1} /\ s[i] \in {-1, 1}
        BY <2>2 DEF Signs
      <4> QED
        BY <4>2, <4>3
    <3> QED
        BY <3>1, <3>2
  <2>4. r = [i \in 1 .. n |-> r[i]] /\ s = [i \in 1 .. n |-> s[i]]
    BY <2>2 DEF Signs
  <2> HIDE DEF X, f
  <2>5. [i \in 1 .. n |-> r[i]] = [i \in 1 .. n |-> s[i]]
    BY <2>3
  <2> QED
    BY <2>4, <2>5
<1>11. ASSUME NEW t \in Y \X SUBSET Z PROVE \E s \in X : f[s] = t
  <2> DEFINE u == t[1]
             e == t[2]
             place(i) == CHOOSE k \in 1 .. z : order[k] = i
             s == [i \in 1 .. n |-> IF i \in K THEN u[place(i)] ELSE IF i \in e THEN 1 ELSE -1]
  <2>1. u \in Y /\ e \in SUBSET Z /\ t = <<u, e>>
    OBVIOUS
  <2>2. u \in Signs(z) /\ Signed(u, values, z) \in Hits
    BY <2>1
  <2> HIDE DEF u, e
  <2>3. \A i \in K : place(i) \in 1 .. z /\ order[place(i)] = i
    BY <1>3
  <2>4. \A k \in 1 .. z : order[k] \in K /\ place(order[k]) = k
    BY <1>3, <2>3
  <2> HIDE DEF place
  <2>5. s \in Signs(n)
    BY <2>2, <2>3 DEF Signs
  <2>6. chosen(s) = u
    <3>1. \A k \in 1 .. z : s[order[k]] = u[k]
        BY <1>1, <2>4
    <3>2. u = [k \in 1 .. z |-> u[k]]
        BY <2>2 DEF Signs
    <3> HIDE DEF s
    <3> QED
        BY <3>1, <3>2
  <2>7. plus(s) = e
    <3>1. \A i \in Z : s[i] = IF i \in e THEN 1 ELSE -1
        OBVIOUS
    <3> HIDE DEF s
    <3> QED
        BY <2>1, <3>1
  <2> HIDE DEF s
  <2>8. Signed(s, deltas, n) \in Hits
    BY <1>5, <2>2, <2>5, <2>6
  <2>9. s \in X
    BY <2>5, <2>8
  <2>10. f[s] = t
    BY <2>1, <2>6, <2>7, <2>9
  <2> QED
    BY <2>9, <2>10
<1>16. DOMAIN f = X
    OBVIOUS
<1>12. IsFiniteSet(SUBSET Z) /\ Cardinality(SUBSET Z) = 2 ^ (n - z)
    BY <1>8, FS_SUBSET
<1>13. Cardinality(Y \X SUBSET Z) = Cardinality(Y) * 2 ^ (n - z)
    BY <1>7, <1>12, FS_Product
<1> HIDE DEF f, X, Y, Z
<1>14. Cardinality(Y \X SUBSET Z) = Cardinality(X)
  <2> DEFINE T == Y \X SUBSET Z
  <2>1. /\ DOMAIN f = X
        /\ \A s \in X : f[s] \in T
        /\ \A r, s \in X : f[r] = f[s] => r = s
        /\ \A t \in T : \E s \in X : f[s] = t
    BY <1>9, <1>10, <1>11, <1>16
  <2> HIDE DEF T
  <2>2. Cardinality(T) = Cardinality(X)
    BY <1>7, <2>1, ImageCount
  <2> QED
    BY <2>2 DEF T
<1>15. Cardinality(X) = Cardinality(Y) * 2 ^ (n - z)
    BY <1>13, <1>14
<1> QED
    BY <1>15 DEF X, Y, z, values, K

\* The deltas of two runs are integers within the window.
LEMMA DeltasAre ==
    ASSUME NEW n \in 0 .. NumCases, NEW ks \in [1 .. n -> 0 .. 2 * Runs], NEW xs \in Outcomes(ks)
    PROVE  AreDeltas(Deltas(ks, xs), n) /\ DOMAIN Deltas(ks, xs) = 1 .. n
<1> DEFINE D == 1 .. n
<1>1. n \in Nat /\ n <= NumCases /\ Runs \in Nat
    BY Parameters
<1>2. DOMAIN ks = D
    OBVIOUS
<1> HIDE DEF D
<1>3. ASSUME NEW i \in D PROVE 2 * xs[i] - ks[i] \in -Runs .. Runs
  <2>1. ks[i] \in 0 .. 2 * Runs /\ xs[i] \in Support[ks[i]]
    BY <1>2 DEF Outcomes, D
  <2>2. xs[i] \in 0 .. Runs /\ ks[i] - xs[i] \in 0 .. Runs
    BY <2>1, SupportIs
  <2>3. \A a, b \in Int : a \in 0 .. Runs /\ b - a \in 0 .. Runs => 2 * a - b \in -Runs .. Runs
    BY <1>1
  <2>4. xs[i] \in Int /\ ks[i] \in Int
    BY <1>1, <2>1, <2>2
  <2> QED
    BY <2>2, <2>3, <2>4
<1>4. Deltas(ks, xs) = [i \in D |-> 2 * xs[i] - ks[i]]
    BY <1>2 DEF Deltas
<1>5. Deltas(ks, xs) \in [D -> -Runs .. Runs] /\ DOMAIN Deltas(ks, xs) = D
    BY <1>3, <1>4
<1> QED
    BY <1>1, <1>5 DEF AreDeltas, D

\* The flips that are counted, with the zeros that were dropped, are all.
TailOf(counts, Hits) == Sum([t \in {t \in DOMAIN counts : t \in Hits} |-> counts[t]])

\* The assignments whose sum is in Hits.
SignsHitting(values, n, Hits) == {s \in Signs(n) : Signed(s, values, n) \in Hits}

\* The counts without the zeros, doubled for each zero, are those of all signs.
LEMMA FlipsAre ==
    ASSUME NEW deltas, NEW n, AreDeltas(deltas, n), NEW Hits
    PROVE  LET counts == SignedSums(NonZero(deltas))
               zeros == Len(deltas) - Len(NonZero(deltas)) IN
           TailOf(counts, Hits) * 2 ^ zeros = Cardinality(SignsHitting(deltas, n, Hits))
<1> DEFINE values == NonZero(deltas)
           z == Cardinality(Kept(deltas))
           counts == SignedSums(values)
           zeros == Len(deltas) - Len(values)
<1>1. AreDeltas(values, z)
    BY NonZeroIs
<1>2. zeros = n - z
  <2> HIDE DEF values, z
  <2>1. Len(values) = z /\ Len(deltas) = n
    BY <1>1 DEF AreDeltas
  <2> QED
    BY <2>1
<1>3. Cardinality({s \in Signs(n) : Signed(s, deltas, n) \in Hits})
        = Cardinality({u \in Signs(z) : Signed(u, values, z) \in Hits}) * 2 ^ (n - z)
    BY ZerosDouble
<1> HIDE DEF values, z
<1>4. /\ DOMAIN counts = Window
      /\ Sum([t \in {t \in Window : t \in Hits} |-> counts[t]])
           = Cardinality({u \in Signs(z) : Signed(u, values, z) \in Hits})
    BY <1>1, TailIs
<1> HIDE DEF counts, zeros
<1>5. TailOf(counts, Hits) * 2 ^ zeros = Cardinality(SignsHitting(deltas, n, Hits))
    BY <1>2, <1>3, <1>4 DEF TailOf, SignsHitting
<1> QED
    BY <1>5 DEF counts, zeros, values

\* The two tails of the sign-flip test are those of an enumeration.
LEMMA FlipsAreExact ==
    ASSUME NEW deltas, NEW n, AreDeltas(deltas, n)
    PROVE  LET signs == [DOMAIN deltas -> {-1, 1}]
               Flipped(s) == Sum([i \in DOMAIN deltas |-> s[i] * deltas[i]])
               zeros == Len(deltas) - Len(NonZero(deltas)) IN
           /\ FlipsWorse(deltas) * 2 ^ zeros = Cardinality({s \in signs : Flipped(s) <= Sum(deltas)})
           /\ FlipsBetter(deltas) * 2 ^ zeros = Cardinality({s \in signs : Flipped(s) >= Sum(deltas)})
<1> DEFINE total == Sum(deltas)
           zeros == Len(deltas) - Len(NonZero(deltas))
           counts == SignedSums(NonZero(deltas))
           Low == {t \in Int : t <= total}
           High == {t \in Int : t >= total}
           Flipped(s) == Sum([i \in DOMAIN deltas |-> s[i] * deltas[i]])
           signs == [DOMAIN deltas -> {-1, 1}]
<1>1. DOMAIN deltas = 1 .. n /\ n \in Nat
    BY DEF AreDeltas
<1>2. signs = Signs(n) /\ \A s : Flipped(s) = Signed(s, deltas, n)
    BY <1>1 DEF Signs, Signed
<1>3. DOMAIN counts \subseteq Int
  <2>1. AreDeltas(NonZero(deltas), Cardinality(Kept(deltas)))
    BY NonZeroIs
  <2>2. DOMAIN counts = Window
    BY <2>1, TailIs
  <2> QED
    BY <2>2, WindowIs
<1>4. \A s \in Signs(n) : Signed(s, deltas, n) \in Int
  <2>1. n \in 0 .. n /\ n \in 0 .. NumCases
    BY <1>1, Parameters DEF AreDeltas
  <2> QED
    BY <2>1, SignedIsNear, WindowIs
<1> HIDE DEF counts, zeros, Flipped, signs, total
<1>5. {t \in DOMAIN counts : t <= total} = {t \in DOMAIN counts : t \in Low}
    BY <1>3
<1>6. {t \in DOMAIN counts : t >= total} = {t \in DOMAIN counts : t \in High}
    BY <1>3
<1>7. {s \in signs : Flipped(s) <= total} = SignsHitting(deltas, n, Low)
    BY <1>2, <1>4 DEF SignsHitting
<1>8. {s \in signs : Flipped(s) >= total} = SignsHitting(deltas, n, High)
    BY <1>2, <1>4 DEF SignsHitting
<1>9. FlipsWorse(deltas) = TailOf(counts, Low)
    BY <1>5 DEF FlipsWorse, TailOf, counts, total
<1>10. FlipsBetter(deltas) = TailOf(counts, High)
    BY <1>6 DEF FlipsBetter, TailOf, counts, total
<1> HIDE DEF Low, High
<1>11. \A Hits : TailOf(counts, Hits) * 2 ^ zeros = Cardinality(SignsHitting(deltas, n, Hits))
    BY FlipsAre DEF counts, zeros
<1>12. /\ FlipsWorse(deltas) * 2 ^ zeros = Cardinality({s \in signs : Flipped(s) <= total})
       /\ FlipsBetter(deltas) * 2 ^ zeros = Cardinality({s \in signs : Flipped(s) >= total})
    BY <1>7, <1>8, <1>9, <1>10, <1>11
<1> QED
    BY <1>12 DEF zeros, Flipped, signs, total

\* The suite test of every comparison is what significance.py defines.
LEMMA SuiteTestHolds == Compared => SuiteTestIsExact
<1> SUFFICES ASSUME Compared, report # NoReport PROVE SuiteTestIsExact
    BY DEF SuiteTestIsExact
<1> DEFINE deltas == Deltas(totals, after)
<1>1. PICK n \in 0 .. NumCases : totals \in [1 .. n -> 0 .. 2 * Runs]
    BY DEF Compared, TotalsTypeOK
<1>2. after \in Outcomes(totals) /\ report = Report(totals, after)
    BY DEF Compared
<1>3. AreDeltas(deltas, n) /\ DOMAIN deltas = 1 .. n
    BY <1>1, <1>2, DeltasAre
<1>4. n \in Nat /\ Runs \in Nat /\ MinDrop \in Nat \ {0}
    BY <1>1, Parameters
<1>5. report.regressed \cap report.improved = {}
  <2>1. report.regressed = Regressed(totals, after) /\ report.improved = Improved(totals, after)
    BY <1>2 DEF Report
  <2>2. \A i \in Regressed(totals, after) : -deltas[i] >= MinDrop
    BY DEF Regressed
  <2>3. \A i \in Improved(totals, after) : deltas[i] >= MinDrop
    BY DEF Improved
  <2>4. Regressed(totals, after) \subseteq 1 .. n
    <3> DEFINE p == [i \in DOMAIN totals |-> PWorse[totals[i]][after[i]]]
               m == [i \in DOMAIN totals |-> MinWorse[totals[i]]]
               D == 1 .. n
    <3>1. DOMAIN p = D
        BY <1>1
    <3>2. \A i \in D : p[i] \in Nat
      <4> TAKE i \in D
      <4>1. totals[i] \in 0 .. 2 * Runs /\ after[i] \in Support[totals[i]]
        BY <1>1, <1>2 DEF Outcomes
      <4>2. p[i] = PWorse[totals[i]][after[i]]
        BY <1>1
      <4> QED
        BY <4>1, <4>2, MinWorseIsLeast
    <3>3. IsFiniteSet(D) /\ D \subseteq Int
        BY <1>4, FS_Interval
    <3> HIDE DEF p, D
    <3>4. SortsBy(Order(p), p, D)
        BY <3>1, <3>2, <3>3, OrderSorts
    <3> DEFINE order == Order(p)
    <3>5. order \in [1 .. Cardinality(D) -> D]
        BY <3>4 DEF SortsBy
    <3> HIDE DEF order
    <3>6. Rejected(p, m, order, CasesAlpha) \subseteq D
        BY <3>5 DEF Rejected
    <3>7. Regressed(totals, after) \subseteq Rejected(p, m, order, CasesAlpha)
        BY DEF Regressed, p, order
    <3> QED
        BY <3>6, <3>7 DEF D
  <2>5. \A i \in 1 .. n : deltas[i] \in Int
    BY <1>3, <1>4 DEF AreDeltas
  <2> HIDE DEF deltas
  <2>6. ASSUME NEW i, i \in Regressed(totals, after), i \in Improved(totals, after) PROVE FALSE
    <3>1. -deltas[i] >= MinDrop /\ deltas[i] >= MinDrop /\ deltas[i] \in Int
        BY <2>2, <2>3, <2>4, <2>5, <2>6
    <3> QED
        BY <1>4, <3>1
  <2> QED
    BY <2>1, <2>6
<1>6. ~(SuiteRegressed(deltas) /\ SuiteImproved(deltas))
  <2> SUFFICES ASSUME SuiteRegressed(deltas), SuiteImproved(deltas) PROVE FALSE
    OBVIOUS
  <2>1. /\ deltas # <<>>
        /\ -Sum(deltas) >= MinDrop * Len(deltas)
        /\ Sum(deltas) >= MinDrop * Len(deltas)
    BY DEF SuiteRegressed, SuiteImproved
  <2> HIDE DEF deltas
  <2>2. deltas \in [1 .. n -> Int] /\ IsFiniteSet(1 .. n)
    BY <1>3, <1>4, FS_Interval DEF AreDeltas
  <2>3. Sum(deltas) \in Int
    BY <2>2, SumType
  <2>4. Len(deltas) = n /\ n # 0
    <3>1. Len(deltas) = n
        BY <1>4, <2>2
    <3>2. n = 0 => deltas = <<>>
        BY <1>4, <2>2
    <3> QED
        BY <2>1, <3>1, <3>2
  <2>5. MinDrop * n > 0
    <3>1. \A a, b \in Nat : a # 0 /\ b # 0 => a * b > 0
        OBVIOUS
    <3> QED
        BY <1>4, <2>4, <3>1
  <2>6. MinDrop * n \in Int
    BY <1>4
  <2> QED
    BY <2>1, <2>3, <2>4, <2>5, <2>6
<1> HIDE DEF deltas
<1>7. LET signs == [DOMAIN deltas -> {-1, 1}]
          Flipped(s) == Sum([i \in DOMAIN deltas |-> s[i] * deltas[i]])
          zeros == Len(deltas) - Len(NonZero(deltas)) IN
      /\ FlipsWorse(deltas) * 2 ^ zeros = Cardinality({s \in signs : Flipped(s) <= Sum(deltas)})
      /\ FlipsBetter(deltas) * 2 ^ zeros = Cardinality({s \in signs : Flipped(s) >= Sum(deltas)})
    BY <1>3, FlipsAreExact
<1> QED
    BY <1>5, <1>6, <1>7 DEF SuiteTestIsExact, deltas

-----------------------------------------------------------------------------
(* Products and sums of products                                           *)

\* One more element of a set multiplies by its factor, whichever it is.
IsMultiplicative(G, w, D) ==
    /\ G \in [SUBSET D -> Nat]
    /\ G[{}] = 1
    /\ \A s \in SUBSET D : \A d \in s : G[s] = w[d] * G[s \ {d}]

\* Products commute and associate.
LEMMA ThreeFactors ==
    ASSUME NEW a \in Nat, NEW b \in Nat, NEW c \in Nat
    PROVE  a * (b * c) = b * (a * c) /\ a * b \in Nat /\ a * b = b * a /\ a * (b * c) = (a * b) * c
    OBVIOUS

\* Every function of naturals on a finite set has its products.
LEMMA MultiplicativeExists ==
    ASSUME NEW D, IsFiniteSet(D), NEW w, \A d \in D : w[d] \in Nat
    PROVE  \E G : IsMultiplicative(G, w, D)
<1> DEFINE T == {s \in SUBSET D : ~\E G : IsMultiplicative(G, w, s)}
<1> SUFFICES ASSUME T # {} PROVE FALSE
    OBVIOUS
<1>1. PICK E \in T : \A d \in E : E \ {d} \notin T
    BY LeastSet
<1>2. E # {}
  <2> SUFFICES ASSUME E = {} PROVE FALSE
    OBVIOUS
  <2> DEFINE G == [s \in SUBSET E |-> 1]
  <2>1. IsMultiplicative(G, w, E)
    BY DEF IsMultiplicative
  <2> QED
    BY <2>1
<1>3. PICK d \in E : TRUE
    BY <1>2
<1>4. PICK H : IsMultiplicative(H, w, E \ {d})
    BY <1>1
<1> DEFINE G == [s \in SUBSET E |-> IF d \in s THEN w[d] * H[s \ {d}] ELSE H[s]]
<1>5. /\ \A s \in SUBSET (E \ {d}) : H[s] \in Nat
      /\ H[{}] = 1
      /\ \A s \in SUBSET (E \ {d}) : \A e \in s : H[s] = w[e] * H[s \ {e}]
    BY <1>4 DEF IsMultiplicative
<1>6. w[d] \in Nat /\ \A e \in E : w[e] \in Nat
    OBVIOUS
<1>7. ASSUME NEW s \in SUBSET E PROVE G[s] \in Nat
  <2>1. CASE d \in s
    <3>1. s \ {d} \in SUBSET (E \ {d})
        OBVIOUS
    <3>2. H[s \ {d}] \in Nat
        BY <1>5, <3>1
    <3>3. G[s] = w[d] * H[s \ {d}]
        BY <2>1
    <3> QED
        BY <1>6, <3>2, <3>3, ThreeFactors
  <2>2. CASE d \notin s
    <3>1. s \in SUBSET (E \ {d})
        BY <2>2
    <3> QED
        BY <1>5, <2>2, <3>1
  <2> QED
    BY <2>1, <2>2
<1>8. ASSUME NEW s \in SUBSET E, NEW e \in s PROVE G[s] = w[e] * G[s \ {e}]
  <2>1. CASE d \notin s
    <3>1. s \in SUBSET (E \ {d}) /\ d \notin s \ {e} /\ s \ {e} \in SUBSET E
        BY <2>1
    <3>2. H[s] = w[e] * H[s \ {e}]
        BY <1>5, <3>1
    <3> QED
        BY <2>1, <3>1, <3>2
  <2>2. CASE e = d
    <3>1. d \in s /\ d \notin s \ {e} /\ s \ {e} = s \ {d} /\ s \ {e} \in SUBSET E
        BY <2>2
    <3> QED
        BY <2>2, <3>1
  <2>3. CASE d \in s /\ e # d
    <3>1. s \ {d} \in SUBSET (E \ {d}) /\ e \in s \ {d}
        BY <2>3
    <3>2. H[s \ {d}] = w[e] * H[(s \ {d}) \ {e}]
        BY <1>5, <3>1
    <3>3. (s \ {d}) \ {e} = (s \ {e}) \ {d} /\ d \in s \ {e} /\ s \ {e} \in SUBSET E
        BY <2>3
    <3>4. G[s] = w[d] * H[s \ {d}] /\ G[s \ {e}] = w[d] * H[(s \ {d}) \ {e}]
        BY <2>3, <3>3
    <3>5. (s \ {d}) \ {e} \in SUBSET (E \ {d})
        OBVIOUS
    <3>6. H[(s \ {d}) \ {e}] \in Nat /\ w[d] \in Nat /\ w[e] \in Nat
        BY <1>5, <1>6, <3>5
    <3> HIDE DEF G
    <3>7. w[d] * (w[e] * H[(s \ {d}) \ {e}]) = w[e] * (w[d] * H[(s \ {d}) \ {e}])
        BY <3>6, ThreeFactors
    <3> QED
        BY <3>2, <3>4, <3>7
  <2> QED
    BY <2>1, <2>2, <2>3
<1>9. IsMultiplicative(G, w, E)
  <2>1. G[{}] = 1
    BY <1>5
  <2>2. G \in [SUBSET E -> Nat]
    BY <1>7
  <2> HIDE DEF G
  <2> QED
    BY <1>8, <2>1, <2>2 DEF IsMultiplicative
<1> QED
    BY <1>9

\* The fold of FoldSet, one element at a time.
ProductStep(w, D, g) ==
    [s \in SUBSET D |-> IF s = {} THEN 1
                        ELSE w[CHOOSE x \in s : TRUE] * g[s \ {CHOOSE x \in s : TRUE}]]

\* Product is the product, whatever the order of the fold.
LEMMA ProductIs ==
    ASSUME NEW D, IsFiniteSet(D), NEW w, DOMAIN w = D, NEW G, IsMultiplicative(G, w, D)
    PROVE  Product(w) = G[D]
<1> DEFINE Some(s) == CHOOSE x \in s : TRUE
           iter == CHOOSE g : g = ProductStep(w, D, g)
<1>1. Product(w) = iter[D]
    BY DEF Product, FoldSet, MapThenFoldSet, ProductStep
<1>2. \A s \in SUBSET D : s # {} => Some(s) \in s
    OBVIOUS
<1>3. \A s \in SUBSET D : G[s] = IF s = {} THEN 1 ELSE w[Some(s)] * G[s \ {Some(s)}]
  <2> TAKE s \in SUBSET D
  <2>1. s = {} => G[s] = 1
    BY DEF IsMultiplicative
  <2>2. s # {} => Some(s) \in s
    BY <1>2
  <2> HIDE DEF Some
  <2> QED
    BY <2>1, <2>2 DEF IsMultiplicative
<1>4. G = ProductStep(w, D, G)
    BY <1>3 DEF ProductStep, IsMultiplicative
<1>5. iter = ProductStep(w, D, iter)
    BY <1>4
<1> HIDE DEF Some, iter
<1>6. \A s \in SUBSET D : iter[s] = IF s = {} THEN 1 ELSE w[Some(s)] * iter[s \ {Some(s)}]
    BY <1>5 DEF ProductStep, Some
<1>7. \A s \in SUBSET D : iter[s] = G[s]
  <2> DEFINE T == {s \in SUBSET D : iter[s] # G[s]}
  <2> SUFFICES ASSUME T # {} PROVE FALSE
    OBVIOUS
  <2>1. PICK s \in T : \A d \in s : s \ {d} \notin T
    BY LeastSet
  <2>2. s \in SUBSET D /\ iter[s] # G[s]
    BY <2>1
  <2>3. s # {} /\ iter[s \ {Some(s)}] # G[s \ {Some(s)}]
    BY <1>3, <1>6, <2>2
  <2>4. Some(s) \in s /\ s \ {Some(s)} \in SUBSET D
    BY <1>2, <2>2, <2>3
  <2> QED
    BY <2>1, <2>3, <2>4
<1> QED
    BY <1>1, <1>7

\* A product without one of its factors.
LEMMA ProductWithout ==
    ASSUME NEW D, IsFiniteSet(D), NEW w \in [D -> Nat], NEW d \in D
    PROVE  /\ Product(w) = w[d] * Product([x \in D \ {d} |-> w[x]])
           /\ Product([x \in D \ {d} |-> w[x]]) \in Nat
<1> DEFINE S == D \ {d}
           v == [x \in S |-> w[x]]
<1>1. PICK G : IsMultiplicative(G, w, D)
    BY MultiplicativeExists
<1> DEFINE H == [s \in SUBSET S |-> G[s]]
<1>2. IsFiniteSet(S) /\ DOMAIN v = S
    BY FS_RemoveElement
<1>3. IsMultiplicative(H, v, S)
  <2>1. /\ \A s \in SUBSET S : G[s] \in Nat
        /\ G[{}] = 1
        /\ \A s \in SUBSET S : \A e \in s : G[s] = w[e] * G[s \ {e}]
    BY <1>1 DEF IsMultiplicative
  <2> QED
    BY <2>1 DEF IsMultiplicative
<1>4. H[S] = G[S] /\ G[S] \in Nat
    BY <1>1 DEF IsMultiplicative
<1> HIDE DEF v, H, S
<1>5. Product(v) = H[S]
    BY <1>2, <1>3, ProductIs
<1>6. Product(w) = G[D]
    BY <1>1, ProductIs
<1>7. G[D] = w[d] * G[D \ {d}]
    BY <1>1 DEF IsMultiplicative
<1> QED
    BY <1>4, <1>5, <1>6, <1>7 DEF v, S

\* The product of naturals is one.
LEMMA ProductType ==
    ASSUME NEW D, IsFiniteSet(D), NEW w \in [D -> Nat]
    PROVE  Product(w) \in Nat
<1>1. PICK G : IsMultiplicative(G, w, D)
    BY MultiplicativeExists
<1>2. Product(w) = G[D] /\ D \in SUBSET D
    BY <1>1, ProductIs
<1> QED
    BY <1>1, <1>2 DEF IsMultiplicative

\* A product over nothing is 1.
LEMMA ProductOfNone ==
    ASSUME NEW w, DOMAIN w = {}
    PROVE  Product(w) = 1
<1>1. PICK G : IsMultiplicative(G, w, {})
    BY FS_EmptySet, MultiplicativeExists
<1> QED
    BY <1>1, FS_EmptySet, ProductIs DEF IsMultiplicative

\* Sets without a common element add up.
LEMMA AdditiveUnion ==
    ASSUME NEW D, IsFiniteSet(D), NEW w, \A d \in D : w[d] \in Int, NEW G, IsAdditive(G, w, D),
           NEW S \in SUBSET D, NEW T \in SUBSET D, S \cap T = {}
    PROVE  G[S \cup T] = G[S] + G[T]
<1> DEFINE Bad == {s \in SUBSET T : G[S \cup s] # G[S] + G[s]}
<1> SUFFICES ASSUME Bad # {} PROVE FALSE
    OBVIOUS
<1>1. IsFiniteSet(T)
    BY FS_Subset
<1>2. PICK s \in Bad : \A d \in s : s \ {d} \notin Bad
    BY <1>1, LeastSet
<1>3. s \in SUBSET T /\ G[S \cup s] # G[S] + G[s] /\ s \in SUBSET D
    BY <1>2
<1>4. G[S] \in Int /\ G[{}] = 0
    BY DEF IsAdditive
<1>5. s # {}
  <2> SUFFICES ASSUME s = {} PROVE FALSE
    OBVIOUS
  <2>1. S \cup s = S
    OBVIOUS
  <2> QED
    BY <1>3, <1>4, <2>1
<1>6. PICK d \in s : TRUE
    BY <1>5
<1>7. s \ {d} \in SUBSET T /\ s \ {d} \in SUBSET D /\ d \notin S
    BY <1>3, <1>6
<1>8. G[S \cup (s \ {d})] = G[S] + G[s \ {d}]
    BY <1>2, <1>6, <1>7
<1>9. G[s] = w[d] + G[s \ {d}] /\ G[s \ {d}] \in Int
    BY <1>3, <1>6, <1>7 DEF IsAdditive
<1>10. G[S \cup s] = w[d] + G[S \cup (s \ {d})]
  <2> DEFINE A == S \cup s
  <2>1. A \in SUBSET D /\ d \in A /\ A \ {d} = S \cup (s \ {d})
    BY <1>3, <1>6, <1>7
  <2> HIDE DEF A
  <2>2. G[A] = w[d] + G[A \ {d}]
    BY <2>1 DEF IsAdditive
  <2> QED
    BY <2>1, <2>2 DEF A
<1>11. w[d] + (G[S] + G[s \ {d}]) = G[S] + (w[d] + G[s \ {d}])
  <2>1. w[d] \in Int /\ d \in D
    BY <1>3, <1>6
  <2> QED
    BY <1>4, <1>9, <2>1
<1> QED
    BY <1>3, <1>8, <1>9, <1>10, <1>11

\* Sums of naturals are naturals, grow with the set, and of a union are at most
\* the sums of its parts.
LEMMA AdditiveNatural ==
    ASSUME NEW D, IsFiniteSet(D), NEW w, \A d \in D : w[d] \in Nat, NEW G, IsAdditive(G, w, D)
    PROVE  /\ \A S \in SUBSET D : G[S] \in Nat
           /\ \A S, T \in SUBSET D : S \subseteq T => G[S] <= G[T]
           /\ \A S, T \in SUBSET D : G[S \cup T] <= G[S] + G[T]
<1>0. \A d \in D : w[d] \in Int
    OBVIOUS
<1>1. \A s \in SUBSET D : G[s] \in Nat
  <2> DEFINE T == {s \in SUBSET D : G[s] \notin Nat}
  <2> SUFFICES ASSUME T # {} PROVE FALSE
    OBVIOUS
  <2>1. PICK s \in T : \A d \in s : s \ {d} \notin T
    BY LeastSet
  <2>2. s \in SUBSET D /\ s # {}
    <3>1. s \in SUBSET D /\ G[s] \notin Nat /\ G[{}] = 0
        BY <2>1 DEF IsAdditive
    <3> QED
        BY <3>1
  <2>3. PICK d \in s : TRUE
    BY <2>2
  <2>4. G[s] = w[d] + G[s \ {d}] /\ G[s \ {d}] \in Nat /\ w[d] \in Nat
    BY <2>1, <2>2, <2>3 DEF IsAdditive
  <2> QED
    BY <2>1, <2>4
<1>2. ASSUME NEW S \in SUBSET D, NEW T \in SUBSET D, S \subseteq T PROVE G[S] <= G[T]
  <2>1. S \cup (T \ S) = T /\ S \cap (T \ S) = {} /\ T \ S \in SUBSET D
    BY <1>2
  <2>2. G[S \cup (T \ S)] = G[S] + G[T \ S]
    <3> DEFINE U == T \ S
    <3>1. U \in SUBSET D /\ S \cap U = {}
        OBVIOUS
    <3> HIDE DEF U
    <3>2. G[S \cup U] = G[S] + G[U]
        BY <1>0, <3>1, AdditiveUnion
    <3> QED
        BY <3>2 DEF U
  <2>3. G[S] \in Nat /\ G[T \ S] \in Nat /\ G[T] = G[S] + G[T \ S]
    BY <1>1, <2>1, <2>2
  <2> QED
    BY <2>3
<1>3. ASSUME NEW S \in SUBSET D, NEW T \in SUBSET D PROVE G[S \cup T] <= G[S] + G[T]
  <2>1. S \cup (T \ S) = S \cup T /\ S \cap (T \ S) = {} /\ T \ S \in SUBSET D /\ T \ S \subseteq T
    OBVIOUS
  <2>2. G[S \cup (T \ S)] = G[S] + G[T \ S]
    <3> DEFINE U == T \ S
    <3>1. U \in SUBSET D /\ S \cap U = {}
        OBVIOUS
    <3> HIDE DEF U
    <3>2. G[S \cup U] = G[S] + G[U]
        BY <1>0, <3>1, AdditiveUnion
    <3> QED
        BY <3>2 DEF U
  <2>3. G[T \ S] <= G[T]
    BY <1>2, <2>1
  <2>4. G[S] \in Nat /\ G[T \ S] \in Nat /\ G[T] \in Nat /\ G[S \cup T] = G[S] + G[T \ S]
    BY <1>1, <2>1, <2>2
  <2> QED
    BY <2>3, <2>4
<1> QED
    BY <1>1, <1>2, <1>3

\* The sum over a part.
PartSum(w, S) == Sum([x \in S |-> w[x]])

\* A sum in parts.
LEMMA SumByFibre ==
    ASSUME NEW X, IsFiniteSet(X), NEW D, IsFiniteSet(D), NEW h \in [X -> D],
           NEW w \in [X -> Int], NEW v, DOMAIN v = D,
           \A d \in D : v[d] = PartSum(w, Fibre(h, X, d))
    PROVE  Sum(w) = Sum(v)
<1>1. PICK G : IsAdditive(G, w, X)
    BY AdditiveExists
<1> DEFINE Above(s) == {x \in X : h[x] \in s}
           H == [s \in SUBSET D |-> G[Above(s)]]
<1>2. \A s : Above(s) \in SUBSET X
    OBVIOUS
<1>3. ASSUME NEW s \in SUBSET D, NEW d \in s PROVE H[s] = v[d] + H[s \ {d}]
  <2>1. Above(s) = Above({d}) \cup Above(s \ {d}) /\ Above({d}) \cap Above(s \ {d}) = {}
    OBVIOUS
  <2>2. Above({d}) = Fibre(h, X, d)
    BY DEF Fibre
  <2>3. v[d] = G[Above({d})]
    <3> DEFINE A == Above({d})
    <3>1. v[d] = PartSum(w, A) /\ A \subseteq X
        BY <2>2
    <3> HIDE DEF A
    <3>2. PartSum(w, A) = G[A]
        BY <1>1, <3>1, SumOfPart DEF PartSum
    <3> QED
        BY <3>1, <3>2 DEF A
  <2>4. s \ {d} \in SUBSET D
    OBVIOUS
  <2>5. G[Above({d}) \cup Above(s \ {d})] = G[Above({d})] + G[Above(s \ {d})]
    <3> DEFINE A == Above({d})
               B == Above(s \ {d})
    <3>1. A \in SUBSET X /\ B \in SUBSET X /\ A \cap B = {}
        BY <2>1
    <3>2. \A x \in X : w[x] \in Int
        OBVIOUS
    <3> HIDE DEF A, B
    <3>3. G[A \cup B] = G[A] + G[B]
        BY <1>1, <3>1, <3>2, AdditiveUnion
    <3> QED
        BY <3>3 DEF A, B
  <2> HIDE DEF Above
  <2> QED
    BY <2>1, <2>3, <2>4, <2>5
<1>4. H[{}] = 0
  <2>1. Above({}) = {}
    OBVIOUS
  <2> QED
    BY <1>1, <2>1 DEF IsAdditive
<1>5. H \in [SUBSET D -> Int]
    BY <1>1, <1>2 DEF IsAdditive
<1>6. Above(D) = X
    OBVIOUS
<1>7. H[D] = G[X]
    BY <1>6
<1> HIDE DEF H
<1>8. IsAdditive(H, v, D)
    BY <1>3, <1>4, <1>5 DEF IsAdditive
<1> QED
    BY <1>1, <1>7, <1>8, SumIs

\* A factor of every term is a factor of the sum.
LEMMA SumScaled ==
    ASSUME NEW D, IsFiniteSet(D), NEW w \in [D -> Int], NEW c \in Int,
           NEW v, DOMAIN v = D, \A d \in D : v[d] = c * w[d]
    PROVE  Sum(v) = c * Sum(w)
<1>1. PICK G : IsAdditive(G, w, D)
    BY AdditiveExists
<1> DEFINE H == [s \in SUBSET D |-> c * G[s]]
<1>2. \A a, b \in Int : a * b \in Int /\ c * (a + b) = c * a + c * b
    OBVIOUS
<1>3. \A s \in SUBSET D : G[s] \in Int /\ c * G[s] \in Int
    BY <1>1 DEF IsAdditive
<1>4. H \in [SUBSET D -> Int]
    BY <1>3
<1>5. H[{}] = 0
    BY <1>1 DEF IsAdditive
<1>6. ASSUME NEW s \in SUBSET D, NEW d \in s PROVE H[s] = v[d] + H[s \ {d}]
  <2>1. G[s] = w[d] + G[s \ {d}] /\ s \ {d} \in SUBSET D
    BY <1>1 DEF IsAdditive
  <2>2. w[d] \in Int /\ G[s \ {d}] \in Int
    BY <1>3, <2>1
  <2>3. H[s] = c * G[s] /\ H[s \ {d}] = c * G[s \ {d}] /\ v[d] = c * w[d]
    BY <2>1
  <2>4. c * (w[d] + G[s \ {d}]) = c * w[d] + c * G[s \ {d}]
    BY <1>2, <2>2
  <2> HIDE DEF H
  <2> QED
    BY <2>1, <2>3, <2>4
<1>7. H[D] = c * G[D]
    OBVIOUS
<1> HIDE DEF H
<1>8. IsAdditive(H, v, D)
    BY <1>4, <1>5, <1>6 DEF IsAdditive
<1> QED
    BY <1>1, <1>7, <1>8, SumIs

\* The sum of equal terms.
LEMMA SumOfEqual ==
    ASSUME NEW D, IsFiniteSet(D), NEW c \in Int, NEW w, DOMAIN w = D, \A d \in D : w[d] = c
    PROVE  Sum(w) = Cardinality(D) * c
<1> DEFINE H == [s \in SUBSET D |-> Cardinality(s) * c]
<1>1. \A s \in SUBSET D : IsFiniteSet(s) /\ Cardinality(s) \in Nat
    BY FS_Subset, FS_CardinalityType
<1>2. H \in [SUBSET D -> Int]
    BY <1>1
<1>3. H[{}] = 0
    BY FS_EmptySet
<1>4. ASSUME NEW s \in SUBSET D, NEW d \in s PROVE H[s] = w[d] + H[s \ {d}]
  <2>1. Cardinality(s \ {d}) = Cardinality(s) - 1 /\ Cardinality(s) \in Nat
    BY <1>1, FS_RemoveElement
  <2>2. \A k \in Nat : k * c = c + (k - 1) * c
    OBVIOUS
  <2>3. H[s] = Cardinality(s) * c /\ H[s \ {d}] = (Cardinality(s) - 1) * c /\ w[d] = c
    BY <2>1
  <2> HIDE DEF H
  <2> QED
    BY <2>1, <2>2, <2>3
<1>5. H[D] = Cardinality(D) * c
    OBVIOUS
<1> HIDE DEF H
<1>6. IsAdditive(H, w, D)
    BY <1>2, <1>3, <1>4 DEF IsAdditive
<1> QED
    BY <1>5, <1>6, SumIs

\* A sum of smaller terms is smaller.
LEMMA SumBelow ==
    ASSUME NEW D, IsFiniteSet(D), NEW w \in [D -> Int], NEW v \in [D -> Int],
           \A d \in D : v[d] <= w[d]
    PROVE  Sum(v) <= Sum(w)
<1>1. PICK G : IsAdditive(G, w, D)
    BY AdditiveExists
<1>2. PICK H : IsAdditive(H, v, D)
    BY AdditiveExists
<1>3. \A s \in SUBSET D : H[s] <= G[s]
  <2> DEFINE T == {s \in SUBSET D : ~(H[s] <= G[s])}
  <2> SUFFICES ASSUME T # {} PROVE FALSE
    OBVIOUS
  <2>1. PICK s \in T : \A d \in s : s \ {d} \notin T
    BY LeastSet
  <2>2. s \in SUBSET D /\ ~(H[s] <= G[s]) /\ G[{}] = 0 /\ H[{}] = 0
    BY <1>1, <1>2, <2>1 DEF IsAdditive
  <2>3. s # {}
    BY <2>2
  <2>4. PICK d \in s : TRUE
    BY <2>3
  <2>5. G[s] = w[d] + G[s \ {d}] /\ H[s] = v[d] + H[s \ {d}]
    BY <1>1, <1>2, <2>2 DEF IsAdditive
  <2>6. s \ {d} \in SUBSET D
    BY <2>2
  <2>7. H[s \ {d}] <= G[s \ {d}] /\ H[s \ {d}] \in Int /\ G[s \ {d}] \in Int
    BY <1>1, <1>2, <2>1, <2>4, <2>6 DEF IsAdditive
  <2>8. v[d] \in Int /\ w[d] \in Int /\ v[d] <= w[d]
    BY <2>2
  <2> QED
    BY <2>2, <2>5, <2>7, <2>8
<1>4. Sum(w) = G[D] /\ Sum(v) = H[D] /\ D \in SUBSET D
    BY <1>1, <1>2, SumIs
<1> QED
    BY <1>3, <1>4

-----------------------------------------------------------------------------
(* Products over boxes: where each case may have the counts of a set of    *)
(* its own, the sum of the products is the product of the sums.            *)

\* There are finitely many functions between finite sets.
LEMMA FunctionsAreFinite ==
    ASSUME NEW D, IsFiniteSet(D), NEW V, IsFiniteSet(V), NEW v \in V
    PROVE  IsFiniteSet([D -> V])
<1> DEFINE Value(S, i) == IF \E x \in V : <<i, x>> \in S THEN CHOOSE x \in V : <<i, x>> \in S ELSE v
           f == [S \in SUBSET (D \X V) |-> [i \in D |-> Value(S, i)]]
<1>1. IsFiniteSet(SUBSET (D \X V))
    BY FS_Product, FS_SUBSET
<1>2. f \in [SUBSET (D \X V) -> [D -> V]]
    OBVIOUS
<1>3. ASSUME NEW s \in [D -> V] PROVE \E S \in SUBSET (D \X V) : f[S] = s
  <2> DEFINE S == {q \in D \X V : q[2] = s[q[1]]}
  <2>1. S \in SUBSET (D \X V)
    OBVIOUS
  <2>2. \A i \in D : \A x \in V : <<i, x>> \in S <=> x = s[i]
    OBVIOUS
  <2> HIDE DEF S
  <2>3. \A i \in D : Value(S, i) = s[i]
    BY <2>2
  <2>4. s = [i \in D |-> s[i]]
    OBVIOUS
  <2>5. f[S] = s
    BY <2>1, <2>3, <2>4
  <2> QED
    BY <2>1, <2>5
<1>4. f \in Surjection(SUBSET (D \X V), [D -> V])
    BY <1>2, <1>3 DEF Surjection
<1> HIDE DEF f
<1> QED
    BY <1>1, <1>4, FS_Surjection

\* The choices of a value of A[i] for each i of I, and what they weigh.
Boxed(A, I) == {xs \in [I -> 0 .. Runs] : \A i \in I : xs[i] \in A[i]}

\* The product of an outcome's weights, and the sum of those of a box.
Mass(w, xs, I) == Product([i \in I |-> w[i][xs[i]]])

Masses(w, A, I) == Sum([xs \in Boxed(A, I) |-> Mass(w, xs, I)])

\* Weights of finitely many cases, and the counts that each may have.
AreWeights(w, A, D) ==
    /\ IsFiniteSet(D)
    /\ w \in [D -> [0 .. Runs -> Nat]]
    /\ A \in [D -> SUBSET (0 .. Runs)]

\* A box is finite, and its masses are naturals.
LEMMA BoxIsFinite ==
    ASSUME NEW w, NEW A, NEW D, AreWeights(w, A, D), NEW I \in SUBSET D
    PROVE  /\ IsFiniteSet(I) /\ IsFiniteSet(Boxed(A, I))
           /\ \A xs \in [I -> 0 .. Runs] : Mass(w, xs, I) \in Nat
<1>0. Runs \in Nat /\ 0 \in 0 .. Runs
    BY Parameters
<1>1. IsFiniteSet(I) /\ IsFiniteSet(0 .. Runs)
    BY <1>0, FS_Subset, FS_Interval DEF AreWeights
<1>2. IsFiniteSet([I -> 0 .. Runs])
    BY <1>0, <1>1, FunctionsAreFinite
<1>3. Boxed(A, I) \in SUBSET [I -> 0 .. Runs]
    BY DEF Boxed
<1>4. ASSUME NEW xs \in [I -> 0 .. Runs] PROVE Mass(w, xs, I) \in Nat
  <2> DEFINE f == [i \in I |-> w[i][xs[i]]]
  <2>1. f \in [I -> Nat]
    BY DEF AreWeights
  <2> HIDE DEF f
  <2>2. Product(f) \in Nat
    BY <1>1, <2>1, ProductType
  <2> QED
    BY <2>2 DEF f, Mass
<1> QED
    BY <1>1, <1>2, <1>3, <1>4, FS_Subset

\* The choices with x for j weigh what x does times what the others weigh.
LEMMA BoxSlice ==
    ASSUME NEW w, NEW A, NEW D, AreWeights(w, A, D), NEW I \in SUBSET D, NEW j \in I,
           NEW x \in A[j]
    PROVE  Sum([xs \in {xs \in Boxed(A, I) : xs[j] = x} |-> Mass(w, xs, I)])
              = w[j][x] * Masses(w, A, I \ {j})
<1> DEFINE J == I \ {j}
           F == {xs \in Boxed(A, I) : xs[j] = x}
           E == Boxed(A, J)
           v == [xs \in F |-> Mass(w, xs, I)]
           u == [ys \in E |-> w[j][x] * Mass(w, ys, J)]
           Extended(ys) == [i \in I |-> IF i = j THEN x ELSE ys[i]]
           g == [ys \in E |-> Extended(ys)]
<1>1. J \in SUBSET D /\ x \in 0 .. Runs /\ w[j][x] \in Nat
    BY DEF AreWeights
<1>2. /\ IsFiniteSet(I) /\ IsFiniteSet(Boxed(A, I))
      /\ \A xs \in [I -> 0 .. Runs] : Mass(w, xs, I) \in Nat
      /\ IsFiniteSet(E)
      /\ \A ys \in [J -> 0 .. Runs] : Mass(w, ys, J) \in Nat
    BY <1>1, BoxIsFinite
<1>3. F \in SUBSET Boxed(A, I) /\ IsFiniteSet(F)
  <2>1. F \in SUBSET Boxed(A, I)
    OBVIOUS
  <2> QED
    BY <1>2, <2>1, FS_Subset
<1>4. v \in [F -> Int]
    BY <1>2 DEF Boxed
<1>5. ASSUME NEW ys \in E
      PROVE  /\ Extended(ys) \in F
             /\ Mass(w, Extended(ys), I) = w[j][x] * Mass(w, ys, J)
  <2> DEFINE xs == Extended(ys)
  <2>1. ys \in [J -> 0 .. Runs] /\ \A i \in J : ys[i] \in A[i]
    BY DEF Boxed
  <2>2. xs \in [I -> 0 .. Runs]
    BY <1>1, <2>1
  <2>3. xs[j] = x /\ \A i \in J : xs[i] = ys[i]
    OBVIOUS
  <2>4. \A i \in I : xs[i] \in A[i]
    BY <2>1, <2>3
  <2>5. xs \in F
    BY <2>2, <2>3, <2>4 DEF Boxed
  <2> HIDE DEF xs
  <2> DEFINE f == [i \in I |-> w[i][xs[i]]]
             h == [i \in J |-> w[i][ys[i]]]
  <2>6. f \in [I -> Nat] /\ h \in [J -> Nat]
    BY <2>1, <2>2 DEF AreWeights
  <2>7. f[j] = w[j][x]
    BY <2>3
  <2>8. [i \in I \ {j} |-> f[i]] = h
    BY <2>3
  <2> HIDE DEF f, h
  <2>9. Product(f) = f[j] * Product([i \in I \ {j} |-> f[i]])
    BY <1>2, <2>6, ProductWithout
  <2>10. Product(f) = w[j][x] * Product(h)
    BY <2>7, <2>8, <2>9
  <2> QED
    BY <2>5, <2>10 DEF Mass, f, h, xs
<1>6. g \in [E -> F]
    BY <1>5
<1>7. ASSUME NEW a \in E, NEW b \in E, g[a] = g[b] PROVE a = b
  <2>1. a \in [J -> 0 .. Runs] /\ b \in [J -> 0 .. Runs]
    BY DEF Boxed
  <2>2. Extended(a) = Extended(b)
    BY <1>7
  <2>3. \A i \in J : Extended(a)[i] = a[i] /\ Extended(b)[i] = b[i]
    OBVIOUS
  <2>4. \A i \in J : a[i] = b[i]
    BY <2>2, <2>3
  <2> QED
    BY <2>1, <2>4
<1>8. ASSUME NEW xs \in F PROVE xs \in Image(g, E)
  <2> DEFINE ys == [i \in J |-> xs[i]]
  <2>1. xs \in [I -> 0 .. Runs] /\ xs[j] = x /\ \A i \in I : xs[i] \in A[i]
    BY DEF Boxed
  <2>2. ys \in E
    BY <2>1 DEF Boxed
  <2>3. \A i \in I : Extended(ys)[i] = xs[i]
    BY <2>1
  <2>4. Extended(ys) = xs
    BY <2>1, <2>3
  <2> QED
    BY <2>2, <2>4 DEF Image
<1>9. \A ys \in E : u[ys] = v[g[ys]]
    BY <1>5
<1>10. DOMAIN u = E
    OBVIOUS
<1>11. u = [ys \in E |-> u[ys]]
    OBVIOUS
<1>12. Sum(u) = w[j][x] * Masses(w, A, J)
  <2> DEFINE m == [ys \in E |-> Mass(w, ys, J)]
  <2>1. m \in [E -> Int]
    <3>1. \A ys \in E : ys \in [J -> 0 .. Runs]
        BY DEF Boxed
    <3>2. \A ys \in E : Mass(w, ys, J) \in Int
        BY <1>2, <3>1
    <3> QED
        BY <3>2
  <2>2. \A ys \in E : u[ys] = w[j][x] * m[ys]
    OBVIOUS
  <2>3. Masses(w, A, J) = Sum(m)
    BY DEF Masses
  <2>4. w[j][x] \in Int
    BY <1>1
  <2> HIDE DEF m, u, E
  <2>5. Sum(u) = w[j][x] * Sum(m)
    BY <1>2, <1>10, <2>1, <2>2, <2>4, SumScaled
  <2> QED
    BY <2>3, <2>5
<1> HIDE DEF u, v, g, E, F
<1>13. Renames(u, E, g, v, F)
    BY <1>2, <1>3, <1>4, <1>6, <1>7, <1>8, <1>9, <1>10, <1>11 DEF Renames
<1>14. Sum(v) = Sum(u)
    BY <1>13, SumRenamed
<1> QED
    BY <1>12, <1>14 DEF v, F

\* One case of a box is a factor of its mass.
LEMMA BoxStep ==
    ASSUME NEW w, NEW A, NEW D, AreWeights(w, A, D), NEW I \in SUBSET D, NEW j \in I
    PROVE  /\ Masses(w, A, I) = PartSum(w[j], A[j]) * Masses(w, A, I \ {j})
           /\ PartSum(w[j], A[j]) \in Nat
           /\ Masses(w, A, I \ {j}) \in Nat
<1> DEFINE J == I \ {j}
           X == Boxed(A, I)
           V == A[j]
           h == [xs \in X |-> xs[j]]
           m == [xs \in X |-> Mass(w, xs, I)]
           p == [x \in V |-> w[j][x]]
           v == [x \in V |-> w[j][x] * Masses(w, A, J)]
<1>1. J \in SUBSET D /\ V \in SUBSET (0 .. Runs)
    BY DEF AreWeights
<1>2. IsFiniteSet(V)
  <2>1. IsFiniteSet(0 .. Runs)
    BY Parameters, FS_Interval
  <2> HIDE DEF V
  <2> QED
    BY <1>1, <2>1, FS_Subset
<1>3. /\ IsFiniteSet(X)
      /\ \A xs \in [I -> 0 .. Runs] : Mass(w, xs, I) \in Nat
      /\ IsFiniteSet(Boxed(A, J))
      /\ \A ys \in [J -> 0 .. Runs] : Mass(w, ys, J) \in Nat
    BY <1>1, BoxIsFinite
<1>4. h \in [X -> V]
    BY DEF Boxed
<1>5. m \in [X -> Int]
  <2>1. \A xs \in X : xs \in [I -> 0 .. Runs]
    BY DEF Boxed
  <2>2. \A xs \in X : Mass(w, xs, I) \in Int
    BY <1>3, <2>1
  <2> QED
    BY <2>2
<1>6. p \in [V -> Nat]
    BY <1>1 DEF AreWeights
<1>7. Masses(w, A, J) \in Nat
  <2> DEFINE k == [ys \in Boxed(A, J) |-> Mass(w, ys, J)]
  <2>1. \A ys \in Boxed(A, J) : ys \in [J -> 0 .. Runs]
    BY DEF Boxed
  <2>2. \A ys \in Boxed(A, J) : Mass(w, ys, J) \in Nat
    BY <1>3, <2>1
  <2>3. k \in [Boxed(A, J) -> Nat]
    BY <2>2
  <2> HIDE DEF k
  <2>4. Sum(k) \in Nat
    BY <1>3, <2>3, SumOfNaturals
  <2> QED
    BY <2>4 DEF k, Masses
<1>8. Sum(p) \in Nat
  <2> HIDE DEF p, V
  <2> QED
    BY <1>2, <1>6, SumOfNaturals
<1>9. ASSUME NEW x \in V PROVE v[x] = PartSum(m, Fibre(h, X, x))
  <2>1. Fibre(h, X, x) = {xs \in X : xs[j] = x}
    BY DEF Fibre
  <2>2. Sum([xs \in {xs \in Boxed(A, I) : xs[j] = x} |-> Mass(w, xs, I)])
          = w[j][x] * Masses(w, A, I \ {j})
    BY <1>9, BoxSlice
  <2>3. [xs \in {xs \in X : xs[j] = x} |-> m[xs]]
          = [xs \in {xs \in X : xs[j] = x} |-> Mass(w, xs, I)]
    OBVIOUS
  <2> QED
    BY <2>1, <2>2, <2>3 DEF PartSum
<1>10. DOMAIN v = V /\ \A x \in V : v[x] = Masses(w, A, J) * p[x]
  <2>1. \A x \in V : p[x] \in Nat /\ p[x] = w[j][x]
    BY <1>6
  <2>2. \A a, b \in Nat : a * b = b * a
    OBVIOUS
  <2> HIDE DEF p
  <2> QED
    BY <1>7, <2>1, <2>2
<1>11. Masses(w, A, I) = Sum(m)
    BY DEF Masses
<1>12. PartSum(w[j], A[j]) = Sum(p)
    BY DEF PartSum
<1> HIDE DEF X, V, h, m, p, v
<1>13. Sum(m) = Sum(v)
    BY <1>2, <1>3, <1>4, <1>5, <1>9, <1>10, SumByFibre
<1>14. Sum(v) = Masses(w, A, J) * Sum(p)
    BY <1>2, <1>6, <1>7, <1>10, SumScaled
<1>15. \A a, b \in Nat : a * b = b * a
    OBVIOUS
<1> QED
    BY <1>7, <1>8, <1>11, <1>12, <1>13, <1>14, <1>15

\* What a box weighs is the product of what its sides weigh.
LEMMA BoxIs ==
    ASSUME NEW w, NEW A, NEW D, AreWeights(w, A, D), NEW I \in SUBSET D
    PROVE  /\ Masses(w, A, I) = Product([i \in I |-> PartSum(w[i], A[i])])
           /\ \A i \in I : PartSum(w[i], A[i]) \in Nat
<1> DEFINE q == [i \in D |-> PartSum(w[i], A[i])]
           T == {s \in SUBSET D : Masses(w, A, s) # Product([i \in s |-> q[i]])}
<1>0. IsFiniteSet(D)
    BY DEF AreWeights
<1>1. ASSUME NEW i \in D PROVE PartSum(w[i], A[i]) \in Nat
  <2>1. D \in SUBSET D
    OBVIOUS
  <2> QED
    BY <2>1, BoxStep
<1>2. T = {}
  <2> SUFFICES ASSUME T # {} PROVE FALSE
    OBVIOUS
  <2>1. PICK s \in T : \A d \in s : s \ {d} \notin T
    BY <1>0, LeastSet
  <2>2. s \in SUBSET D /\ Masses(w, A, s) # Product([i \in s |-> q[i]])
    BY <2>1
  <2>3. s # {}
    <3> SUFFICES ASSUME s = {} PROVE FALSE
        OBVIOUS
    <3> DEFINE e == [i \in {} |-> 0]
               m == [xs \in Boxed(A, {}) |-> Mass(w, xs, {})]
    <3>1. Product([i \in s |-> q[i]]) = 1
        BY ProductOfNone
    <3>2. Boxed(A, {}) = {e}
        BY DEF Boxed
    <3>3. Mass(w, e, {}) = 1
        BY ProductOfNone DEF Mass
    <3>4. IsFiniteSet({e}) /\ Cardinality({e}) = 1
        BY FS_Singleton
    <3>5. DOMAIN m = {e} /\ \A xs \in {e} : m[xs] = 1
        BY <3>2, <3>3
    <3> HIDE DEF m, e
    <3>6. Sum(m) = 1 * 1
        BY <3>4, <3>5, SumOfEqual
    <3>7. Masses(w, A, {}) = 1
        BY <3>6 DEF Masses, m
    <3> QED
        BY <2>2, <3>1, <3>7
  <2>4. PICK j \in s : TRUE
    BY <2>3
  <2>5. s \ {j} \in SUBSET D /\ j \in D
    BY <2>2
  <2>6. Masses(w, A, s \ {j}) = Product([i \in s \ {j} |-> q[i]])
    BY <2>1, <2>5
  <2>7. Masses(w, A, s) = q[j] * Masses(w, A, s \ {j})
    BY <2>2, <2>5, BoxStep
  <2> DEFINE f == [i \in s |-> q[i]]
  <2>8. f \in [s -> Nat]
    BY <1>1, <2>2
  <2>9. IsFiniteSet(s)
    BY <1>0, <2>2, FS_Subset
  <2>10. f[j] = q[j] /\ [i \in s \ {j} |-> f[i]] = [i \in s \ {j} |-> q[i]]
    OBVIOUS
  <2> HIDE DEF f, q
  <2>11. Product(f) = f[j] * Product([i \in s \ {j} |-> f[i]])
    BY <2>4, <2>8, <2>9, ProductWithout
  <2> QED
    BY <2>2, <2>6, <2>7, <2>10, <2>11 DEF f
<1>3. Masses(w, A, I) = Product([i \in I |-> q[i]])
    BY <1>2
<1>4. [i \in I |-> q[i]] = [i \in I |-> PartSum(w[i], A[i])]
    OBVIOUS
<1> QED
    BY <1>1, <1>3, <1>4

-----------------------------------------------------------------------------
(* The tables that a total allows: their weights add up to Tables          *)
(* (Vandermonde), and a total and its complement mirror each other.        *)

\* A sum of sums.
LEMMA SumAdded ==
    ASSUME NEW D, IsFiniteSet(D), NEW w \in [D -> Int], NEW v \in [D -> Int],
           NEW u, DOMAIN u = D, \A d \in D : u[d] = w[d] + v[d]
    PROVE  Sum(u) = Sum(w) + Sum(v)
<1>1. PICK G : IsAdditive(G, w, D)
    BY AdditiveExists
<1>2. PICK H : IsAdditive(H, v, D)
    BY AdditiveExists
<1> DEFINE K == [s \in SUBSET D |-> G[s] + H[s]]
<1>3. \A s \in SUBSET D : G[s] \in Int /\ H[s] \in Int
    BY <1>1, <1>2 DEF IsAdditive
<1>4. K \in [SUBSET D -> Int]
    BY <1>3
<1>5. K[{}] = 0
    BY <1>1, <1>2 DEF IsAdditive
<1>6. ASSUME NEW s \in SUBSET D, NEW d \in s PROVE K[s] = u[d] + K[s \ {d}]
  <2>1. G[s] = w[d] + G[s \ {d}] /\ H[s] = v[d] + H[s \ {d}] /\ s \ {d} \in SUBSET D
    BY <1>1, <1>2 DEF IsAdditive
  <2>2. /\ w[d] \in Int /\ v[d] \in Int /\ u[d] = w[d] + v[d]
        /\ G[s \ {d}] \in Int /\ H[s \ {d}] \in Int
    BY <1>3, <2>1
  <2>3. K[s] = G[s] + H[s] /\ K[s \ {d}] = G[s \ {d}] + H[s \ {d}]
    BY <2>1
  <2> HIDE DEF K
  <2> QED
    BY <2>1, <2>2, <2>3
<1>7. K[D] = G[D] + H[D]
    OBVIOUS
<1> HIDE DEF K
<1>8. IsAdditive(K, u, D)
    BY <1>4, <1>5, <1>6 DEF IsAdditive
<1>9. Sum(w) = G[D] /\ Sum(v) = H[D] /\ Sum(u) = K[D]
    BY <1>1, <1>2, <1>8, SumIs
<1> QED
    BY <1>7, <1>9

\* Pascal's rule.
LEMMA ChooseStep ==
    /\ Runs \in Nat
    /\ \A k \in 0 .. 2 * Runs : Choose[0][k] = IF k = 0 THEN 1 ELSE 0
    /\ \A n \in 1 .. 2 * Runs : \A k \in 0 .. 2 * Runs :
          Choose[n][k] = IF k = 0 THEN 1 ELSE Choose[n - 1][k - 1] + Choose[n - 1][k]
<1>1. Runs \in Nat
    BY Parameters
<1>2. \A n \in 0 .. 2 * Runs : Choose[n] = ChooseRow(Choose, n)
    BY ChooseIs
<1>3. \A n \in 0 .. 2 * Runs : \A k \in 0 .. 2 * Runs :
          Choose[n][k] = IF k = 0 THEN 1 ELSE IF n = 0 THEN 0 ELSE Choose[n - 1][k - 1] + Choose[n - 1][k]
    BY <1>2 DEF ChooseRow
<1>4. 0 \in 0 .. 2 * Runs /\ \A n \in 1 .. 2 * Runs : n \in 0 .. 2 * Runs /\ n # 0
    BY <1>1
<1> QED
    BY <1>1, <1>3, <1>4

\* To choose is to leave out.
LEMMA ChooseMirrored ==
    \A n \in 0 .. 2 * Runs : \A k \in 0 .. n : Choose[n][n - k] = Choose[n][k]
<1> DEFINE T == {n \in 0 .. 2 * Runs : ~(\A k \in 0 .. n : Choose[n][n - k] = Choose[n][k])}
<1> SUFFICES ASSUME T # {} PROVE FALSE
    OBVIOUS
<1>1. Runs \in Nat
    BY ChooseStep
<1>2. T \subseteq Nat
    BY <1>1
<1>3. PICK n \in T : \A m \in T : n <= m
    BY <1>2, Least
<1>4. PICK k \in 0 .. n : Choose[n][n - k] # Choose[n][k]
    BY <1>3
<1>5. n \in 0 .. 2 * Runs /\ n \in Nat /\ k \in Nat /\ k <= n /\ n - k \in 0 .. n
    BY <1>1, <1>3, <1>4
<1>6. n # 0
  <2> SUFFICES ASSUME n = 0 PROVE FALSE
    OBVIOUS
  <2>1. k = 0 /\ n - k = 0
    BY <1>5
  <2> QED
    BY <1>4, <2>1
<1>7. n - 1 \in 0 .. 2 * Runs /\ n - 1 \notin T
    BY <1>1, <1>3, <1>5, <1>6
<1>8. \A j \in 0 .. n - 1 : Choose[n - 1][n - 1 - j] = Choose[n - 1][j]
    BY <1>7
<1>9. /\ Choose[n - 1] \in [0 .. 2 * Runs -> Nat]
      /\ \A j \in 0 .. 2 * Runs : Choose[n - 1][j] > 0 <=> j <= n - 1
    BY <1>7, ChooseFits
<1>10. n \in 1 .. 2 * Runs /\ n \in 0 .. 2 * Runs /\ n - k \in 0 .. 2 * Runs /\ k \in 0 .. 2 * Runs
    BY <1>1, <1>5, <1>6
<1>11. /\ Choose[n][k] = IF k = 0 THEN 1 ELSE Choose[n - 1][k - 1] + Choose[n - 1][k]
       /\ Choose[n][n - k] = IF n - k = 0 THEN 1 ELSE Choose[n - 1][n - k - 1] + Choose[n - 1][n - k]
    BY <1>10, ChooseStep
<1>12. Choose[n - 1][n] = 0
  <2>1. Choose[n - 1][n] \in Nat
    BY <1>9, <1>10
  <2>2. ~(n <= n - 1)
    BY <1>5
  <2>3. ~(Choose[n - 1][n] > 0)
    BY <1>9, <1>10, <2>2
  <2> QED
    BY <2>1, <2>3
<1>13. Choose[n - 1][n - 1] = Choose[n - 1][0] /\ Choose[n - 1][0] = 1
  <2>1. 0 \in 0 .. n - 1 /\ n - 1 - 0 = n - 1 /\ 0 \in 0 .. 2 * Runs
    BY <1>1, <1>5, <1>6
  <2>2. Choose[n - 1][0] = 1
    BY <1>7, <2>1, ChooseIs DEF ChooseRow
  <2> QED
    BY <1>8, <2>1, <2>2
<1>14. CASE k = 0
  <2>1. n - k = n /\ n - k - 1 = n - 1
    BY <1>5, <1>14
  <2>2. Choose[n][n - k] = 1
    BY <1>6, <1>11, <1>12, <1>13, <2>1
  <2> QED
    BY <1>4, <1>11, <1>14, <2>2
<1>15. CASE k = n
  <2>1. n - k = 0 /\ k # 0 /\ k - 1 = n - 1
    BY <1>5, <1>6, <1>15
  <2>2. Choose[n][k] = 1
    BY <1>11, <1>12, <1>13, <1>15, <2>1
  <2> QED
    BY <1>4, <1>11, <2>1, <2>2
<1>16. CASE k # 0 /\ k # n
  <2>1. /\ k - 1 \in 0 .. n - 1 /\ n - 1 - (k - 1) = n - k
        /\ k \in 0 .. n - 1 /\ n - 1 - k = n - k - 1 /\ n - k # 0
    BY <1>5, <1>16
  <2>2. Choose[n - 1][n - k] = Choose[n - 1][k - 1] /\ Choose[n - 1][n - k - 1] = Choose[n - 1][k]
    BY <1>8, <2>1
  <2>3. Choose[n - 1][k - 1] \in Nat /\ Choose[n - 1][k] \in Nat
    <3>1. k - 1 \in 0 .. 2 * Runs /\ k \in 0 .. 2 * Runs
        BY <1>1, <1>5, <1>10, <2>1
    <3> QED
        BY <1>9, <3>1
  <2> QED
    BY <1>4, <1>11, <1>16, <2>1, <2>2, <2>3
<1> QED
    BY <1>14, <1>15, <1>16

\* Swapping the baseline and the candidate of a case changes no likelihood.
LEMMA WeightMirrored ==
    ASSUME NEW t \in 0 .. 2 * Runs, NEW x \in Support[t]
    PROVE  t - x \in Support[t] /\ Weight[t][t - x] = Weight[t][x]
<1>1. Runs \in Nat
    BY ChooseStep
<1>2. x \in 0 .. Runs /\ t - x \in 0 .. Runs
    BY SupportIs
<1>3. x \in 0 .. t /\ 2 * Runs - t \in 0 .. 2 * Runs /\ Runs - x \in 0 .. 2 * Runs - t
    BY <1>1, <1>2
<1>4. 2 * Runs - t - (Runs - x) = Runs - (t - x)
    BY <1>1, <1>2
<1>5. /\ Choose[t][t - x] = Choose[t][x]
      /\ Choose[2 * Runs - t][2 * Runs - t - (Runs - x)] = Choose[2 * Runs - t][Runs - x]
    BY <1>3, ChooseMirrored
<1>6. \A y \in 0 .. Runs : Weight[t][y] = Choose[t][y] * Choose[2 * Runs - t][Runs - y]
    BY DEF Weight
<1>7. Weight[t][t - x] = Weight[t][x]
    BY <1>2, <1>4, <1>5, <1>6
<1>8. Weight[t][x] > 0
    BY DEF Support
<1> QED
    BY <1>2, <1>7, <1>8 DEF Support

\* The tables of two totals that differ by a pass are as many.
LEMMA WeightsStep ==
    ASSUME NEW t \in 0 .. 2 * Runs - 1
    PROVE  Sum(Weight[t]) = Sum(Weight[t + 1])
<1> DEFINE M == 2 * Runs - t - 1
           P == [x \in 0 .. Runs |-> Choose[t][x] * Choose[M][Runs - x]]
           Q == [x \in 0 .. Runs |-> IF x = Runs THEN 0 ELSE Choose[t][x] * Choose[M][Runs - 1 - x]]
           O == [x \in 0 .. Runs |-> IF x = 0 THEN 0 ELSE Choose[t][x - 1] * Choose[M][Runs - x]]
           v == [x \in 0 .. Runs - 1 |-> Choose[t][x] * Choose[M][Runs - 1 - x]]
           same == [x \in 0 .. Runs - 1 |-> x]
           next == [x \in 0 .. Runs - 1 |-> x + 1]
<1>1. Runs \in Nat
    BY ChooseStep
<1>2. /\ t \in 0 .. 2 * Runs /\ t + 1 \in 0 .. 2 * Runs /\ t + 1 \in 1 .. 2 * Runs /\ t + 1 - 1 = t
      /\ M \in 0 .. 2 * Runs /\ M + 1 \in 1 .. 2 * Runs /\ M + 1 - 1 = M
      /\ 2 * Runs - t = M + 1 /\ 2 * Runs - (t + 1) = M
    BY <1>1
<1>3. IsFiniteSet(0 .. Runs) /\ IsFiniteSet(0 .. Runs - 1)
    BY <1>1, FS_Interval
<1>4. \A x \in 0 .. Runs : Weight[t][x] = Choose[t][x] * Choose[2 * Runs - t][Runs - x]
    BY <1>2 DEF Weight
<1>5. \A x \in 0 .. Runs : Weight[t + 1][x] = Choose[t + 1][x] * Choose[2 * Runs - (t + 1)][Runs - x]
    BY <1>2 DEF Weight
<1>6. DOMAIN Weight[t] = 0 .. Runs /\ DOMAIN Weight[t + 1] = 0 .. Runs
    BY <1>2 DEF Weight
<1>7. \A x \in 0 .. 2 * Runs : Choose[t][x] \in Nat /\ Choose[M][x] \in Nat
    BY <1>2, ChooseFits
<1>8. \A k \in 0 .. 2 * Runs :
         /\ Choose[M + 1][k] = IF k = 0 THEN 1 ELSE Choose[M][k - 1] + Choose[M][k]
         /\ Choose[t + 1][k] = IF k = 0 THEN 1 ELSE Choose[t][k - 1] + Choose[t][k]
    BY <1>2, ChooseStep
<1>9. Choose[t][0] = 1 /\ Choose[M][0] = 1
  <2>1. 0 \in 0 .. 2 * Runs
    BY <1>1
  <2>2. \A n \in 0 .. 2 * Runs : n # 0 => n \in 1 .. 2 * Runs
    BY <1>1
  <2>3. \A n \in 0 .. 2 * Runs : Choose[n][0] = 1
    BY <2>1, <2>2, ChooseStep
  <2> QED
    BY <1>2, <2>3
<1>10. P \in [0 .. Runs -> Int] /\ v \in [0 .. Runs - 1 -> Int]
  <2>1. \A x \in 0 .. Runs : x \in 0 .. 2 * Runs /\ Runs - x \in 0 .. 2 * Runs
    BY <1>1
  <2>2. \A x \in 0 .. Runs - 1 : x \in 0 .. 2 * Runs /\ Runs - 1 - x \in 0 .. 2 * Runs
    BY <1>1
  <2>3. \A a, b \in Nat : a * b \in Int
    OBVIOUS
  <2>4. \A x \in 0 .. Runs : Choose[t][x] * Choose[M][Runs - x] \in Int
    BY <1>7, <2>1, <2>3
  <2>5. \A x \in 0 .. Runs - 1 : Choose[t][x] * Choose[M][Runs - 1 - x] \in Int
    BY <1>7, <2>2, <2>3
  <2> QED
    BY <2>4, <2>5
<1>11. \A x \in 0 .. Runs - 1 : x \in 0 .. Runs /\ x # Runs /\ x + 1 \in 0 .. Runs /\ x + 1 # 0
                               /\ x + 1 - 1 = x /\ Runs - (x + 1) = Runs - 1 - x
    BY <1>1
<1>12. \A x \in 0 .. Runs : (x # Runs => x \in 0 .. Runs - 1) /\ (x # 0 => x - 1 \in 0 .. Runs - 1)
                           /\ (x # 0 => Runs - 1 - (x - 1) = Runs - x) /\ (x # 0 => (x - 1) + 1 = x)
    BY <1>1
<1>13. \A x \in 0 .. Runs - 1 : v[x] = Q[x] /\ v[x] = O[x + 1]
    BY <1>11
<1>14. Q \in [0 .. Runs -> Int] /\ O \in [0 .. Runs -> Int]
  <2>1. \A x \in 0 .. Runs - 1 : v[x] \in Int
    BY <1>10
  <2>2. \A x \in 0 .. Runs : Q[x] = IF x = Runs THEN 0 ELSE v[x]
    BY <1>12
  <2>3. \A x \in 0 .. Runs : O[x] = IF x = 0 THEN 0 ELSE v[x - 1]
    BY <1>12
  <2>4. \A x \in 0 .. Runs : Q[x] \in Int /\ O[x] \in Int
    BY <1>12, <2>1, <2>2, <2>3
  <2>5. Q = [x \in 0 .. Runs |-> Q[x]] /\ O = [x \in 0 .. Runs |-> O[x]]
    OBVIOUS
  <2> HIDE DEF Q, O
  <2> QED
    BY <2>4, <2>5
<1>15. Renames(v, 0 .. Runs - 1, same, Q, 0 .. Runs)
  <2>1. same \in [0 .. Runs - 1 -> 0 .. Runs]
    BY <1>11
  <2>2. \A x \in 0 .. Runs : x \notin Image(same, 0 .. Runs - 1) => Q[x] = 0
    BY <1>12 DEF Image
  <2>3. DOMAIN v = 0 .. Runs - 1 /\ \A x \in 0 .. Runs - 1 : v[x] = Q[same[x]]
    BY <1>13
  <2>4. \A x, y \in 0 .. Runs - 1 : same[x] = same[y] => x = y
    OBVIOUS
  <2> HIDE DEF v, Q, same
  <2> QED
    BY <1>3, <1>14, <2>1, <2>2, <2>3, <2>4 DEF Renames
<1>16. Renames(v, 0 .. Runs - 1, next, O, 0 .. Runs)
  <2>1. next \in [0 .. Runs - 1 -> 0 .. Runs]
    BY <1>11
  <2>2. ASSUME NEW x \in 0 .. Runs, x \notin Image(next, 0 .. Runs - 1) PROVE O[x] = 0
    <3> SUFFICES ASSUME x # 0 PROVE FALSE
        OBVIOUS
    <3>1. x - 1 \in 0 .. Runs - 1 /\ next[x - 1] = x
        BY <1>12
    <3> QED
        BY <2>2, <3>1 DEF Image
  <2>3. DOMAIN v = 0 .. Runs - 1 /\ \A x \in 0 .. Runs - 1 : v[x] = O[next[x]]
    BY <1>13
  <2>4. \A x, y \in 0 .. Runs - 1 : next[x] = next[y] => x = y
    OBVIOUS
  <2> HIDE DEF v, O, next
  <2> QED
    BY <1>3, <1>14, <2>1, <2>2, <2>3, <2>4 DEF Renames
<1>17. \A x \in 0 .. Runs : Weight[t][x] = P[x] + Q[x]
  <2> TAKE x \in 0 .. Runs
  <2>1. /\ x \in 0 .. 2 * Runs /\ Runs - x \in 0 .. 2 * Runs
        /\ (x = Runs <=> Runs - x = 0) /\ Runs - x - 1 = Runs - 1 - x
    BY <1>1
  <2>2. /\ Choose[M + 1][Runs - x] = IF x = Runs THEN 1 ELSE Choose[M][Runs - 1 - x] + Choose[M][Runs - x]
        /\ Choose[t][x] \in Nat /\ Choose[M][Runs - x] \in Nat
    BY <1>7, <1>8, <2>1
  <2>3. Weight[t][x] = Choose[t][x] * Choose[M + 1][Runs - x]
    BY <1>2, <1>4
  <2>4. CASE x = Runs
    <3>1. P[x] = Choose[t][x] * 1 /\ Q[x] = 0
        BY <1>9, <2>1, <2>4
    <3> HIDE DEF P, Q
    <3> QED
        BY <2>2, <2>3, <2>4, <3>1
  <2>5. CASE x # Runs
    <3>1. Runs - 1 - x \in 0 .. 2 * Runs
        BY <1>1, <2>5
    <3>2. Choose[M][Runs - 1 - x] \in Nat
        BY <1>7, <3>1
    <3>3. \A a, b, c \in Nat : a * (b + c) = a * c + a * b
        OBVIOUS
    <3>4. P[x] = Choose[t][x] * Choose[M][Runs - x] /\ Q[x] = Choose[t][x] * Choose[M][Runs - 1 - x]
        BY <2>5
    <3> HIDE DEF P, Q
    <3> QED
        BY <2>2, <2>3, <2>5, <3>2, <3>3, <3>4
  <2> QED
    BY <2>4, <2>5
<1>18. \A x \in 0 .. Runs : Weight[t + 1][x] = P[x] + O[x]
  <2> TAKE x \in 0 .. Runs
  <2>1. x \in 0 .. 2 * Runs /\ Runs - x \in 0 .. 2 * Runs
    BY <1>1
  <2>2. /\ Choose[t + 1][x] = IF x = 0 THEN 1 ELSE Choose[t][x - 1] + Choose[t][x]
        /\ Choose[t][x] \in Nat /\ Choose[M][Runs - x] \in Nat
    BY <1>7, <1>8, <2>1
  <2>3. Weight[t + 1][x] = Choose[t + 1][x] * Choose[M][Runs - x]
    BY <1>2, <1>5
  <2>4. CASE x = 0
    <3>1. P[x] = 1 * Choose[M][Runs - x] /\ O[x] = 0
        BY <1>9, <2>4
    <3> HIDE DEF P, O
    <3> QED
        BY <2>2, <2>3, <2>4, <3>1
  <2>5. CASE x # 0
    <3>1. x - 1 \in 0 .. 2 * Runs
        BY <1>1, <2>5
    <3>2. Choose[t][x - 1] \in Nat
        BY <1>7, <3>1
    <3>3. \A a, b, c \in Nat : (a + b) * c = b * c + a * c
        OBVIOUS
    <3>4. P[x] = Choose[t][x] * Choose[M][Runs - x] /\ O[x] = Choose[t][x - 1] * Choose[M][Runs - x]
        BY <2>5
    <3> HIDE DEF P, O
    <3> QED
        BY <2>2, <2>3, <2>5, <3>2, <3>3, <3>4
  <2> QED
    BY <2>4, <2>5
<1> HIDE DEF P, Q, O, v, same, next, M
<1>19. Sum(Q) = Sum(v) /\ Sum(O) = Sum(v)
    BY <1>15, <1>16, SumRenamed
<1> DEFINE now == Weight[t]
           later == Weight[t + 1]
<1>20. /\ DOMAIN now = 0 .. Runs /\ \A x \in 0 .. Runs : now[x] = P[x] + Q[x]
       /\ DOMAIN later = 0 .. Runs /\ \A x \in 0 .. Runs : later[x] = P[x] + O[x]
    BY <1>6, <1>17, <1>18
<1> HIDE DEF now, later
<1>21. Sum(now) = Sum(P) + Sum(Q) /\ Sum(later) = Sum(P) + Sum(O)
  <2> DEFINE D == 0 .. Runs
  <2>1. /\ IsFiniteSet(D) /\ P \in [D -> Int] /\ Q \in [D -> Int] /\ O \in [D -> Int]
        /\ DOMAIN now = D /\ \A d \in D : now[d] = P[d] + Q[d]
        /\ DOMAIN later = D /\ \A d \in D : later[d] = P[d] + O[d]
    BY <1>3, <1>10, <1>14, <1>20
  <2> HIDE DEF D
  <2>2. Sum(now) = Sum(P) + Sum(Q)
    BY <2>1, SumAdded
  <2>3. Sum(later) = Sum(P) + Sum(O)
    BY <2>1, SumAdded
  <2> QED
    BY <2>2, <2>3
<1> QED
    BY <1>19, <1>21 DEF now, later

\* Vandermonde: whatever a case's total, it has Tables tables.
LEMMA WeightsAddUp ==
    ASSUME NEW t \in 0 .. 2 * Runs
    PROVE  Sum(Weight[t]) = Tables
<1> DEFINE T == {s \in 0 .. 2 * Runs : Sum(Weight[s]) # Tables}
<1> SUFFICES ASSUME T # {} PROVE FALSE
    OBVIOUS
<1>1. Runs \in Nat
    BY ChooseStep
<1>2. T \subseteq Nat
    BY <1>1
<1>3. PICK s \in T : \A m \in T : s <= m
    BY <1>2, Least
<1>4. s \in 0 .. 2 * Runs /\ s \in Nat /\ Sum(Weight[s]) # Tables
    BY <1>1, <1>3
<1>5. CASE s # 0
  <2>1. s - 1 \in 0 .. 2 * Runs - 1 /\ s - 1 \in 0 .. 2 * Runs /\ s - 1 + 1 = s /\ ~(s <= s - 1)
    BY <1>1, <1>4, <1>5
  <2>2. Sum(Weight[s - 1]) = Tables
    BY <1>3, <2>1
  <2>3. Sum(Weight[s - 1]) = Sum(Weight[s - 1 + 1])
    BY <2>1, WeightsStep
  <2> QED
    BY <1>4, <2>1, <2>2, <2>3
<1>6. CASE s = 0
  <2> DEFINE w == Weight[0]
             S == (0 .. Runs) \ {0}
             v == [x \in S |-> w[x]]
  <2>1. 0 \in 0 .. 2 * Runs /\ 0 \in 0 .. Runs /\ IsFiniteSet(0 .. Runs) /\ IsFiniteSet(S)
    <3>1. IsFiniteSet(0 .. Runs)
        BY <1>1, FS_Interval
    <3>2. 0 \in 0 .. Runs /\ 0 \in 0 .. 2 * Runs /\ S \in SUBSET (0 .. Runs)
        BY <1>1
    <3> HIDE DEF S
    <3> QED
        BY <3>1, <3>2, FS_Subset
  <2>2. \A x \in 0 .. Runs : w[x] = Choose[0][x] * Choose[2 * Runs - 0][Runs - x]
    BY <2>1 DEF Weight
  <2>3. \A x \in 0 .. Runs : Choose[0][x] = IF x = 0 THEN 1 ELSE 0
    <3>1. \A x \in 0 .. Runs : x \in 0 .. 2 * Runs
        BY <1>1
    <3> QED
        BY <3>1, ChooseStep
  <2>4. \A x \in 0 .. Runs : x \in 0 .. 2 * Runs /\ Runs - x \in 0 .. 2 * Runs
    BY <1>1
  <2>5. 2 * Runs - 0 = 2 * Runs /\ 2 * Runs \in 0 .. 2 * Runs /\ Runs - 0 = Runs
    BY <1>1
  <2>6. \A x \in 0 .. Runs : Choose[2 * Runs][Runs - x] \in Nat
    BY <2>4, <2>5, ChooseFits
  <2>7. w[0] = Tables
    BY <2>1, <2>2, <2>3, <2>5, <2>6 DEF Tables
  <2>8. \A x \in S : w[x] = 0
    <3> TAKE x \in S
    <3>1. x \in 0 .. Runs /\ Choose[0][x] = 0
        BY <2>3
    <3>2. w[x] = 0 * Choose[2 * Runs][Runs - x]
        BY <2>2, <2>5, <3>1
    <3> QED
        BY <2>6, <3>1, <3>2
  <2>9. w \in [0 .. Runs -> Int]
    <3>1. w = [x \in 0 .. Runs |-> w[x]]
        BY <2>1 DEF Weight
    <3>2. \A x \in 0 .. Runs : w[x] \in Int
        BY <2>1, WeightFits
    <3> HIDE DEF w
    <3> QED
        BY <3>1, <3>2
  <2>10. DOMAIN v = S /\ \A x \in S : v[x] = 0
    BY <2>8
  <2> HIDE DEF w, v
  <2>11. Sum(w) = w[0] + Sum([x \in (0 .. Runs) \ {0} |-> w[x]])
    BY <2>1, <2>9, SumWithout
  <2> HIDE DEF S
  <2>12. Sum(v) = Cardinality(S) * 0
    BY <2>1, <2>10, SumOfEqual
  <2>13. Sum(v) = 0
    BY <2>1, <2>12, FS_CardinalityType
  <2>14. Sum(w) = Tables + 0
    BY <2>7, <2>11, <2>13 DEF v, S
  <2> QED
    BY <1>4, <1>6, <2>14, WeightFits DEF w
<1> QED
    BY <1>5, <1>6

\* All of them are in its support.
LEMMA SupportAddsUp ==
    ASSUME NEW t \in 0 .. 2 * Runs
    PROVE  PartSum(Weight[t], Support[t]) = Tables
<1> DEFINE D == 0 .. Runs
           S == Support[t]
           w == Weight[t]
           v == [x \in S |-> w[x]]
           same == [x \in S |-> x]
<1>1. IsFiniteSet(D)
    BY Parameters, FS_Interval
<1>2. S \in SUBSET D /\ S = {x \in D : w[x] > 0}
    BY DEF Support
<1>3. \A x \in D : w[x] \in Nat
    BY WeightFits
<1>4. w = [x \in D |-> w[x]]
    BY DEF Weight
<1>5. same \in [S -> D] /\ \A x, y \in S : same[x] = same[y] => x = y
    BY <1>2
<1>6. DOMAIN v = S /\ \A x \in S : v[x] = w[same[x]]
    OBVIOUS
<1>7. \A x \in D : x \notin Image(same, S) => w[x] = 0
  <2>1. \A x \in S : same[x] = x
    OBVIOUS
  <2> HIDE DEF same, w, S
  <2> QED
    BY <1>2, <1>3, <2>1 DEF Image
<1> HIDE DEF D, S, w, v, same
<1>8. IsFiniteSet(S)
    BY <1>1, <1>2, FS_Subset
<1>9. w \in [D -> Int]
    BY <1>3, <1>4
<1>10. Renames(v, S, same, w, D)
    BY <1>1, <1>5, <1>6, <1>7, <1>8, <1>9 DEF Renames
<1>11. Sum(w) = Sum(v)
    BY <1>10, SumRenamed
<1> QED
    BY <1>11, WeightsAddUp DEF PartSum, v, w, S

-----------------------------------------------------------------------------
(* How likely the outcomes are: what one case says of the chance of all,   *)
(* and the union bound.                                                    *)

\* The totals of a suite of n cases.
AreTotals(ks, n) == n \in 0 .. NumCases /\ ks \in [1 .. n -> 0 .. 2 * Runs]

\* The weights and the supports of the cases, and how likely each outcome is.
WeightsOf(ks)  == [i \in DOMAIN ks |-> Weight[ks[i]]]
SupportsOf(ks) == [i \in DOMAIN ks |-> Support[ks[i]]]

Likelihoods(ks) == [xs \in Outcomes(ks) |-> Likelihood(ks, xs)]

\* The outcomes are a box, and their likelihoods its masses.
LEMMA SpaceIs ==
    ASSUME NEW ks, NEW n, AreTotals(ks, n)
    PROVE  /\ DOMAIN ks = 1 .. n /\ IsFiniteSet(1 .. n) /\ Cardinality(1 .. n) = n /\ n \in Nat
           /\ AreWeights(WeightsOf(ks), SupportsOf(ks), 1 .. n)
           /\ Outcomes(ks) = Boxed(SupportsOf(ks), 1 .. n)
           /\ \A xs \in Outcomes(ks) : Likelihood(ks, xs) = Mass(WeightsOf(ks), xs, 1 .. n)
           /\ IsFiniteSet(Outcomes(ks))
           /\ Likelihoods(ks) \in [Outcomes(ks) -> Nat]
<1> DEFINE D == 1 .. n
           W == WeightsOf(ks)
           A == SupportsOf(ks)
<1>1. n \in Nat /\ ks \in [D -> 0 .. 2 * Runs] /\ DOMAIN ks = D
    BY DEF AreTotals
<1>2. IsFiniteSet(D) /\ Cardinality(D) = n
    BY <1>1, FS_Interval
<1> HIDE DEF D
<1>3. \A t \in 0 .. 2 * Runs : Weight[t] \in [0 .. Runs -> Nat]
  <2> TAKE t \in 0 .. 2 * Runs
  <2>1. Weight[t] = [x \in 0 .. Runs |-> Weight[t][x]]
    BY DEF Weight
  <2>2. \A x \in 0 .. Runs : Weight[t][x] \in Nat
    BY WeightFits
  <2> QED
    BY <2>1, <2>2
<1>4. \A t \in 0 .. 2 * Runs : Support[t] \in SUBSET (0 .. Runs)
    BY DEF Support
<1>5. AreWeights(W, A, D)
    BY <1>1, <1>2, <1>3, <1>4 DEF AreWeights, WeightsOf, SupportsOf
<1>6. Outcomes(ks) = Boxed(A, D)
    BY <1>1 DEF Outcomes, Boxed, SupportsOf
<1>7. \A xs : Likelihood(ks, xs) = Mass(W, xs, D)
  <2> TAKE xs
  <2>1. [i \in D |-> Weight[ks[i]][xs[i]]] = [i \in D |-> W[i][xs[i]]]
    BY <1>1 DEF WeightsOf
  <2> QED
    BY <1>1, <2>1 DEF Likelihood, Mass
<1>8. D \in SUBSET D
    OBVIOUS
<1> HIDE DEF W, A
<1>9. IsFiniteSet(Boxed(A, D)) /\ \A xs \in [D -> 0 .. Runs] : Mass(W, xs, D) \in Nat
    BY <1>5, <1>8, BoxIsFinite
<1>10. \A xs \in Boxed(A, D) : xs \in [D -> 0 .. Runs]
    BY DEF Boxed
<1>11. Likelihoods(ks) \in [Outcomes(ks) -> Nat]
  <2>1. \A xs \in Outcomes(ks) : Likelihood(ks, xs) \in Nat
    BY <1>6, <1>7, <1>9, <1>10
  <2> QED
    BY <2>1 DEF Likelihoods
<1> QED
    BY <1>1, <1>2, <1>5, <1>6, <1>7, <1>9, <1>11 DEF D, W, A

\* A chance is a sum of likelihoods.
LEMMA ChanceIs ==
    ASSUME NEW ks, NEW n, AreTotals(ks, n),
           NEW G, IsAdditive(G, Likelihoods(ks), Outcomes(ks)), NEW S \in SUBSET Outcomes(ks)
    PROVE  Chance(ks, S) = G[S]
<1> DEFINE X == Outcomes(ks)
           w == Likelihoods(ks)
<1>1. IsFiniteSet(X)
    BY SpaceIs
<1>2. [xs \in S |-> Likelihood(ks, xs)] = [xs \in S |-> w[xs]]
    BY DEF Likelihoods
<1>3. Chance(ks, S) = Sum([xs \in S |-> w[xs]])
    BY <1>2 DEF Chance
<1> HIDE DEF X, w
<1>4. IsAdditive(G, w, X) /\ S \subseteq X
    BY DEF X, w
<1>5. Sum([xs \in S |-> w[xs]]) = G[S]
    BY <1>1, <1>4, SumOfPart
<1> QED
    BY <1>3, <1>5

\* The outcomes in which a case is one of V.
LEMMA ChanceOfSide ==
    ASSUME NEW ks, NEW n, AreTotals(ks, n), NEW j \in 1 .. n, NEW V \in SUBSET Support[ks[j]]
    PROVE  \E rest \in Nat :
              /\ Chance(ks, {xs \in Outcomes(ks) : xs[j] \in V}) = PartSum(Weight[ks[j]], V) * rest
              /\ Product([i \in DOMAIN ks |-> Tables]) = Tables * rest
              /\ PartSum(Weight[ks[j]], V) \in Nat
<1> DEFINE D == 1 .. n
           W == WeightsOf(ks)
           A == SupportsOf(ks)
           B == [i \in D |-> IF i = j THEN V ELSE A[i]]
           f == [i \in D |-> PartSum(W[i], B[i])]
           all == [i \in D |-> Tables]
           others == [i \in D \ {j} |-> Tables]
<1>1. /\ DOMAIN ks = D /\ IsFiniteSet(D)
      /\ AreWeights(W, A, D)
      /\ Outcomes(ks) = Boxed(A, D)
      /\ \A xs \in Outcomes(ks) : Likelihood(ks, xs) = Mass(W, xs, D)
    BY SpaceIs
<1>2. j \in D /\ \A i \in D : ks[i] \in 0 .. 2 * Runs /\ W[i] = Weight[ks[i]] /\ A[i] = Support[ks[i]]
    BY <1>1 DEF AreTotals, WeightsOf, SupportsOf
<1> HIDE DEF D, W, A
<1>3. V \subseteq A[j]
    BY <1>2
<1>4. AreWeights(W, B, D)
    BY <1>1, <1>2, <1>3 DEF AreWeights
<1>5. Boxed(B, D) = {xs \in Boxed(A, D) : xs[j] \in V}
  <2>1. ASSUME NEW xs \in [D -> 0 .. Runs]
        PROVE  (\A i \in D : xs[i] \in B[i]) <=> (\A i \in D : xs[i] \in A[i]) /\ xs[j] \in V
    BY <1>2, <1>3
  <2> HIDE DEF B
  <2> QED
    BY <2>1 DEF Boxed
<1>6. Chance(ks, {xs \in Outcomes(ks) : xs[j] \in V}) = Masses(W, B, D)
  <2> DEFINE S == {xs \in Outcomes(ks) : xs[j] \in V}
  <2>1. S = Boxed(B, D)
    BY <1>1, <1>5
  <2>2. \A xs \in S : Likelihood(ks, xs) = Mass(W, xs, D)
    BY <1>1
  <2> HIDE DEF S, B
  <2>3. [xs \in S |-> Likelihood(ks, xs)] = [xs \in Boxed(B, D) |-> Mass(W, xs, D)]
    BY <2>1, <2>2
  <2> QED
    BY <2>3 DEF Chance, Masses, S
<1>7. D \in SUBSET D
    OBVIOUS
<1>8. Masses(W, B, D) = Product(f) /\ f \in [D -> Nat]
  <2> HIDE DEF B
  <2>1. Masses(W, B, D) = Product([i \in D |-> PartSum(W[i], B[i])])
    BY <1>4, <1>7, BoxIs
  <2>2. \A i \in D : PartSum(W[i], B[i]) \in Nat
    BY <1>4, <1>7, BoxIs
  <2> QED
    BY <2>1, <2>2
<1>9. f[j] = PartSum(Weight[ks[j]], V)
    BY <1>2
<1>10. \A i \in D \ {j} : f[i] = Tables
  <2> TAKE i \in D \ {j}
  <2>1. f[i] = PartSum(Weight[ks[i]], Support[ks[i]])
    BY <1>2
  <2> QED
    BY <1>2, <2>1, SupportAddsUp
<1>11. all \in [D -> Nat] /\ all[j] = Tables /\ [i \in D \ {j} |-> all[i]] = others
    BY <1>2, WeightFits
<1>12. [i \in D \ {j} |-> f[i]] = others
    BY <1>10
<1> HIDE DEF f, all, others, B
<1>13. Product(f) = f[j] * Product(others) /\ Product(others) \in Nat
  <2>0. j \in D /\ IsFiniteSet(D) /\ f \in [D -> Nat]
    BY <1>1, <1>2, <1>8
  <2>1. /\ Product(f) = f[j] * Product([i \in D \ {j} |-> f[i]])
        /\ Product([i \in D \ {j} |-> f[i]]) \in Nat
    BY <2>0, ProductWithout
  <2> QED
    BY <1>12, <2>1
<1>14. Product(all) = Tables * Product(others)
  <2>0. j \in D /\ IsFiniteSet(D) /\ all \in [D -> Nat]
    BY <1>1, <1>2, <1>11
  <2>1. Product(all) = all[j] * Product([i \in D \ {j} |-> all[i]])
    BY <2>0, ProductWithout
  <2> QED
    BY <1>11, <2>1
<1>15. f[j] \in Nat
    BY <1>2, <1>8
<1> QED
    BY <1>1, <1>6, <1>8, <1>9, <1>13, <1>14, <1>15 DEF all

\* All outcomes together.
LEMMA ChanceOfAll ==
    ASSUME NEW ks, NEW n, AreTotals(ks, n)
    PROVE  /\ Chance(ks, Outcomes(ks)) = Product([i \in DOMAIN ks |-> Tables])
           /\ Product([i \in DOMAIN ks |-> Tables]) \in Nat
<1> DEFINE D == 1 .. n
           W == WeightsOf(ks)
           A == SupportsOf(ks)
           f == [i \in D |-> PartSum(W[i], A[i])]
<1>1. /\ DOMAIN ks = D /\ IsFiniteSet(D)
      /\ AreWeights(W, A, D)
      /\ Outcomes(ks) = Boxed(A, D)
      /\ \A xs \in Outcomes(ks) : Likelihood(ks, xs) = Mass(W, xs, D)
    BY SpaceIs
<1>2. \A i \in D : ks[i] \in 0 .. 2 * Runs /\ W[i] = Weight[ks[i]] /\ A[i] = Support[ks[i]]
    BY <1>1 DEF AreTotals, WeightsOf, SupportsOf
<1> HIDE DEF D, W, A
<1>3. [xs \in Outcomes(ks) |-> Likelihood(ks, xs)] = [xs \in Boxed(A, D) |-> Mass(W, xs, D)]
    BY <1>1
<1>4. D \in SUBSET D
    OBVIOUS
<1>5. Masses(W, A, D) = Product(f)
    BY <1>1, <1>4, BoxIs
<1>6. \A i \in D : PartSum(W[i], A[i]) = Tables
    BY <1>2, SupportAddsUp
<1>7. f = [i \in D |-> Tables]
    BY <1>6
<1>8. f \in [D -> Nat]
    BY <1>7, WeightFits
<1> HIDE DEF f
<1>9. Product(f) \in Nat
    BY <1>1, <1>8, ProductType
<1> QED
    BY <1>1, <1>3, <1>5, <1>7, <1>9 DEF Chance, Masses

\* The values of a case whose p-value is small enough are not likely.
LEMMA TailIsSmall ==
    ASSUME NEW t \in 0 .. 2 * Runs, NEW alpha, IsFraction(alpha), NEW K \in Nat
    PROVE  LET V == {x \in Support[t] : AtMost(PWorse[t][x], alpha, K)} IN
           /\ PartSum(Weight[t], V) \in Nat
           /\ PartSum(Weight[t], V) * (alpha[2] * K) <= alpha[1] * Tables
<1> DEFINE V == {x \in Support[t] : AtMost(PWorse[t][x], alpha, K)}
           D == 0 .. Runs
           w == Weight[t]
<1>1. Runs \in Nat /\ IsFiniteSet(D)
    BY Parameters, FS_Interval
<1>2. V \in SUBSET D
    BY DEF Support
<1>3. \A x \in D : w[x] \in Nat
    BY WeightFits
<1>4. alpha[1] \in Nat /\ alpha[2] \in Nat /\ Tables \in Nat
    BY WeightFits DEF IsFraction
<1>5. PICK G : IsAdditive(G, w, D)
    BY <1>1, <1>3, AdditiveExists
<1>6. /\ \A S \in SUBSET D : G[S] \in Nat
      /\ \A S, U \in SUBSET D : S \subseteq U => G[S] <= G[U]
    BY <1>1, <1>3, <1>5, AdditiveNatural
<1>7. PartSum(w, V) = G[V]
  <2> HIDE DEF V, w, D
  <2>1. V \subseteq D
    BY <1>2
  <2> QED
    BY <1>1, <1>5, <2>1, SumOfPart DEF PartSum
<1>8. CASE V = {}
  <2>1. G[V] = 0
    BY <1>5, <1>8 DEF IsAdditive
  <2>2. \A a, b, k \in Nat : 0 * (b * k) <= a * Tables
    BY <1>4
  <2> QED
    BY <1>4, <1>7, <2>1, <2>2
<1>9. CASE V # {}
  <2> DEFINE T == {Runs - x : x \in V}
  <2>1. T \subseteq Nat /\ T # {}
    BY <1>1, <1>2, <1>9
  <2>2. PICK k \in T : \A l \in T : k <= l
    BY <2>1, Least
  <2>3. PICK x \in V : k = Runs - x
    BY <2>2
  <2>4. \A y \in V : y <= x
    <3> TAKE y \in V
    <3>1. Runs - x <= Runs - y
        BY <2>2, <2>3
    <3>2. x \in Int /\ y \in Int
        BY <1>2
    <3> QED
        BY <1>1, <3>1, <3>2
  <2> DEFINE U == 0 .. x
  <2>5. x \in D
    BY <1>2, <2>3
  <2>6. U \in SUBSET D /\ V \subseteq U
    BY <1>1, <1>2, <2>4, <2>5
  <2>7. PWorse[t][x] = PartSum(w, U)
    BY <2>5 DEF PWorse, PartSum
  <2>8. PWorse[t][x] * alpha[2] * K <= alpha[1] * Tables
    BY <2>3 DEF AtMost
  <2> HIDE DEF U, V, w, D
  <2>9. PartSum(w, U) = G[U]
    <3>1. U \subseteq D
        BY <2>6
    <3> QED
        BY <1>1, <1>5, <3>1, SumOfPart DEF PartSum
  <2>10. G[V] \in Nat /\ G[U] \in Nat /\ G[V] <= G[U]
    BY <1>2, <1>6, <2>6
  <2>11. \A a, b \in Nat : a <= b => a * (alpha[2] * K) <= b * alpha[2] * K
    <3>1. alpha[2] * K \in Nat
        BY <1>4
    <3>2. \A a, b, c \in Nat : a <= b => a * c <= b * c
        OBVIOUS
    <3>3. \A b \in Nat : b * alpha[2] * K = b * (alpha[2] * K)
        BY <1>4
    <3> QED
        BY <3>1, <3>2, <3>3
  <2>12. G[V] * (alpha[2] * K) <= G[U] * alpha[2] * K
    BY <2>10, <2>11
  <2>13. G[U] * alpha[2] * K <= alpha[1] * Tables
    BY <2>7, <2>8, <2>9
  <2>14. \A a, b, c \in Int : a <= b /\ b <= c => a <= c
    OBVIOUS
  <2>15. G[V] * (alpha[2] * K) \in Int /\ G[U] * alpha[2] * K \in Int /\ alpha[1] * Tables \in Int
    BY <1>4, <2>10
  <2> QED
    BY <1>7, <2>10, <2>12, <2>13, <2>14, <2>15 DEF V, w
<1> QED
    BY <1>8, <1>9

\* No more than a bound for each of several sets is as many bounds for all.
LEMMA UnionBound ==
    ASSUME NEW X, IsFiniteSet(X), NEW w \in [X -> Nat], NEW G, IsAdditive(G, w, X),
           NEW J, IsFiniteSet(J), NEW E \in [J -> SUBSET X], NEW c \in Nat, NEW b \in Nat,
           \A j \in J : G[E[j]] * c <= b
    PROVE  G[{x \in X : \E j \in J : x \in E[j]}] * c <= Cardinality(J) * b
<1> DEFINE U(I) == {x \in X : \E j \in I : x \in E[j]}
           T == {I \in SUBSET J : ~(G[U(I)] * c <= Cardinality(I) * b)}
<1>1. /\ \A S \in SUBSET X : G[S] \in Nat
      /\ \A S, V \in SUBSET X : G[S \cup V] <= G[S] + G[V]
    BY AdditiveNatural
<1>2. \A I : U(I) \in SUBSET X
    OBVIOUS
<1>3. T = {}
  <2> SUFFICES ASSUME T # {} PROVE FALSE
    OBVIOUS
  <2>1. PICK I \in T : \A d \in I : I \ {d} \notin T
    BY LeastSet
  <2>2. I \in SUBSET J /\ ~(G[U(I)] * c <= Cardinality(I) * b)
    BY <2>1
  <2>3. I # {}
    <3> SUFFICES ASSUME I = {} PROVE FALSE
        OBVIOUS
    <3>1. U(I) = {}
        OBVIOUS
    <3>2. G[U(I)] = 0 /\ Cardinality(I) = 0
        BY <3>1, FS_EmptySet DEF IsAdditive
    <3>3. 0 * c = 0 /\ 0 * b = 0
        OBVIOUS
    <3> HIDE DEF U
    <3> QED
        BY <2>2, <3>2, <3>3
  <2>4. PICK j \in I : TRUE
    BY <2>3
  <2> DEFINE H == I \ {j}
  <2>5. H \in SUBSET J /\ j \in J
    BY <2>2, <2>4
  <2>6. G[U(H)] * c <= Cardinality(H) * b
    BY <2>1, <2>4, <2>5
  <2>7. U(I) = E[j] \cup U(H)
    BY <2>2, <2>4, <2>5
  <2>8. IsFiniteSet(I)
    BY <2>2, FS_Subset
  <2>9. Cardinality(H) = Cardinality(I) - 1 /\ Cardinality(I) \in Nat /\ Cardinality(H) \in Nat
    BY <2>4, <2>8, FS_RemoveElement, FS_CardinalityType
  <2>10. E[j] \in SUBSET X /\ U(H) \in SUBSET X
    BY <2>5
  <2> HIDE DEF U, H
  <2>11. G[U(I)] <= G[E[j]] + G[U(H)] /\ G[U(I)] \in Nat /\ G[E[j]] \in Nat /\ G[U(H)] \in Nat
    BY <1>1, <1>2, <2>7, <2>10
  <2>12. G[E[j]] * c <= b
    BY <2>5
  <2>13. \A u, e, h \in Nat : u <= e + h => u * c <= e * c + h * c
    <3>1. \A u, e, h \in Nat : u <= e + h => u * c <= (e + h) * c
        OBVIOUS
    <3>2. \A e, h \in Nat : (e + h) * c = e * c + h * c
        OBVIOUS
    <3> QED
        BY <3>1, <3>2
  <2>14. \A k \in Nat : k * b = b + (k - 1) * b
    OBVIOUS
  <2>15. G[U(I)] * c <= G[E[j]] * c + G[U(H)] * c
    BY <2>11, <2>13
  <2>16. Cardinality(I) * b = b + Cardinality(H) * b
    BY <2>9, <2>14
  <2>17. /\ G[U(I)] * c \in Int /\ G[E[j]] * c \in Int /\ G[U(H)] * c \in Int
         /\ Cardinality(H) * b \in Int
    BY <2>9, <2>11
  <2>18. \A s, e, h, k \in Int : s <= e + h /\ e <= b /\ h <= k => s <= b + k
    OBVIOUS
  <2> QED
    BY <2>2, <2>6, <2>12, <2>15, <2>16, <2>17, <2>18
<1>4. J \in SUBSET J
    OBVIOUS
<1> QED
    BY <1>3, <1>4

-----------------------------------------------------------------------------
(* False alarms of the cases.  A flagged case has its p-value within       *)
(* alpha / K, for the one K that the smallest p-values of the totals give  *)
(* (Tarone), and at most K cases can have one that small.                  *)

\* The outcomes in which a case's p-value is within a K-th of the budget.
CaseAlarms(ks, alpha, K, j) ==
    {xs \in Outcomes(ks) : AtMost(PWorse[ks[j]][xs[j]], alpha, K)}

\* The p-values that compare_cases gives the step-down, and the smallest ones.
CasePs(ks, xs) == [i \in DOMAIN ks |-> PWorse[ks[i]][xs[i]]]
CaseMins(ks)   == [i \in DOMAIN ks |-> MinWorse[ks[i]]]

\* They are hypotheses as the step-down expects them.
LEMMA CaseTestsAre ==
    ASSUME NEW ks, NEW n, AreTotals(ks, n), NEW alpha, IsFraction(alpha), NEW xs \in Outcomes(ks)
    PROVE  AreTests(CasePs(ks, xs), CaseMins(ks), 1 .. n, alpha)
<1> DEFINE D == 1 .. n
           p == CasePs(ks, xs)
           m == CaseMins(ks)
<1>1. DOMAIN ks = D /\ IsFiniteSet(D) /\ Cardinality(D) = n /\ n <= NumCases
  <2>1. n <= NumCases
    BY DEF AreTotals
  <2>2. DOMAIN ks = D /\ IsFiniteSet(D) /\ Cardinality(D) = n
    BY SpaceIs
  <2> QED
    BY <2>1, <2>2
<1>2. \A i \in D : ks[i] \in 0 .. 2 * Runs /\ xs[i] \in Support[ks[i]]
    BY <1>1 DEF AreTotals, Outcomes
<1> HIDE DEF D
<1>3. \A i \in D : p[i] = PWorse[ks[i]][xs[i]] /\ m[i] = MinWorse[ks[i]]
    BY <1>1 DEF CasePs, CaseMins
<1> HIDE DEF p, m
<1>4. \A i \in D : p[i] \in Nat /\ m[i] \in Nat /\ m[i] <= p[i]
  <2> TAKE i \in D
  <2> QED
    BY <1>2, <1>3, MinWorseIsLeast
<1> QED
    BY <1>1, <1>4 DEF AreTests, AreHypotheses, D, p, m

\* The least likely of the cases decides, and the others can be left out of
\* the family that its budget is divided by.
LEMMA FlaggedByOne ==
    ASSUME NEW ks, NEW n, AreTotals(ks, n), config \in Blocks, NEW xs \in Flagged(ks)
    PROVE  LET K == FamilySize(CaseMins(ks), 1 .. n, CasesAlpha) IN
           \E j \in 1 .. n : /\ AtMost(CaseMins(ks)[j], CasesAlpha, K)
                             /\ xs \in CaseAlarms(ks, CasesAlpha, K, j)
<1> DEFINE D == 1 .. n
           p == CasePs(ks, xs)
           m == CaseMins(ks)
           alpha == CasesAlpha
           K == FamilySize(m, D, alpha)
<1>1. xs \in Outcomes(ks) /\ Regressed(ks, xs) # {}
    BY DEF Flagged
<1>2. IsFraction(alpha)
    BY ShareIsFraction
<1>3. AreTests(p, m, D, alpha)
    BY <1>1, <1>2, CaseTestsAre
<1>4. DOMAIN ks = D /\ IsFiniteSet(D) /\ D \subseteq Int
    BY SpaceIs
<1>5. DOMAIN p = D /\ \A i \in D : p[i] = PWorse[ks[i]][xs[i]]
    BY <1>4 DEF CasePs
<1>6. Rejected(p, m, Order(p), alpha) # {}
    BY <1>1 DEF Regressed, CasePs, CaseMins
<1> HIDE DEF D, p, m, alpha
<1>7. \A i \in D : p[i] \in Nat /\ m[i] \in Nat /\ m[i] <= p[i]
    BY <1>3 DEF AreTests, AreHypotheses
<1>8. SortsBy(Order(p), p, D)
    BY <1>4, <1>5, <1>7, OrderSorts
<1>9. Passing(p, m, alpha, D) # {}
  <2> DEFINE order == Order(p)
  <2> HIDE DEF order
  <2>1. SortsBy(order, p, D)
    BY <1>8 DEF order
  <2>2. Rejected(p, m, order, alpha) = Passing(p, m, alpha, D)
    BY <1>3, <2>1, RejectedIs
  <2> QED
    BY <1>6, <2>2 DEF order
<1>10. PICK i \in D : \A l \in D : p[l] <= p[i] =>
                AtMost(p[l], alpha, FamilySize(m, AtLeast(p, D, p[l]), alpha))
    BY <1>9 DEF Passing
<1> DEFINE T == {p[l] : l \in D}
<1>11. T \subseteq Nat /\ T # {}
    BY <1>7, <1>10
<1>12. PICK least \in T : \A v \in T : least <= v
    BY <1>11, Least
<1>13. PICK j \in D : least = p[j]
    BY <1>12
<1>14. \A l \in D : p[j] <= p[l]
    BY <1>12, <1>13
<1>15. AtLeast(p, D, p[j]) = D
    BY <1>7, <1>14 DEF AtLeast
<1>16. AtMost(p[j], alpha, K)
    BY <1>10, <1>14, <1>15
<1>17. K \in Nat
  <2>1. D \subseteq D
    OBVIOUS
  <2>2. IsFamily(K, m, D, alpha)
    BY <1>3, <2>1, PartIsFamily
  <2> QED
    BY <2>2 DEF IsFamily
<1> HIDE DEF K
<1>18. AtMost(m[j], alpha, K)
  <2>1. p[j] \in Nat /\ m[j] \in Nat /\ m[j] <= p[j] /\ K <= K
    BY <1>7, <1>17
  <2> QED
    BY <1>2, <1>16, <1>17, <2>1, AtMostKeeps
<1>19. xs \in CaseAlarms(ks, alpha, K, j)
    BY <1>1, <1>5, <1>16 DEF CaseAlarms
<1> QED
    BY <1>18, <1>19 DEF K, D, m, alpha

\* A case takes at most its part of the budget.
LEMMA CaseIsBounded ==
    ASSUME NEW ks, NEW n, AreTotals(ks, n), NEW alpha, IsFraction(alpha), NEW K \in Nat,
           NEW j \in 1 .. n
    PROVE  Chance(ks, CaseAlarms(ks, alpha, K, j)) * (alpha[2] * K)
              <= alpha[1] * Product([i \in DOMAIN ks |-> Tables])
<1> DEFINE V == {x \in Support[ks[j]] : AtMost(PWorse[ks[j]][x], alpha, K)}
           S == {xs \in Outcomes(ks) : xs[j] \in V}
<1>1. DOMAIN ks = 1 .. n /\ ks[j] \in 0 .. 2 * Runs
    BY SpaceIs DEF AreTotals
<1>2. V \in SUBSET Support[ks[j]]
    OBVIOUS
<1>3. CaseAlarms(ks, alpha, K, j) = S
    BY <1>1 DEF CaseAlarms, Outcomes
<1>4. PartSum(Weight[ks[j]], V) \in Nat /\ PartSum(Weight[ks[j]], V) * (alpha[2] * K) <= alpha[1] * Tables
    BY <1>1, TailIsSmall
<1>5. alpha[1] \in Nat /\ alpha[2] \in Nat /\ Tables \in Nat
    BY WeightFits DEF IsFraction
<1> HIDE DEF V
<1>6. PICK rest \in Nat :
         /\ Chance(ks, S) = PartSum(Weight[ks[j]], V) * rest
         /\ Product([i \in DOMAIN ks |-> Tables]) = Tables * rest
    BY <1>2, ChanceOfSide
<1>7. ASSUME NEW q \in Nat, NEW k \in Nat, NEW a \in Nat, NEW t \in Nat, q * k <= a * t
      PROVE  (q * rest) * k <= a * (t * rest)
  <2>1. q * k \in Nat /\ a * t \in Nat
    OBVIOUS
  <2>2. (q * k) * rest <= (a * t) * rest
    <3>1. \A u, v, r \in Nat : u <= v => u * r <= v * r
        OBVIOUS
    <3> QED
        BY <1>7, <2>1, <3>1
  <2>3. (q * rest) * k = (q * k) * rest
    OBVIOUS
  <2>4. a * (t * rest) = (a * t) * rest
    OBVIOUS
  <2> QED
    BY <2>2, <2>3, <2>4
<1>8. alpha[2] * K \in Nat
    BY <1>5
<1>9. (PartSum(Weight[ks[j]], V) * rest) * (alpha[2] * K) <= alpha[1] * (Tables * rest)
    BY <1>4, <1>5, <1>7, <1>8
<1> QED
    BY <1>3, <1>6, <1>9

\* The per-case family flags some case with at most its share.
LEMMA FlaggedIsBounded ==
    ASSUME NEW ks, NEW n, AreTotals(ks, n), config \in Blocks
    PROVE  Chance(ks, Flagged(ks)) * CasesAlpha[2]
              <= CasesAlpha[1] * Product([i \in DOMAIN ks |-> Tables])
<1> DEFINE D == 1 .. n
           m == CaseMins(ks)
           alpha == CasesAlpha
           K == FamilySize(m, D, alpha)
           J == {i \in D : AtMost(m[i], alpha, K)}
           X == Outcomes(ks)
           E == [j \in J |-> CaseAlarms(ks, alpha, K, j)]
           U == {xs \in X : \E j \in J : xs \in E[j]}
           w == Likelihoods(ks)
           all == Product([i \in DOMAIN ks |-> Tables])
<1>1. IsFraction(alpha)
    BY ShareIsFraction
<1>2. IsFiniteSet(X) /\ w \in [X -> Nat] /\ IsFiniteSet(D) /\ Cardinality(D) = n /\ DOMAIN ks = D
    BY SpaceIs
<1>3. all \in Nat
    BY ChanceOfAll
<1>4. PICK G : IsAdditive(G, w, X)
  <2>1. \A d \in X : w[d] \in Int
    BY <1>2
  <2> HIDE DEF w, X
  <2> QED
    BY <1>2, <2>1, AdditiveExists
<1>5. \A S \in SUBSET X : Chance(ks, S) = G[S]
    BY <1>4, ChanceIs
<1>6. /\ \A S \in SUBSET X : G[S] \in Nat
      /\ \A S, V \in SUBSET X : S \subseteq V => G[S] <= G[V]
  <2>1. \A d \in X : w[d] \in Nat
    BY <1>2
  <2> HIDE DEF w, X
  <2> QED
    BY <1>2, <1>4, <2>1, AdditiveNatural
<1>7. K \in Nat /\ 1 <= K /\ CanReach(m, D, alpha, K) <= K
  <2>1. AreHypotheses(m, D) /\ Cardinality(D) <= NumCases
    <3>1. \A i \in D : m[i] \in Nat
      <4> TAKE i \in D
      <4>1. ks[i] \in 0 .. 2 * Runs /\ m[i] = MinWorse[ks[i]]
        BY <1>2 DEF AreTotals, CaseMins
      <4>2. PICK x : x \in Support[ks[i]]
        <5>1. PartSum(Weight[ks[i]], Support[ks[i]]) = Tables
            BY <4>1, SupportAddsUp
        <5>2. Support[ks[i]] # {}
            <6> SUFFICES ASSUME Support[ks[i]] = {} PROVE FALSE
                OBVIOUS
            <6>1. PartSum(Weight[ks[i]], {}) = 0
                BY SumOfNone DEF PartSum
            <6> QED
                BY <5>1, <6>1, WeightFits
        <5> QED
            BY <5>2
      <4> QED
        BY <4>1, <4>2, MinWorseIsLeast
    <3>2. n <= NumCases
        BY DEF AreTotals
    <3> HIDE DEF D, m
    <3> QED
        BY <1>2, <3>1, <3>2 DEF AreHypotheses
  <2> HIDE DEF D, m, alpha
  <2>2. IsFamily(K, m, D, alpha)
    BY <1>1, <2>1, FamilySizeIs
  <2> QED
    BY <2>2 DEF IsFamily
<1>8. Cardinality(J) <= K /\ J \in SUBSET D
    BY <1>7 DEF CanReach
<1>9. IsFiniteSet(J) /\ Cardinality(J) \in Nat
  <2> HIDE DEF J, D
  <2> QED
    BY <1>2, <1>8, FS_Subset, FS_CardinalityType
<1>10. E \in [J -> SUBSET X]
    BY DEF CaseAlarms
<1>11. alpha[1] \in Nat /\ alpha[2] \in Nat /\ alpha[2] * K \in Nat /\ alpha[1] * all \in Nat
  <2>1. alpha[1] \in Nat /\ alpha[2] \in Nat
    BY <1>1 DEF IsFraction
  <2> HIDE DEF alpha, all, K
  <2> QED
    BY <1>3, <1>7, <2>1
<1>12. ASSUME NEW j \in J PROVE G[E[j]] * (alpha[2] * K) <= alpha[1] * all
  <2>1. E[j] \in SUBSET X /\ E[j] = CaseAlarms(ks, alpha, K, j) /\ j \in 1 .. n
    BY <1>10
  <2>2. Chance(ks, CaseAlarms(ks, alpha, K, j)) * (alpha[2] * K) <= alpha[1] * all
    BY <1>1, <1>7, <2>1, CaseIsBounded
  <2>3. Chance(ks, E[j]) = G[E[j]]
    BY <1>5, <2>1
  <2> QED
    BY <2>1, <2>2, <2>3
<1>13. Flagged(ks) \subseteq U /\ Flagged(ks) \in SUBSET X /\ U \in SUBSET X
  <2>1. ASSUME NEW xs \in Flagged(ks) PROVE xs \in U
    <3>1. PICK j \in D : AtMost(m[j], alpha, K) /\ xs \in CaseAlarms(ks, alpha, K, j)
        BY FlaggedByOne
    <3>2. j \in J /\ xs \in E[j] /\ xs \in X
        BY <3>1 DEF CaseAlarms
    <3> QED
        BY <3>2
  <2>2. Flagged(ks) \in SUBSET X
    BY DEF Flagged
  <2> QED
    BY <2>1, <2>2
<1> DEFINE b == alpha[1] * all
           c == alpha[2] * K
<1>14. G[U] * c <= Cardinality(J) * b
  <2>1. c \in Nat /\ b \in Nat /\ \A j \in J : G[E[j]] * c <= b
    BY <1>11, <1>12
  <2> HIDE DEF b, c, J, X, E, w
  <2> QED
    BY <1>2, <1>4, <1>9, <1>10, <2>1, UnionBound
<1>15. G[Flagged(ks)] \in Nat /\ G[U] \in Nat /\ G[Flagged(ks)] <= G[U]
    BY <1>6, <1>13
<1>16. Chance(ks, Flagged(ks)) = G[Flagged(ks)]
    BY <1>5, <1>13
<1>17. ASSUME NEW f \in Nat, NEW u \in Nat, f <= u, NEW k \in Nat, NEW d \in Nat, NEW l \in Nat, 1 <= k,
              NEW z \in Nat, u * (d * k) <= l * z, l <= k
       PROVE  f * d <= z
  <2>1. d * k \in Nat /\ f * d \in Nat
    OBVIOUS
  <2>2. \A r, s, q \in Nat : r <= s => r * q <= s * q
    OBVIOUS
  <2>3. f * (d * k) <= u * (d * k)
    BY <1>17, <2>1, <2>2
  <2>4. l * z <= k * z
    BY <1>17, <2>2
  <2>5. f * (d * k) = (f * d) * k /\ k * z = z * k
    OBVIOUS
  <2>6. f * (d * k) \in Nat /\ u * (d * k) \in Nat /\ l * z \in Nat /\ k * z \in Nat
    BY <2>1
  <2>7. (f * d) * k <= z * k
    BY <1>17, <2>3, <2>4, <2>5, <2>6
  <2>8. \A r, s, q \in Nat : 1 <= q /\ r * q <= s * q => r <= s
    OBVIOUS
  <2> QED
    BY <1>17, <2>1, <2>7, <2>8
<1> HIDE DEF D, m, alpha, K, J, X, E, U, w, all, b
<1>18. b \in Nat
    BY <1>11 DEF b
<1>19. G[Flagged(ks)] * alpha[2] <= b
    BY <1>7, <1>8, <1>9, <1>11, <1>14, <1>15, <1>17, <1>18
<1> QED
    BY <1>16, <1>19 DEF b, alpha, all

-----------------------------------------------------------------------------
(* False alarms of the suite.  Swapping the baseline and the candidate of  *)
(* some cases leaves an outcome as likely as it was and turns the deltas.  *)
(* Of the flips of one outcome at most a share is among the unlikely ones, *)
(* whatever the outcome; counting the pairs of flips and outcomes in both  *)
(* ways bounds the chance of an unlikely one.                              *)

\* There are 2 ^ k sign assignments of k values.
LEMMA SignsCount ==
    ASSUME NEW k \in Nat
    PROVE  /\ IsFiniteSet(Signs(k)) /\ Cardinality(Signs(k)) = 2 ^ k /\ 2 ^ k \in Nat
<1> DEFINE D == 1 .. k
           f == [s \in Signs(k) |-> {i \in D : s[i] = 1}]
<1>1. IsFiniteSet(D) /\ Cardinality(D) = k
    BY FS_Interval
<1>2. IsFiniteSet(Signs(k))
    BY <1>1, SignsAreFinite DEF Signs
<1>3. DOMAIN f = Signs(k) /\ \A s \in Signs(k) : f[s] \in SUBSET D
    OBVIOUS
<1>4. ASSUME NEW a \in Signs(k), NEW b \in Signs(k), f[a] = f[b] PROVE a = b
  <2>1. \A i \in D : a[i] \in {-1, 1} /\ b[i] \in {-1, 1}
    BY DEF Signs
  <2>2. \A i \in D : a[i] = 1 <=> i \in f[a]
    OBVIOUS
  <2>3. \A i \in D : b[i] = 1 <=> i \in f[b]
    OBVIOUS
  <2>4. \A i \in D : a[i] = b[i]
    BY <1>4, <2>1, <2>2, <2>3
  <2>5. a = [i \in D |-> a[i]] /\ b = [i \in D |-> b[i]]
    BY DEF Signs
  <2> QED
    BY <2>4, <2>5
<1>5. ASSUME NEW S \in SUBSET D PROVE \E s \in Signs(k) : f[s] = S
  <2> DEFINE s == [i \in D |-> IF i \in S THEN 1 ELSE -1]
  <2>1. s \in Signs(k)
    BY DEF Signs
  <2>2. \A i \in D : s[i] = 1 <=> i \in S
    OBVIOUS
  <2>3. f[s] = {i \in D : s[i] = 1}
    BY <2>1
  <2> HIDE DEF s, f
  <2>4. f[s] = S
    BY <2>2, <2>3
  <2> QED
    BY <2>1, <2>4
<1> DEFINE P == SUBSET D
<1>6. IsFiniteSet(P) /\ Cardinality(P) = 2 ^ k
    BY <1>1, FS_SUBSET
<1> HIDE DEF f, D
<1>7. /\ \A s \in Signs(k) : f[s] \in P
      /\ \A t \in P : \E s \in Signs(k) : f[s] = t
    BY <1>3, <1>5
<1> HIDE DEF P
<1>8. Cardinality(P) = Cardinality(Signs(k))
    BY <1>2, <1>3, <1>4, <1>7, ImageCount
<1> QED
    BY <1>2, <1>6, <1>8, FS_CardinalityType

\* The assignments of signs whose sum is at most t.
UpTo(values, n, t) == {s \in Signs(n) : Signed(s, values, n) <= t}

\* Deltas with some signs turned.
Turned(values, n, s) == [i \in 1 .. n |-> s[i] * values[i]]

\* Turning the signs of the values changes no count of signed sums.
LEMMA TurnedCount ==
    ASSUME NEW values, NEW n, AreDeltas(values, n), NEW s \in Signs(n), NEW t
    PROVE  /\ IsFiniteSet(UpTo(values, n, t))
           /\ Cardinality(UpTo(Turned(values, n, s), n, t)) = Cardinality(UpTo(values, n, t))
<1> DEFINE D == 1 .. n
           turned == Turned(values, n, s)
           Times(u) == [i \in D |-> s[i] * u[i]]
           S == UpTo(values, n, t)
           T == UpTo(turned, n, t)
           f == [u \in S |-> Times(u)]
<1>1. n \in Nat /\ Runs \in Nat /\ \A i \in D : values[i] \in -Runs .. Runs
    BY Parameters DEF AreDeltas
<1>2. \A i \in D : values[i] \in Int
    BY <1>1
<1>3. \A u \in Signs(n) : \A i \in D : u[i] \in {-1, 1}
    BY DEF Signs
<1>4. \A a, b \in {-1, 1} : a * b \in {-1, 1} /\ a * (a * b) = b
    OBVIOUS
<1>5. ASSUME NEW u \in Signs(n) PROVE Times(u) \in Signs(n) /\ Times(Times(u)) = u
  <2>1. \A i \in D : s[i] * u[i] \in {-1, 1} /\ s[i] * (s[i] * u[i]) = u[i]
    BY <1>3, <1>4
  <2>2. Times(u) \in Signs(n)
    BY <2>1 DEF Signs
  <2>3. \A i \in D : Times(Times(u))[i] = u[i]
    BY <2>1
  <2>4. u = [i \in D |-> u[i]]
    BY DEF Signs
  <2>5. Times(Times(u)) = [i \in D |-> Times(Times(u))[i]]
    OBVIOUS
  <2> HIDE DEF Times
  <2> QED
    BY <2>2, <2>3, <2>4, <2>5
<1>6. ASSUME NEW u \in Signs(n) PROVE Signed(Times(u), turned, n) = Signed(u, values, n)
  <2>1. \A a, b \in {-1, 1} : \A v \in Int : (a * b) * (a * v) = b * v
    OBVIOUS
  <2>2. ASSUME NEW i \in D PROVE Times(u)[i] * turned[i] = u[i] * values[i]
    <3>1. s[i] \in {-1, 1} /\ u[i] \in {-1, 1} /\ values[i] \in Int
        BY <1>2, <1>3
    <3>2. Times(u)[i] = s[i] * u[i] /\ turned[i] = s[i] * values[i]
        BY DEF Turned
    <3> QED
        BY <2>1, <3>1, <3>2
  <2>3. [i \in D |-> Times(u)[i] * turned[i]] = [i \in D |-> u[i] * values[i]]
    BY <2>2
  <2> HIDE DEF Times, turned
  <2> QED
    BY <2>3 DEF Signed
<1>7. IsFiniteSet(S)
  <2>1. S \in SUBSET Signs(n) /\ IsFiniteSet(Signs(n))
    BY <1>1, SignsCount DEF UpTo
  <2> QED
    BY <2>1, FS_Subset
<1>8. \A u \in S : f[u] \in T
    BY <1>5, <1>6 DEF UpTo
<1>9. ASSUME NEW a \in S, NEW b \in S, f[a] = f[b] PROVE a = b
  <2>1. a \in Signs(n) /\ b \in Signs(n) /\ Times(a) = Times(b)
    BY <1>9 DEF UpTo
  <2> HIDE DEF Times
  <2>2. Times(Times(a)) = a /\ Times(Times(b)) = b
    BY <1>5, <2>1
  <2> QED
    BY <2>1, <2>2
<1>10. ASSUME NEW u \in T PROVE \E x \in S : f[x] = u
  <2>1. u \in Signs(n) /\ Signed(u, turned, n) <= t
    BY DEF UpTo
  <2>2. Times(u) \in Signs(n) /\ Times(Times(u)) = u
    BY <1>5, <2>1
  <2>3. Signed(Times(Times(u)), turned, n) = Signed(Times(u), values, n)
    BY <1>6, <2>2
  <2>4. Times(u) \in S
    BY <2>1, <2>2, <2>3 DEF UpTo
  <2>5. f[Times(u)] = Times(Times(u))
    BY <2>4
  <2> QED
    BY <2>2, <2>4, <2>5
<1>11. DOMAIN f = S
    OBVIOUS
<1> HIDE DEF S, T, f
<1>12. Cardinality(T) = Cardinality(S)
    BY <1>7, <1>8, <1>9, <1>10, <1>11, ImageCount
<1> QED
    BY <1>7, <1>12 DEF S, T

\* The runs of the cases with sign -1, swapped.
Flip(ks, s, xs) == [i \in DOMAIN ks |-> IF s[i] = 1 THEN xs[i] ELSE ks[i] - xs[i]]

\* A flip is an outcome as likely as the one flipped, it undoes itself, and the
\* deltas of its cases turn sign.
LEMMA FlipIs ==
    ASSUME NEW ks, NEW n, AreTotals(ks, n), NEW s \in Signs(n), NEW xs \in Outcomes(ks)
    PROVE  /\ Flip(ks, s, xs) \in Outcomes(ks)
           /\ Flip(ks, s, Flip(ks, s, xs)) = xs
           /\ Likelihood(ks, Flip(ks, s, xs)) = Likelihood(ks, xs)
           /\ Deltas(ks, Flip(ks, s, xs)) = Turned(Deltas(ks, xs), n, s)
<1> DEFINE D == 1 .. n
           ys == Flip(ks, s, xs)
<1>1. DOMAIN ks = D /\ IsFiniteSet(D) /\ Runs \in Nat
    BY SpaceIs, Parameters
<1>2. \A i \in D : ks[i] \in 0 .. 2 * Runs /\ xs[i] \in Support[ks[i]] /\ s[i] \in {-1, 1}
    BY <1>1 DEF AreTotals, Outcomes, Signs
<1>3. xs \in [D -> 0 .. Runs]
    BY <1>1 DEF Outcomes
<1> HIDE DEF D
<1>4. \A i \in D : ys[i] = IF s[i] = 1 THEN xs[i] ELSE ks[i] - xs[i]
    BY <1>1 DEF Flip
<1>5. ys = [i \in D |-> ys[i]]
    BY <1>1 DEF Flip
<1> HIDE DEF ys
<1>6. \A i \in D : ys[i] \in Support[ks[i]] /\ Weight[ks[i]][ys[i]] = Weight[ks[i]][xs[i]]
    BY <1>2, <1>4, WeightMirrored
<1>7. \A i \in D : ys[i] \in 0 .. Runs
    BY <1>2, <1>6, SupportIs
<1>8. ys \in Outcomes(ks)
    BY <1>1, <1>5, <1>6, <1>7 DEF Outcomes
<1>9. \A i \in D : xs[i] \in Int /\ ks[i] \in Int
    BY <1>1, <1>2, <1>3
<1>10. Flip(ks, s, ys) = xs
  <2>1. \A i \in D : (IF s[i] = 1 THEN ys[i] ELSE ks[i] - ys[i]) = xs[i]
    BY <1>4, <1>9
  <2>2. xs = [i \in D |-> xs[i]]
    BY <1>3
  <2> QED
    BY <1>1, <2>1, <2>2 DEF Flip
<1>11. Likelihood(ks, ys) = Likelihood(ks, xs)
  <2>1. [i \in D |-> Weight[ks[i]][ys[i]]] = [i \in D |-> Weight[ks[i]][xs[i]]]
    BY <1>6
  <2> QED
    BY <1>1, <2>1 DEF Likelihood
<1>12. Deltas(ks, ys) = Turned(Deltas(ks, xs), n, s)
  <2>1. ASSUME NEW i \in D PROVE 2 * ys[i] - ks[i] = s[i] * (2 * xs[i] - ks[i])
    <3>1. xs[i] \in Int /\ ks[i] \in Int /\ s[i] \in {-1, 1}
        BY <1>2, <1>9
    <3>2. CASE s[i] = 1
        BY <1>4, <3>1, <3>2
    <3>3. CASE s[i] = -1
      <4>1. ys[i] = ks[i] - xs[i]
        BY <1>4, <3>3
      <4>2. s[i] * (2 * xs[i] - ks[i]) = -(2 * xs[i] - ks[i])
        BY <3>1, <3>3
      <4> QED
        BY <3>1, <4>1, <4>2
    <3> QED
        BY <3>1, <3>2, <3>3
  <2>2. Deltas(ks, ys) = [i \in D |-> 2 * ys[i] - ks[i]] /\ Deltas(ks, xs) = [i \in D |-> 2 * xs[i] - ks[i]]
    BY <1>1 DEF Deltas
  <2>3. Turned(Deltas(ks, xs), n, s) = [i \in D |-> s[i] * Deltas(ks, xs)[i]]
    BY DEF Turned, D
  <2>4. \A i \in D : Deltas(ks, xs)[i] = 2 * xs[i] - ks[i]
    BY <2>2
  <2> QED
    BY <2>1, <2>2, <2>3, <2>4
<1> QED
    BY <1>8, <1>10, <1>11, <1>12 DEF ys

\* The flips of signs whose sum is at most the observed one, and the outcomes
\* in which they are at most a / d of all.
Rank(values, n) == Cardinality(UpTo(values, n, Sum(values)))

\* The outcomes whose rank is within a / d, and the flips that lead to them.
Unlikely(ks, n, a, d) ==
    {xs \in Outcomes(ks) : Rank(Deltas(ks, xs), n) * d <= a * Cardinality(Signs(n))}

Alarming(ks, n, a, d, xs) == {s \in Signs(n) : Flip(ks, s, xs) \in Unlikely(ks, n, a, d)}

\* At most a / d of the flips of an outcome are among them.
LEMMA FewAlarm ==
    ASSUME NEW ks, NEW n, AreTotals(ks, n), NEW a \in Nat, NEW d \in Nat, NEW xs \in Outcomes(ks)
    PROVE  /\ IsFiniteSet(Alarming(ks, n, a, d, xs)) /\ Cardinality(Alarming(ks, n, a, d, xs)) \in Nat
           /\ Cardinality(Alarming(ks, n, a, d, xs)) * d <= a * Cardinality(Signs(n))
<1> DEFINE values == Deltas(ks, xs)
           N == Cardinality(Signs(n))
           C == Alarming(ks, n, a, d, xs)
           At(s) == Signed(s, values, n)
<1>1. n \in 0 .. NumCases /\ n \in Nat /\ Runs \in Nat /\ ks \in [1 .. n -> 0 .. 2 * Runs]
    BY Parameters DEF AreTotals
<1>2. AreDeltas(values, n)
    BY <1>1, DeltasAre
<1>3. IsFiniteSet(Signs(n)) /\ N \in Nat
    BY <1>1, SignsCount
<1>4. IsFiniteSet(C) /\ Cardinality(C) \in Nat
  <2>1. C \in SUBSET Signs(n)
    BY DEF Alarming
  <2> HIDE DEF C
  <2> QED
    BY <1>3, <2>1, FS_Subset, FS_CardinalityType
<1>5. ASSUME NEW s \in C
      PROVE  /\ s \in Signs(n) /\ IsFiniteSet(UpTo(values, n, At(s)))
             /\ Cardinality(UpTo(values, n, At(s))) * d <= a * N
  <2>1. s \in Signs(n) /\ Flip(ks, s, xs) \in Unlikely(ks, n, a, d)
    BY DEF Alarming
  <2>2. Deltas(ks, Flip(ks, s, xs)) = Turned(values, n, s)
    BY <2>1, FlipIs
  <2>3. Sum(Turned(values, n, s)) = At(s)
    BY DEF Turned, Signed
  <2>4. Rank(Turned(values, n, s), n) * d <= a * N
    BY <2>1, <2>2 DEF Unlikely
  <2> HIDE DEF values, At, N
  <2>5. Rank(Turned(values, n, s), n) = Cardinality(UpTo(Turned(values, n, s), n, At(s)))
    BY <2>3 DEF Rank
  <2>6. /\ IsFiniteSet(UpTo(values, n, At(s)))
        /\ Cardinality(UpTo(Turned(values, n, s), n, At(s))) = Cardinality(UpTo(values, n, At(s)))
    BY <1>2, <2>1, TurnedCount
  <2> QED
    BY <2>1, <2>4, <2>5, <2>6
<1>6. n * Runs \in Nat /\ \A s \in Signs(n) : At(s) \in -(n * Runs) .. n * Runs
  <2>1. n * Runs \in Nat /\ n \in 0 .. n
    BY <1>1
  <2> QED
    BY <1>2, <2>1, SignedIsNear
<1> HIDE DEF values, At, N, C
<1>7. CASE C = {}
  <2>1. Cardinality(C) = 0
    BY <1>7, FS_EmptySet
  <2>2. 0 * d = 0 /\ a * N \in Nat
    BY <1>3
  <2> QED
    BY <1>4, <2>1, <2>2 DEF C, N
<1>8. CASE C # {}
  <2> DEFINE M == n * Runs
             T == {M - At(s) : s \in C}
  <2>1. \A s \in C : At(s) \in Int /\ At(s) <= M
    BY <1>5, <1>6
  <2>2. M \in Nat
    BY <1>6
  <2> HIDE DEF M
  <2>3. T \subseteq Nat /\ T # {}
    BY <1>8, <2>1, <2>2
  <2>4. PICK k \in T : \A l \in T : k <= l
    BY <2>3, Least
  <2>5. PICK s \in C : k = M - At(s)
    BY <2>4
  <2>6. \A u \in C : At(u) <= At(s)
    <3> TAKE u \in C
    <3>1. M - At(s) <= M - At(u)
        BY <2>4, <2>5
    <3> QED
        BY <2>1, <2>2, <2>5, <3>1
  <2> DEFINE U == UpTo(values, n, At(s))
  <2>7. C \subseteq U
    <3>1. \A u \in C : u \in Signs(n) /\ Signed(u, values, n) <= At(s)
        BY <1>5, <2>6 DEF At
    <3> QED
        BY <3>1 DEF UpTo
  <2>8. IsFiniteSet(U) /\ Cardinality(U) * d <= a * N
    BY <1>5, <2>5
  <2> HIDE DEF U
  <2>9. Cardinality(C) <= Cardinality(U) /\ Cardinality(U) \in Nat
    BY <2>7, <2>8, FS_Subset, FS_CardinalityType
  <2>10. \A p, q, z \in Nat : p <= q /\ q * d <= z => p * d <= z
    <3>1. \A p, q \in Nat : p <= q => p * d <= q * d
        OBVIOUS
    <3>2. \A p, q \in Nat : p * d \in Nat /\ q * d \in Nat
        OBVIOUS
    <3> QED
        BY <3>1, <3>2
  <2>11. a * N \in Nat
    BY <1>3
  <2>12. Cardinality(C) * d <= a * N
    BY <1>4, <2>8, <2>9, <2>10, <2>11
  <2> QED
    BY <1>4, <2>12 DEF C, N
<1> QED
    BY <1>7, <1>8

\* A flip of an outcome that lands there.
Landings(ks, n, E) == {q \in Signs(n) \X Outcomes(ks) : Flip(ks, q[1], q[2]) \in E}

\* There are finitely many landings.
LEMMA LandingsAre ==
    ASSUME NEW ks, NEW n, AreTotals(ks, n), NEW E \in SUBSET Outcomes(ks)
    PROVE  LET Q == Landings(ks, n, E) IN
           /\ IsFiniteSet(Q)
           /\ [q \in Q |-> Likelihood(ks, q[2])] \in [Q -> Nat]
<1> DEFINE Q == Landings(ks, n, E)
           X == Outcomes(ks)
<1>1. IsFiniteSet(Signs(n)) /\ IsFiniteSet(X)
    BY SpaceIs, SignsCount
<1>2. Q \in SUBSET (Signs(n) \X X)
    BY DEF Landings
<1>3. IsFiniteSet(Signs(n) \X X)
    BY <1>1, FS_Product
<1>4. \A xs \in X : Likelihood(ks, xs) \in Nat
  <2>1. \A xs \in X : Likelihoods(ks)[xs] = Likelihood(ks, xs)
    BY DEF Likelihoods
  <2> QED
    BY <2>1, SpaceIs
<1>5. \A q \in Q : q[2] \in X
    BY <1>2
<1> HIDE DEF Q, X
<1>6. [q \in Q |-> Likelihood(ks, q[2])] \in [Q -> Nat]
    BY <1>4, <1>5
<1> QED
    BY <1>2, <1>3, <1>6, FS_Subset DEF Q

\* By sign: each flip lands there as likely as the outcomes are.
LEMMA LandingsBySign ==
    ASSUME NEW ks, NEW n, AreTotals(ks, n), NEW E \in SUBSET Outcomes(ks)
    PROVE  Sum([q \in Landings(ks, n, E) |-> Likelihood(ks, q[2])])
              = Cardinality(Signs(n)) * Chance(ks, E)
<1> DEFINE Q == Landings(ks, n, E)
           X == Outcomes(ks)
           S == Signs(n)
           w == [q \in Q |-> Likelihood(ks, q[2])]
           h == [q \in Q |-> q[1]]
           v == [s \in S |-> Chance(ks, E)]
           u == [xs \in E |-> Likelihood(ks, xs)]
<1>1. IsFiniteSet(Q) /\ w \in [Q -> Nat] /\ IsFiniteSet(X) /\ IsFiniteSet(S)
    BY LandingsAre, SpaceIs, SignsCount
<1>2. h \in [Q -> S]
    BY DEF Landings
<1>3. IsFiniteSet(E)
    BY <1>1, FS_Subset
<1>4. u \in [E -> Nat]
  <2>1. \A xs \in X : Likelihoods(ks)[xs] = Likelihood(ks, xs)
    BY DEF Likelihoods
  <2>2. Likelihoods(ks) \in [X -> Nat]
    BY SpaceIs
  <2> QED
    BY <2>1, <2>2
<1>5. Sum(u) = Chance(ks, E) /\ Sum(u) \in Int
  <2>1. Sum(u) = Chance(ks, E)
    BY DEF Chance
  <2> HIDE DEF u
  <2>2. u \in [E -> Int]
    BY <1>4
  <2> QED
    BY <1>3, <2>1, <2>2, SumType
<1>6. ASSUME NEW s \in S PROVE PartSum(w, Fibre(h, Q, s)) = Chance(ks, E)
  <2> DEFINE F == Fibre(h, Q, s)
             g == [xs \in E |-> <<s, Flip(ks, s, xs)>>]
             p == [q \in F |-> w[q]]
  <2>1. F = {q \in Q : q[1] = s}
    BY DEF Fibre
  <2>2. ASSUME NEW xs \in X
        PROVE  /\ Flip(ks, s, xs) \in X
               /\ Flip(ks, s, Flip(ks, s, xs)) = xs
               /\ Likelihood(ks, Flip(ks, s, xs)) = Likelihood(ks, xs)
    BY FlipIs
  <2>3. ASSUME NEW xs \in E PROVE g[xs] \in F /\ u[xs] = p[g[xs]]
    <3> DEFINE q == <<s, Flip(ks, s, xs)>>
    <3>1. q \in S \X X /\ q[1] = s /\ q[2] = Flip(ks, s, xs)
        BY <2>2
    <3>2. q \in Q
        BY <2>2, <3>1 DEF Landings
    <3>3. q \in F /\ g[xs] = q
        BY <2>1, <3>1, <3>2
    <3>4. w[q] = Likelihood(ks, xs)
        BY <2>2, <3>1, <3>2
    <3> QED
        BY <3>3, <3>4
  <2>4. ASSUME NEW x \in E, NEW y \in E, g[x] = g[y] PROVE x = y
    <3>1. g[x] = <<s, Flip(ks, s, x)>> /\ g[y] = <<s, Flip(ks, s, y)>>
        OBVIOUS
    <3>2. Flip(ks, s, x) = Flip(ks, s, y)
        BY <2>4, <3>1
    <3> QED
        BY <2>2, <3>2
  <2>5. ASSUME NEW q \in F PROVE q \in Image(g, E)
    <3>1. q \in S \X X /\ q[1] = s /\ Flip(ks, s, q[2]) \in E
        BY <2>1 DEF Landings
    <3> DEFINE xs == Flip(ks, s, q[2])
    <3>2. xs \in E /\ Flip(ks, s, xs) = q[2]
        BY <2>2, <3>1
    <3>3. g[xs] = <<s, q[2]>> /\ q = <<s, q[2]>>
        BY <3>1, <3>2
    <3> QED
        BY <3>2, <3>3 DEF Image
  <2>6. F \in SUBSET Q
    BY <2>1
  <2> HIDE DEF F
  <2>7. IsFiniteSet(F)
    BY <1>1, <2>6, FS_Subset
  <2>8. p \in [F -> Int]
    BY <1>1, <2>6
  <2>9. g \in [E -> F]
    <3>1. g = [xs \in E |-> g[xs]]
        OBVIOUS
    <3> HIDE DEF g
    <3> QED
        BY <2>3, <3>1
  <2>10. DOMAIN u = E /\ \A xs \in E : u[xs] = p[g[xs]]
    BY <2>3
  <2> HIDE DEF g, p, u
  <2>11. Renames(u, E, g, p, F)
    BY <1>3, <2>4, <2>5, <2>7, <2>8, <2>9, <2>10 DEF Renames
  <2>12. Sum(p) = Sum(u)
    BY <2>11, SumRenamed
  <2> QED
    BY <1>5, <2>12 DEF PartSum, p, F
<1>7. DOMAIN v = S /\ \A s \in S : v[s] = PartSum(w, Fibre(h, Q, s)) /\ v[s] = Chance(ks, E)
    BY <1>6
<1>8. w \in [Q -> Int]
    BY <1>1
<1>9. Chance(ks, E) \in Int
    BY <1>5
<1> HIDE DEF Q, S, w, h, v
<1>10. Sum(w) = Sum(v)
    BY <1>1, <1>2, <1>7, <1>8, SumByFibre
<1>11. Sum(v) = Cardinality(S) * Chance(ks, E)
    BY <1>1, <1>7, <1>9, SumOfEqual
<1> QED
    BY <1>10, <1>11 DEF Q, S, w

\* By outcome: few of its flips land there.
LEMMA LandingsByOutcome ==
    ASSUME NEW ks, NEW n, AreTotals(ks, n), NEW a \in Nat, NEW d \in Nat
    PROVE  LET E == Unlikely(ks, n, a, d) IN
           d * Sum([q \in Landings(ks, n, E) |-> Likelihood(ks, q[2])])
              <= (a * Cardinality(Signs(n))) * Chance(ks, Outcomes(ks))
<1> DEFINE E == Unlikely(ks, n, a, d)
           Q == Landings(ks, n, E)
           X == Outcomes(ks)
           S == Signs(n)
           w == [q \in Q |-> Likelihood(ks, q[2])]
           h == [q \in Q |-> q[2]]
           C(xs) == Alarming(ks, n, a, d, xs)
           l == Likelihoods(ks)
           v == [xs \in X |-> Cardinality(C(xs)) * l[xs]]
           b == a * Cardinality(S)
           scaled == [xs \in X |-> d * v[xs]]
           bound == [xs \in X |-> b * l[xs]]
<1>1. E \in SUBSET X
    BY DEF Unlikely
<1>2. IsFiniteSet(Q) /\ w \in [Q -> Nat] /\ IsFiniteSet(X) /\ IsFiniteSet(S) /\ l \in [X -> Nat]
    BY <1>1, LandingsAre, SpaceIs, SignsCount
<1>3. b \in Nat
    BY <1>2, FS_CardinalityType
<1>4. h \in [Q -> X]
    BY DEF Landings
<1>5. \A xs \in X : l[xs] = Likelihood(ks, xs) /\ l[xs] \in Nat
    BY <1>2 DEF Likelihoods
<1>6. \A xs \in X : IsFiniteSet(C(xs)) /\ Cardinality(C(xs)) \in Nat /\ Cardinality(C(xs)) * d <= b
    BY FewAlarm
<1>7. ASSUME NEW xs \in X PROVE PartSum(w, Fibre(h, Q, xs)) = Cardinality(C(xs)) * l[xs]
  <2> DEFINE F == Fibre(h, Q, xs)
             p == [q \in F |-> w[q]]
             B == C(xs)
             f == [s \in B |-> <<s, xs>>]
  <2>1. F = {q \in Q : q[2] = xs}
    BY DEF Fibre
  <2>2. ASSUME NEW s \in B PROVE f[s] \in F
    <3>1. s \in S /\ Flip(ks, s, xs) \in E
        BY DEF Alarming
    <3>2. <<s, xs>> \in Q
        BY <3>1 DEF Landings
    <3> QED
        BY <2>1, <3>2
  <2>3. \A s, t \in B : f[s] = f[t] => s = t
    OBVIOUS
  <2>4. ASSUME NEW q \in F PROVE \E s \in B : f[s] = q
    <3>1. q \in S \X X /\ q[2] = xs /\ Flip(ks, q[1], q[2]) \in E
        BY <2>1 DEF Landings
    <3>2. q[1] \in B
        BY <3>1 DEF Alarming
    <3>3. f[q[1]] = q
        BY <3>1, <3>2
    <3> QED
        BY <3>2, <3>3
  <2>5. DOMAIN f = B
    OBVIOUS
  <2>6. IsFiniteSet(B)
    BY <1>6
  <2>7. DOMAIN p = F /\ \A q \in F : p[q] = l[xs]
    BY <1>5, <2>1
  <2>8. l[xs] \in Int
    BY <1>5
  <2> HIDE DEF F, p, B, f, l
  <2>9. IsFiniteSet(F) /\ Cardinality(F) = Cardinality(B)
    BY <2>2, <2>3, <2>4, <2>5, <2>6, ImageCount
  <2>10. Sum(p) = Cardinality(F) * l[xs]
    BY <2>7, <2>8, <2>9, SumOfEqual
  <2> QED
    BY <2>9, <2>10 DEF PartSum, p, F, B
<1>8. DOMAIN v = X /\ \A xs \in X : v[xs] = PartSum(w, Fibre(h, Q, xs))
    BY <1>7
<1>9. w \in [Q -> Int]
    BY <1>2
<1>10. v \in [X -> Int]
  <2>1. \A xs \in X : Cardinality(C(xs)) \in Nat /\ l[xs] \in Nat
    BY <1>5, <1>6
  <2>2. \A i, j \in Nat : i * j \in Int
    OBVIOUS
  <2> HIDE DEF l, C
  <2> QED
    BY <2>1, <2>2
<1>11. \A xs \in X : scaled[xs] = d * v[xs]
    OBVIOUS
<1>12. scaled \in [X -> Int] /\ bound \in [X -> Int]
  <2>1. \A xs \in X : v[xs] \in Int /\ l[xs] \in Nat
    BY <1>5, <1>10
  <2>2. \A i \in Int : d * i \in Int
    OBVIOUS
  <2>3. \A j \in Nat : b * j \in Int
    BY <1>3
  <2> HIDE DEF l, v, b
  <2> QED
    BY <2>1, <2>2, <2>3
<1>13. ASSUME NEW xs \in X PROVE scaled[xs] <= bound[xs]
  <2>1. \A c, k \in Nat : c * d <= b => d * (c * k) <= b * k
    <3> SUFFICES ASSUME NEW c \in Nat, NEW k \in Nat, c * d <= b PROVE d * (c * k) <= b * k
        OBVIOUS
    <3>1. c * d \in Nat
        OBVIOUS
    <3>2. \A i, j \in Nat : i <= j => i * k <= j * k
        OBVIOUS
    <3> HIDE DEF b
    <3>3. (c * d) * k <= b * k
        BY <1>3, <3>1, <3>2
    <3>4. d * (c * k) = (c * d) * k
        OBVIOUS
    <3> QED
        BY <3>3, <3>4
  <2>2. scaled[xs] = d * (Cardinality(C(xs)) * l[xs]) /\ bound[xs] = b * l[xs]
    OBVIOUS
  <2>3. Cardinality(C(xs)) \in Nat /\ l[xs] \in Nat /\ Cardinality(C(xs)) * d <= b
    BY <1>5, <1>6
  <2> HIDE DEF scaled, bound, l, C, b
  <2> QED
    BY <2>1, <2>2, <2>3
<1>14. Sum(l) = Chance(ks, X)
    BY DEF Likelihoods, Chance
<1>15. DOMAIN scaled = X /\ DOMAIN bound = X /\ \A xs \in X : bound[xs] = b * l[xs]
    OBVIOUS
<1>16. l \in [X -> Int] /\ b \in Int /\ d \in Int
    BY <1>2, <1>3
<1> HIDE DEF E, Q, X, S, w, h, C, l, v, b, scaled, bound
<1>17. Sum(w) = Sum(v)
    BY <1>2, <1>4, <1>8, <1>9, SumByFibre
<1>18. Sum(scaled) = d * Sum(v)
    BY <1>2, <1>10, <1>11, <1>15, <1>16, SumScaled
<1>19. Sum(bound) = b * Sum(l)
    BY <1>2, <1>15, <1>16, SumScaled
<1>20. Sum(scaled) <= Sum(bound)
    BY <1>2, <1>12, <1>13, SumBelow
<1>21. d * Sum(w) <= b * Chance(ks, X)
    BY <1>14, <1>17, <1>18, <1>19, <1>20
<1> QED
    BY <1>21 DEF E, Q, X, S, w, b

\* The suite test alone alarms with chance at most a / d.
LEMMA UnlikelyIsBounded ==
    ASSUME NEW ks, NEW n, AreTotals(ks, n), NEW a \in Nat, NEW d \in Nat
    PROVE  Chance(ks, Unlikely(ks, n, a, d)) * d <= a * Product([i \in DOMAIN ks |-> Tables])
<1> DEFINE E == Unlikely(ks, n, a, d)
           N == Cardinality(Signs(n))
           all == Product([i \in DOMAIN ks |-> Tables])
           c == Chance(ks, E)
<1>1. n \in Nat /\ IsFiniteSet(Outcomes(ks)) /\ Likelihoods(ks) \in [Outcomes(ks) -> Nat]
    BY SpaceIs
<1>2. N = 2 ^ n /\ N \in Nat
    BY <1>1, SignsCount
<1>3. N >= 1
  <2> DEFINE s == [i \in 1 .. n |-> 1]
  <2>1. s \in Signs(n) /\ IsFiniteSet(Signs(n))
    BY <1>1, SignsCount DEF Signs
  <2>2. Signs(n) # {}
    BY <2>1
  <2>3. N # 0
    BY <2>1, <2>2, FS_EmptySet
  <2> QED
    BY <1>2, <2>3
<1>4. E \in SUBSET Outcomes(ks)
    BY DEF Unlikely
<1>5. all \in Nat /\ Chance(ks, Outcomes(ks)) = all
    BY ChanceOfAll
<1>6. c \in Nat
  <2> DEFINE w == Likelihoods(ks)
             X == Outcomes(ks)
  <2>1. \A x \in X : w[x] \in Int /\ w[x] \in Nat
    BY <1>1
  <2> HIDE DEF w, X
  <2>2. IsFiniteSet(X)
    BY <1>1 DEF X
  <2>3. PICK G : IsAdditive(G, w, X)
    BY <2>1, <2>2, AdditiveExists
  <2>4. \A S \in SUBSET X : G[S] \in Nat
    BY <2>1, <2>2, <2>3, AdditiveNatural
  <2>5. c = G[E]
    BY <1>4, <2>3, ChanceIs DEF w, X
  <2> QED
    BY <1>4, <2>4, <2>5 DEF X
<1>7. d * Sum([q \in Landings(ks, n, E) |-> Likelihood(ks, q[2])]) <= (a * N) * all
    BY <1>5, LandingsByOutcome
<1>8. Sum([q \in Landings(ks, n, E) |-> Likelihood(ks, q[2])]) = N * c
    BY <1>4, LandingsBySign
<1> HIDE DEF E, N, all, c
<1>9. d * (N * c) <= (a * N) * all
    BY <1>7, <1>8
<1>10. d * (N * c) = (c * d) * N /\ (a * N) * all = (a * all) * N
    BY <1>2, <1>5, <1>6
<1>11. c * d \in Nat /\ a * all \in Nat
    BY <1>5, <1>6
<1>12. \A r, s, q \in Nat : 1 <= q /\ r * q <= s * q => r <= s
    OBVIOUS
<1>13. c * d <= a * all
    BY <1>2, <1>3, <1>9, <1>10, <1>11, <1>12
<1> QED
    BY <1>13 DEF c, all, E

\* What the code counts, the zeros left out, is within the budget only if all
\* flips are.
LEMMA SuiteAlarmIs ==
    ASSUME NEW ks, NEW n, AreTotals(ks, n), NEW xs \in Outcomes(ks),
           SuiteAlpha[1] \in Nat, SuiteAlpha[2] \in Nat, SuiteRegressed(Deltas(ks, xs))
    PROVE  xs \in Unlikely(ks, n, SuiteAlpha[1], SuiteAlpha[2])
<1> DEFINE deltas == Deltas(ks, xs)
           z == Cardinality(Kept(deltas))
           a == SuiteAlpha[1]
           d == SuiteAlpha[2]
           flips == FlipsWorse(deltas)
<1>1. n \in 0 .. NumCases /\ n \in Nat /\ ks \in [1 .. n -> 0 .. 2 * Runs]
    BY DEF AreTotals
<1>2. AreDeltas(deltas, n) /\ DOMAIN deltas = 1 .. n
    BY <1>1, DeltasAre
<1>3. flips * d <= a * 2 ^ Len(NonZero(deltas))
    BY DEF SuiteRegressed, SuiteSignificant
<1> HIDE DEF deltas, flips
<1>4. AreDeltas(NonZero(deltas), z) /\ z <= n
    BY <1>2, NonZeroIs
<1>5. z \in Nat
    BY <1>4 DEF AreDeltas
<1> HIDE DEF z
<1>6. Len(deltas) = n /\ Len(NonZero(deltas)) = z
    BY <1>1, <1>2, <1>4, <1>5 DEF AreDeltas
<1>7. n - z \in Nat
    BY <1>1, <1>4, <1>5
<1>8. flips * 2 ^ (n - z) = Rank(deltas, n)
  <2> DEFINE signs == [DOMAIN deltas -> {-1, 1}]
             Flipped(s) == Sum([i \in DOMAIN deltas |-> s[i] * deltas[i]])
  <2>1. signs = Signs(n) /\ \A s : Flipped(s) = Signed(s, deltas, n)
    BY <1>2 DEF Signs, Signed
  <2>2. FlipsWorse(deltas) * 2 ^ (n - z) = Cardinality({s \in signs : Flipped(s) <= Sum(deltas)})
    BY <1>2, <1>6, FlipsAreExact
  <2> HIDE DEF signs, Flipped
  <2>3. {s \in signs : Flipped(s) <= Sum(deltas)} = UpTo(deltas, n, Sum(deltas))
    BY <2>1 DEF UpTo
  <2> QED
    BY <2>2, <2>3 DEF Rank, flips
<1>9. Cardinality(Signs(n)) = 2 ^ z * 2 ^ (n - z)
  <2>1. Cardinality({s \in Signs(n) : Signed(s, deltas, n) \in Int})
           = Cardinality({u \in Signs(z) : Signed(u, NonZero(deltas), z) \in Int}) * 2 ^ (n - z)
    BY <1>2, ZerosDouble DEF z
  <2>2. \A s \in Signs(n) : Signed(s, deltas, n) \in Int
    <3>1. n \in 0 .. n /\ n \in 0 .. NumCases
        BY <1>1
    <3> QED
        BY <1>2, <3>1, SignedIsNear, WindowIs
  <2>3. \A u \in Signs(z) : Signed(u, NonZero(deltas), z) \in Int
    <3>1. z \in 0 .. z /\ z \in 0 .. NumCases
        BY <1>1, <1>4, <1>5, Parameters
    <3> QED
        BY <1>4, <3>1, SignedIsNear, WindowIs
  <2>4. /\ {s \in Signs(n) : Signed(s, deltas, n) \in Int} = Signs(n)
        /\ {u \in Signs(z) : Signed(u, NonZero(deltas), z) \in Int} = Signs(z)
    BY <2>2, <2>3
  <2>5. Cardinality(Signs(z)) = 2 ^ z
    BY <1>5, SignsCount
  <2> QED
    BY <2>1, <2>4, <2>5
<1>10. 2 ^ z \in Nat /\ 2 ^ (n - z) \in Nat
    BY <1>5, <1>7, SignsCount
<1>11. flips \in Int
  <2> DEFINE counts == SignedSums(NonZero(deltas))
             B == {t \in DOMAIN counts : t <= Sum(deltas)}
             f == [t \in B |-> counts[t]]
  <2>1. counts = CountsOf(NonZero(deltas), z)
    BY <1>4, SignedSumsAre
  <2>2. DOMAIN counts = Window /\ \A t \in Window : counts[t] \in Int
    BY <1>5, <2>1, WithSumIsFinite DEF CountsOf
  <2>3. f \in [B -> Int]
    BY <2>2
  <2>4. B \subseteq Window
    BY <2>2
  <2>5. flips = Sum(f)
    BY DEF FlipsWorse, flips
  <2> HIDE DEF f, B
  <2>6. IsFiniteSet(B)
    BY <2>4, WindowIs, FS_Subset
  <2> QED
    BY <2>3, <2>5, <2>6, SumType
<1>12. ASSUME NEW p \in Nat, NEW q \in Nat, NEW f \in Int, f * d <= a * p
       PROVE  (f * q) * d <= a * (p * q)
  <2>1. f * d \in Int /\ a * p \in Int
    OBVIOUS
  <2>2. \A i, j \in Int : i <= j => i * q <= j * q
    OBVIOUS
  <2>3. (f * d) * q <= (a * p) * q
    BY <1>12, <2>1, <2>2
  <2>4. (f * q) * d = (f * d) * q /\ a * (p * q) = (a * p) * q
    OBVIOUS
  <2> QED
    BY <2>3, <2>4
<1> HIDE DEF a, d
<1>13. (flips * 2 ^ (n - z)) * d <= a * (2 ^ z * 2 ^ (n - z))
    BY <1>3, <1>6, <1>10, <1>11, <1>12
<1>14. Rank(deltas, n) * d <= a * Cardinality(Signs(n))
    BY <1>8, <1>9, <1>13
<1> QED
    BY <1>14 DEF Unlikely, deltas, a, d

-----------------------------------------------------------------------------
(* The verdict: the two bounds together, within the budget.                *)

\* Shares as the tests use them.
ShareAlphas == CasesAlpha[1] \in Nat /\ CasesAlpha[2] \in Nat \ {0}
               /\ SuiteAlpha[1] \in Nat /\ SuiteAlpha[2] \in Nat \ {0}
               /\ config.alpha[1] \in Nat /\ config.alpha[2] \in Nat \ {0}

\* Both shares are fractions, set by the suite or half of the budget.
LEMMA SharesAre == config \in Blocks => ShareAlphas
<1> SUFFICES ASSUME config \in Blocks PROVE ShareAlphas
    OBVIOUS
<1>1. /\ config.alpha \in Alphas
      /\ config.alpha_cases \in CaseShares \cup {Unset}
      /\ config.alpha_suite \in SuiteShares \cup {Unset}
    BY DEF Blocks
<1>2. \A alpha \in Alphas \cup CaseShares \cup SuiteShares : IsFraction(alpha)
    BY Parameters DEF IsFraction
<1>3. \A alpha : IsFraction(alpha) => IsFraction(Half(alpha))
    BY DEF IsFraction, Half
<1>4. IsFraction(CasesAlpha) /\ IsFraction(SuiteAlpha) /\ IsFraction(config.alpha)
    BY <1>1, <1>2, <1>3 DEF CasesAlpha, CasesShare, SuiteAlpha, SuiteShare
<1>5. \A alpha : IsFraction(alpha) => alpha[1] \in Nat /\ alpha[2] \in Nat \ {0}
    BY DEF IsFraction
<1> QED
    BY <1>4, <1>5 DEF ShareAlphas

\* Chances f and s within two shares a1 / a2 and b1 / b2 of a budget c1 / c2.
InShares(a1, a2, b1, b2, c1, c2, all, f, s, v) ==
    /\ a1 \in Nat /\ a2 \in Nat /\ a2 # 0 /\ b1 \in Nat /\ b2 \in Nat /\ b2 # 0
    /\ c1 \in Nat /\ c2 \in Nat /\ all \in Nat /\ f \in Nat /\ s \in Nat /\ v \in Nat
    /\ (a1 * b2 + b1 * a2) * c2 <= c1 * a2 * b2
    /\ f * a2 <= a1 * all
    /\ s * b2 <= b1 * all
    /\ v <= f + s

\* They are within the budget.
LEMMA SharesAddUp ==
    ASSUME NEW a1, NEW a2, NEW b1, NEW b2, NEW c1, NEW c2, NEW all, NEW f, NEW s, NEW v,
           InShares(a1, a2, b1, b2, c1, c2, all, f, s, v)
    PROVE  v * c2 <= c1 * all
<1>0. /\ a1 \in Nat /\ a2 \in Nat /\ a2 # 0 /\ b1 \in Nat /\ b2 \in Nat /\ b2 # 0
      /\ c1 \in Nat /\ c2 \in Nat /\ all \in Nat /\ f \in Nat /\ s \in Nat /\ v \in Nat
      /\ (a1 * b2 + b1 * a2) * c2 <= c1 * a2 * b2
      /\ f * a2 <= a1 * all /\ s * b2 <= b1 * all /\ v <= f + s
    BY DEF InShares
<1> USE <1>0
<1> DEFINE q == a2 * b2
<1>1. q \in Nat /\ q >= 1
  <2>1. \A i, j \in Nat : i # 0 /\ j # 0 => i * j # 0
    OBVIOUS
  <2> QED
    BY <2>1
<1>2. \A i, j, k \in Nat : i <= j => i * k <= j * k
    OBVIOUS
<1>3. (f * a2) * b2 <= (a1 * all) * b2
  <2>1. f * a2 \in Nat /\ a1 * all \in Nat
    OBVIOUS
  <2> QED
    BY <1>2, <2>1
<1>4. (s * b2) * a2 <= (b1 * all) * a2
  <2>1. s * b2 \in Nat /\ b1 * all \in Nat
    OBVIOUS
  <2> QED
    BY <1>2, <2>1
<1>5. (f * a2) * b2 = f * q /\ (s * b2) * a2 = s * q
    OBVIOUS
<1>6. (a1 * all) * b2 = (a1 * b2) * all /\ (b1 * all) * a2 = (b1 * a2) * all
    OBVIOUS
<1>7. (a1 * b2) * all + (b1 * a2) * all = (a1 * b2 + b1 * a2) * all
    OBVIOUS
<1> DEFINE m == a1 * b2 + b1 * a2
<1>8. m \in Nat /\ c1 * a2 * b2 = c1 * q
    OBVIOUS
<1>9. (f + s) * q = f * q + s * q
    OBVIOUS
<1>10. (f + s) * q <= m * all
  <2>1. /\ f * q \in Nat /\ s * q \in Nat
        /\ (a1 * b2) * all \in Nat /\ (b1 * a2) * all \in Nat
    OBVIOUS
  <2>2. \A i, j, k, l \in Nat : i <= j /\ k <= l => i + k <= j + l
    OBVIOUS
  <2>3. f * q + s * q <= (a1 * b2) * all + (b1 * a2) * all
    BY <1>3, <1>4, <1>5, <1>6, <2>1, <2>2
  <2> HIDE DEF q
  <2> QED
    BY <1>7, <1>9, <2>3
<1>11. m * c2 <= c1 * q
    BY <1>8
<1> HIDE DEF q, m
<1>12. v * q <= m * all
  <2>1. v * q <= (f + s) * q
    BY <1>1, <1>2
  <2>2. v * q \in Nat /\ (f + s) * q \in Nat /\ m * all \in Nat
    BY <1>1, <1>8
  <2> QED
    BY <1>10, <2>1, <2>2
<1>13. (v * q) * c2 <= (m * all) * c2
  <2>1. v * q \in Nat /\ m * all \in Nat
    BY <1>1, <1>8
  <2> QED
    BY <1>2, <1>12, <2>1
<1>14. (m * c2) * all <= (c1 * q) * all
  <2>1. m * c2 \in Nat /\ c1 * q \in Nat
    BY <1>1, <1>8
  <2> QED
    BY <1>2, <1>11, <2>1
<1>15. (m * all) * c2 = (m * c2) * all
    BY <1>8
<1>16. (v * q) * c2 = (v * c2) * q /\ (c1 * q) * all = (c1 * all) * q
    BY <1>1
<1>17. (v * c2) * q <= (c1 * all) * q
  <2>1. (v * q) * c2 \in Nat /\ (m * all) * c2 \in Nat /\ (c1 * q) * all \in Nat
    BY <1>1, <1>8
  <2> QED
    BY <1>13, <1>14, <1>15, <1>16, <2>1
<1>18. \A i, j, k \in Nat : 1 <= k /\ i * k <= j * k => i <= j
    OBVIOUS
<1>19. v * c2 \in Nat /\ c1 * all \in Nat
    OBVIOUS
<1> QED
    BY <1>1, <1>17, <1>18, <1>19

\* An override that overspends the budget is refused.
BudgetIsKept == config \in Blocks => WithinBudget(config)

\* The inductive invariant.
ConfigInv == Compared /\ BudgetIsKept

\* FalseAlarmsBounded for totals in any order, before and after a report.
AlarmsBounded ==
    config \in Blocks =>
        LET all == Product([i \in DOMAIN totals |-> Tables]) IN
        /\ Chance(totals, Flagged(totals)) * CasesAlpha[2] <= CasesAlpha[1] * all
        /\ Chance(totals, Alarmed(totals)) * config.alpha[2] <= config.alpha[1] * all

\* Each test is within its share, and the verdict within both.
LEMMA AlarmsHold == ConfigInv => AlarmsBounded
<1> SUFFICES ASSUME ConfigInv, config \in Blocks
             PROVE  LET all == Product([i \in DOMAIN totals |-> Tables]) IN
                    /\ Chance(totals, Flagged(totals)) * CasesAlpha[2] <= CasesAlpha[1] * all
                    /\ Chance(totals, Alarmed(totals)) * config.alpha[2] <= config.alpha[1] * all
    BY DEF AlarmsBounded
<1> DEFINE all == Product([i \in DOMAIN totals |-> Tables])
           X == Outcomes(totals)
           w == Likelihoods(totals)
           f == Chance(totals, Flagged(totals))
           v == Chance(totals, Alarmed(totals))
<1>1. PICK n \in 0 .. NumCases : AreTotals(totals, n)
    BY DEF ConfigInv, Compared, TotalsTypeOK, AreTotals
<1> DEFINE E == Unlikely(totals, n, SuiteAlpha[1], SuiteAlpha[2])
           s == Chance(totals, E)
<1>2. ShareAlphas
    BY SharesAre
<1>3. f * CasesAlpha[2] <= CasesAlpha[1] * all
    BY <1>1, FlaggedIsBounded
<1>4. SuiteAlpha[1] \in Nat /\ SuiteAlpha[2] \in Nat
    BY <1>2 DEF ShareAlphas
<1>5. s * SuiteAlpha[2] <= SuiteAlpha[1] * all
    BY <1>1, <1>4, UnlikelyIsBounded
<1>6. Alarmed(totals) \subseteq Flagged(totals) \cup E
  <2> SUFFICES ASSUME NEW xs \in Alarmed(totals), xs \notin Flagged(totals) PROVE xs \in E
    OBVIOUS
  <2>1. xs \in Outcomes(totals) /\ Verdict(totals, xs) = "regression"
    BY DEF Alarmed
  <2>2. Regressed(totals, xs) = {}
    BY <2>1 DEF Flagged
  <2>3. SuiteRegressed(Deltas(totals, xs))
    BY <2>1, <2>2 DEF Verdict
  <2> QED
    BY <1>1, <1>4, <2>1, <2>3, SuiteAlarmIs
<1>7. /\ Alarmed(totals) \in SUBSET X /\ Flagged(totals) \in SUBSET X /\ E \in SUBSET X
    BY DEF Alarmed, Flagged, Unlikely
<1>8. all \in Nat
    BY <1>1, ChanceOfAll
<1>9. IsFiniteSet(X) /\ w \in [X -> Nat]
    BY <1>1, SpaceIs
<1>10. \A x \in X : w[x] \in Int /\ w[x] \in Nat
    BY <1>9
<1>11. PICK G : IsAdditive(G, w, X)
  <2> HIDE DEF w, X
  <2> QED
    BY <1>9, <1>10, AdditiveExists
<1>12. \A S \in SUBSET X : Chance(totals, S) = G[S]
    BY <1>1, <1>11, ChanceIs
<1>13. /\ \A S \in SUBSET X : G[S] \in Nat
       /\ \A S, T \in SUBSET X : S \subseteq T => G[S] <= G[T]
       /\ \A S, T \in SUBSET X : G[S \cup T] <= G[S] + G[T]
  <2>1. \A d \in X : w[d] \in Nat
    BY <1>10
  <2> HIDE DEF w, X
  <2> QED
    BY <1>9, <1>11, <2>1, AdditiveNatural
<1>14. f \in Nat /\ s \in Nat /\ v \in Nat /\ v <= f + s
  <2> DEFINE A == Alarmed(totals)
             F0 == Flagged(totals)
  <2>1. A \in SUBSET X /\ F0 \in SUBSET X /\ E \in SUBSET X /\ F0 \cup E \in SUBSET X /\ A \subseteq F0 \cup E
    BY <1>6, <1>7
  <2>2. v = G[A] /\ f = G[F0] /\ s = G[E]
    BY <1>12, <2>1
  <2> HIDE DEF A, F0, E, X, v, f, s
  <2>3. G[A] <= G[F0 \cup E] /\ G[F0 \cup E] <= G[F0] + G[E]
    BY <1>13, <2>1
  <2>4. G[A] \in Nat /\ G[F0 \cup E] \in Nat /\ G[F0] \in Nat /\ G[E] \in Nat
    BY <1>13, <2>1
  <2> QED
    BY <2>2, <2>3, <2>4
<1>15. (CasesAlpha[1] * SuiteAlpha[2] + SuiteAlpha[1] * CasesAlpha[2]) * config.alpha[2]
          <= config.alpha[1] * CasesAlpha[2] * SuiteAlpha[2]
    BY DEF ConfigInv, BudgetIsKept, WithinBudget, CasesAlpha, SuiteAlpha
<1>16. /\ CasesAlpha[1] \in Nat /\ CasesAlpha[2] \in Nat /\ CasesAlpha[2] # 0
       /\ SuiteAlpha[1] \in Nat /\ SuiteAlpha[2] \in Nat /\ SuiteAlpha[2] # 0
       /\ config.alpha[1] \in Nat /\ config.alpha[2] \in Nat
    BY <1>2 DEF ShareAlphas
<1> HIDE DEF all, f, v, s
<1>17. v * config.alpha[2] <= config.alpha[1] * all
  <2>1. InShares(CasesAlpha[1], CasesAlpha[2], SuiteAlpha[1], SuiteAlpha[2],
                 config.alpha[1], config.alpha[2], all, f, s, v)
    BY <1>3, <1>5, <1>8, <1>14, <1>15, <1>16 DEF InShares
  <2> QED
    BY <2>1, SharesAddUp
<1> QED
    BY <1>3, <1>17 DEF all, f, v

-----------------------------------------------------------------------------
(* The invariant and the theorems                                          *)

\* Nothing is read or compared at first.
LEMMA InitConfig == Init => ConfigInv
<1> SUFFICES ASSUME Init PROVE ConfigInv
    OBVIOUS
<1>1. config \notin Blocks
  <2>1. \A c \in Blocks : "alpha_cases" \in DOMAIN c
    BY DEF Blocks
  <2> QED
    BY <2>1 DEF Init, Unread
<1> QED
    BY <1>1 DEF Init, ConfigInv, Compared, TotalsTypeOK, BudgetIsKept

\* A configuration is read within the budget, changed within it, and stays once
\* the runs are compared.
LEMMA NextConfig == ConfigInv /\ [Next]_vars => ConfigInv'
<1> SUFFICES ASSUME ConfigInv, [Next]_vars PROVE Compared' /\ BudgetIsKept'
    BY DEF ConfigInv
<1>0. Compared /\ BudgetIsKept
    BY DEF ConfigInv
<1>1. Refused \notin Blocks /\ Unread \notin Blocks
  <2>1. \A c \in Blocks : "alpha_cases" \in DOMAIN c
    BY DEF Blocks
  <2>2. "alpha_cases" \notin DOMAIN Refused /\ "alpha_cases" \notin DOMAIN Unread
    BY DEF Refused, Unread
  <2> QED
    BY <2>1, <2>2
<1>2. CASE ParseSuite
  <2>1. report = NoReport
    BY <1>0, <1>1, <1>2 DEF ParseSuite, Compared
  <2> QED
    BY <1>0, <1>1, <1>2, <2>1 DEF ParseSuite, Compared, TotalsTypeOK, BudgetIsKept
<1>3. CASE OverrideStatistics
  <2>1. PICK alpha \in Alphas : config' = Overridden(config, alpha)
    BY <1>3 DEF OverrideStatistics
  <2>2. config' \in Blocks => WithinBudget(config')
    BY <1>1, <2>1 DEF Overridden
  <2>3. BudgetIsKept'
    BY <2>2 DEF BudgetIsKept, WithinBudget, CasesShare, SuiteShare, Half
  <2> QED
    BY <1>0, <1>3, <2>3 DEF OverrideStatistics, Compared, TotalsTypeOK
<1>4. CASE CompareRuns
  <2>1. PICK xs \in Outcomes(totals) : after' = xs /\ report' = Report(totals, xs)
    BY <1>4 DEF CompareRuns
  <2>2. config \in Blocks /\ UNCHANGED <<config, totals>>
    BY <1>4 DEF CompareRuns
  <2>3. Outcomes(totals)' = Outcomes(totals)
    BY <2>2 DEF Outcomes
  <2>4. CasesAlpha' = CasesAlpha /\ SuiteAlpha' = SuiteAlpha
    BY <2>2 DEF CasesAlpha, SuiteAlpha
  <2>5. Report(totals, after)' = Report(totals, after')
    BY <2>2, <2>4 DEF Report, Verdict, Regressed, Improved, SuiteRegressed, SuiteImproved,
                      SuiteSignificant
  <2>6. after' \in Outcomes(totals)' /\ report' = Report(totals, after)'
    BY <2>1, <2>3, <2>5
  <2>7. Compared'
    BY <1>0, <2>2, <2>6 DEF Compared, TotalsTypeOK
  <2>8. BudgetIsKept'
    BY <1>0, <2>2 DEF BudgetIsKept, WithinBudget, CasesShare, SuiteShare, Half
  <2> QED
    BY <2>7, <2>8
<1>5. CASE UNCHANGED vars
  <2>1. BudgetIsKept'
    BY <1>0, <1>5 DEF vars, BudgetIsKept, WithinBudget, CasesShare, SuiteShare, Half
  <2>2. Report(totals, after)' = Report(totals, after)
    BY <1>5 DEF vars, Report, Verdict, Regressed, Improved, SuiteRegressed, SuiteImproved,
                SuiteSignificant, CasesAlpha, SuiteAlpha
  <2>3. Outcomes(totals)' = Outcomes(totals)
    BY <1>5 DEF vars, Outcomes
  <2>4. Compared'
    BY <1>0, <1>5, <2>2, <2>3 DEF vars, Compared, TotalsTypeOK
  <2> QED
    BY <2>1, <2>4
<1> QED
    BY <1>2, <1>3, <1>4, <1>5 DEF Next

\* The inductive invariant: a report is of the settings, which are within budget.
THEOREM ConfigCorrect == Spec => []ConfigInv
BY InitConfig, NextConfig, PTL DEF Spec

\* On every comparison, for any number of cases and attempts: what the step-down
\* (ADR 0014) and the sign-flip test (significance.py) compute is what they are
\* defined to be, ties, thresholds and zero deltas included.
THEOREM TestsCorrect == Spec => []TestsAreExact
<1>1. ConfigInv => TestsAreExact
    BY StepDownHolds, SuiteTestHolds DEF ConfigInv, TestsAreExact
<1> QED
    BY <1>1, ConfigCorrect, PTL

\* When nothing has changed, the verdict is a regression with at most the budget
\* alpha, however a suite split it and a flag overrode it, and the per-case family
\* flags some case with at most its share (schema.py, significance.py,
\* regression.py): for any number of cases, attempts and any budgets, and totals
\* in any order.
THEOREM AlarmsCorrect == Spec => []AlarmsBounded
BY AlarmsHold, ConfigCorrect, PTL

\* The same as TLC checks it: before a report, totals in increasing order.
THEOREM FalseAlarmsCorrect == Spec => []FalseAlarmsBounded
<1>1. AlarmsBounded => FalseAlarmsBounded
    BY DEF AlarmsBounded, FalseAlarmsBounded
<1> QED
    BY <1>1, AlarmsCorrect, PTL
==============================================================================
