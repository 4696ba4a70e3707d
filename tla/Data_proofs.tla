----------------------------- MODULE Data_proofs -----------------------------
(***************************************************************************)
(* What is made of a run's attempts and how it is kept, for every number   *)
(* of outputs, cases, attempts and rows: the findings of a run are the     *)
(* chains of near outputs (FailureClusters), the verdicts of an attempt    *)
(* stand at the steps their judges were about and the pages and the export *)
(* of a run agree with its attempts (RunRecord), and the rows fit every    *)
(* revision of the database's schema (Schema).                             *)
(***************************************************************************)
EXTENDS MCAnalysis, MCSchema, FiniteSetTheorems, SequenceTheorems, WellFoundedInduction, TLAPS

(* Least elements                                                          *)

LEMMA Least ==
    ASSUME NEW T, T \subseteq Nat, T # {}
    PROVE  \E n \in T : \A m \in T : n <= m
<1>1. IsWellFoundedOn(OpToRel(<, Nat), Nat)
    BY NatLessThanWellFounded
<1>2. PICK n \in T : \A m \in T : <<m, n>> \notin OpToRel(<, Nat)
    BY <1>1, WFMin
<1>3. \A m \in T : ~(m < n)
    BY <1>2 DEF OpToRel
<1> QED
    BY <1>3

\* The minimum is the element that none is below.
LEMMA MinIs ==
    ASSUME NEW T, T \subseteq Nat, NEW m \in T, \A x \in T : m <= x
    PROVE  F!Min(T) = m
<1>1. \A y \in T : (\A x \in T : y <= x) => y = m
    OBVIOUS
<1>2. F!Min(T) \in T /\ \A x \in T : F!Min(T) <= x
    BY DEF F!Min
<1> QED
    BY <1>1, <1>2

LEMMA MinOfTwo ==
    ASSUME NEW x \in Nat, NEW y \in Nat
    PROVE  /\ F!Min({x, y}) \in {x, y}
           /\ F!Min({x, y}) <= x /\ F!Min({x, y}) <= y
<1> DEFINE T == {x, y}
<1>1. T \subseteq Nat /\ x \in T /\ y \in T
    OBVIOUS
<1>2. \E m \in T : \A z \in T : m <= z
    OBVIOUS
<1>3. F!Min(T) \in T /\ \A z \in T : F!Min(T) <= z
    BY <1>2 DEF F!Min
<1> QED
    BY <1>1, <1>3

\* A set with exactly one element.
LEMMA OneElement ==
    ASSUME NEW T, NEW c \in T, \A d \in T : d = c
    PROVE  F!Cardinality(T) = 1
<1>1. T = {c}
    OBVIOUS
<1>2. F!Cardinality(T) = Cardinality(T)
    BY DEF F!Cardinality, Cardinality
<1> QED
    BY <1>1, <1>2, FS_Singleton
-----------------------------------------------------------------------------
(* Sequences without their j-th element                                    *)

Old(c, j) == IF c < j THEN c ELSE c + 1

LEMMA Removal ==
    ASSUME NEW S, NEW s \in Seq(S), NEW j \in 1 .. Len(s)
    PROVE  /\ F!RemoveAt(s, j) \in Seq(S)
           /\ Len(F!RemoveAt(s, j)) = Len(s) - 1
           /\ \A c \in 1 .. Len(s) - 1 :
                 /\ F!RemoveAt(s, j)[c] = s[Old(c, j)]
                 /\ Old(c, j) \in (1 .. Len(s)) \ {j}
<1> DEFINE a == SubSeq(s, 1, j - 1)
           b == SubSeq(s, j + 1, Len(s))
<1>1. /\ a \in Seq(S) /\ Len(a) = j - 1
      /\ \A c \in 1 .. j - 1 : a[c] = s[c]
    OBVIOUS
<1>2. /\ b \in Seq(S) /\ Len(b) = Len(s) - j
      /\ \A c \in 1 .. Len(s) - j : b[c] = s[j + c]
    OBVIOUS
<1>3. F!RemoveAt(s, j) = a \o b
    BY DEF F!RemoveAt
<1> HIDE DEF a, b
<1>4. /\ a \o b \in Seq(S)
      /\ Len(a \o b) = Len(s) - 1
  <2>1. a \o b \in Seq(S) /\ Len(a \o b) = Len(a) + Len(b)
    BY <1>1, <1>2, ConcatProperties
  <2> QED
    BY <2>1, <1>1, <1>2
<1>0. Len(s) \in Nat /\ j \in Nat
    OBVIOUS
<1>5. ASSUME NEW c \in 1 .. Len(s) - 1
      PROVE  (a \o b)[c] = s[Old(c, j)] /\ Old(c, j) \in (1 .. Len(s)) \ {j}
  <2>0. /\ \A i \in 1 .. Len(a) + Len(b) :
               (a \o b)[i] = IF i <= Len(a) THEN a[i] ELSE b[i - Len(a)]
        /\ Len(s) \in Nat
    BY <1>1, <1>2, ConcatProperties
  <2>1. CASE c < j
    BY <1>1, <1>2, <2>0, <2>1 DEF Old
  <2>2. CASE c >= j
    <3>1. (a \o b)[c] = b[c - (j - 1)]
        BY <1>1, <1>2, <2>0, <2>2
    <3>2. b[c - (j - 1)] = s[j + (c - (j - 1))] /\ j + (c - (j - 1)) = c + 1
        BY <1>2, <2>2
    <3> QED
        BY <2>0, <2>2, <3>1, <3>2 DEF Old
  <2>3. c < j \/ c >= j
    BY <1>0
  <2> QED
    BY <2>1, <2>2, <2>3
<1> QED
    BY <1>3, <1>4, <1>5

LEMMA IsSequence ==
    ASSUME NEW S, NEW n \in Nat, NEW f \in [1 .. n -> S]
    PROVE  f \in Seq(S) /\ Len(f) = n
    OBVIOUS

LEMMA ToSetConcat ==
    ASSUME NEW S, NEW s \in Seq(S), NEW t \in Seq(S)
    PROVE  F!ToSet(s \o t) = F!ToSet(s) \cup F!ToSet(t)
<1>1. /\ DOMAIN s = 1 .. Len(s) /\ DOMAIN t = 1 .. Len(t)
      /\ Len(s) \in Nat /\ Len(t) \in Nat
    OBVIOUS
<1>2. /\ s \o t \in Seq(S)
      /\ Len(s \o t) = Len(s) + Len(t)
      /\ \A i \in 1 .. Len(s) + Len(t) :
            (s \o t)[i] = IF i <= Len(s) THEN s[i] ELSE t[i - Len(s)]
    BY ConcatProperties
<1> DEFINE u == s \o t
<1>3. DOMAIN u = 1 .. Len(s) + Len(t)
    BY <1>2
<1> HIDE DEF u
<1>4. ASSUME NEW i \in DOMAIN s PROVE i \in DOMAIN u /\ u[i] = s[i]
    BY <1>1, <1>2, <1>3 DEF u
<1>5. ASSUME NEW i \in DOMAIN t PROVE i + Len(s) \in DOMAIN u /\ u[i + Len(s)] = t[i]
  <2>1. i \in Nat /\ ~(i + Len(s) <= Len(s)) /\ (i + Len(s)) - Len(s) = i
    BY <1>1
  <2> QED
    BY <1>1, <1>2, <1>3, <2>1 DEF u
<1>6. ASSUME NEW i \in DOMAIN u PROVE u[i] \in F!ToSet(s) \cup F!ToSet(t)
  <2>1. CASE i <= Len(s)
    BY <1>1, <1>2, <1>3, <2>1 DEF u, F!ToSet
  <2>2. CASE ~(i <= Len(s))
    <3>1. u[i] = t[i - Len(s)] /\ i - Len(s) \in DOMAIN t
        BY <1>1, <1>2, <1>3, <2>2 DEF u
    <3> QED
        BY <3>1 DEF F!ToSet
  <2> QED
    BY <2>1, <2>2
<1>7. F!ToSet(u) = F!ToSet(s) \cup F!ToSet(t)
    BY <1>4, <1>5, <1>6 DEF F!ToSet
<1> QED
    BY <1>7 DEF u

LEMMA OldIsOneToOne ==
    ASSUME NEW n \in Nat, NEW j \in 1 .. n
    PROVE  /\ \A c, d \in 1 .. n - 1 : Old(c, j) = Old(d, j) => c = d
           /\ \A e \in (1 .. n) \ {j} : \E c \in 1 .. n - 1 : Old(c, j) = e
<1>1. \A c, d \in 1 .. n - 1 : Old(c, j) = Old(d, j) => c = d
    BY DEF Old
<1>2. ASSUME NEW e \in (1 .. n) \ {j} PROVE \E c \in 1 .. n - 1 : Old(c, j) = e
  <2>1. CASE e < j
    BY <2>1, Old(e, j) = e DEF Old
  <2>2. CASE e > j
    BY <2>2, Old(e - 1, j) = e DEF Old
  <2> QED
    BY <2>1, <2>2
<1> QED
    BY <1>1, <1>2
-----------------------------------------------------------------------------
(* Failure clustering (FailureClusters)                                    *)

Members(c) == F!ToSet(clusters[c])

ClustersTypeOK ==
    /\ \E n \in Nat : distance \in [1 .. n -> [1 .. n -> Nat]]
    /\ clusters \in Seq(Seq(F!All))
    /\ gap \in [1 .. Len(clusters) -> [1 .. Len(clusters) -> Nat]]

Symmetric == \A a, b \in F!All : distance[a][b] = distance[b][a]

\* Every output is in a cluster, and in no second one.
Partition ==
    /\ \A o \in F!All : \E c \in 1 .. Len(clusters) : o \in Members(c)
    /\ \A c, d \in 1 .. Len(clusters) : \A o \in Members(c) : o \in Members(d) => c = d
    /\ \A c \in 1 .. Len(clusters) : Members(c) # {}

\* g is the smallest distance of a member of one set and one of the other.
IsGap(g, A, B) ==
    /\ \E a \in A, b \in B : g = distance[a][b]
    /\ \A a \in A, b \in B : g <= distance[a][b]

GapsAreMinimal ==
    \A c, d \in 1 .. Len(clusters) : c # d => IsGap(gap[c][d], Members(c), Members(d))

\* No closed set parts a cluster.
Chained ==
    \A c \in 1 .. Len(clusters) : \A S \in SUBSET F!All :
        F!Closed(S) /\ (\E a \in Members(c) : a \in S) => Members(c) \subseteq S

FoundAreChains == findings # F!Unknown => findings = {F!Reached(o) : o \in F!All}

ClustersInv ==
    ClustersTypeOK /\ Symmetric /\ Partition /\ GapsAreMinimal /\ Chained /\ FoundAreChains

\* Two sets joined are as near to a third as the nearer of them.
LEMMA NearerGap ==
    ASSUME NEW A, NEW B, NEW D, NEW x \in Nat, NEW y \in Nat, NEW g \in {x, y},
           g <= x, g <= y, IsGap(x, A, D), IsGap(y, B, D),
           \A a \in A \cup B, b \in D : distance[a][b] \in Nat
    PROVE  IsGap(g, A \cup B, D)
<1>1. \E a \in A \cup B, b \in D : g = distance[a][b]
    BY DEF IsGap
<1>2. ASSUME NEW a \in A \cup B, NEW b \in D PROVE g <= distance[a][b]
  <2>1. (x <= distance[a][b] \/ y <= distance[a][b]) /\ distance[a][b] \in Nat
    BY DEF IsGap
  <2> QED
    BY <2>1
<1> QED
    BY <1>1, <1>2 DEF IsGap

\* A run starts with every output in a cluster of its own.
LEMMA ClustersInit == F!Init => ClustersInv
<1> SUFFICES ASSUME F!Init PROVE ClustersInv
    OBVIOUS
<1>1. PICK n \in 0 .. NumOutputs : 
        /\ distance \in {F!Matrix(d, n) : d \in [F!Pairs(n) -> Distances]}
        /\ clusters = [i \in 1 .. n |-> <<i>>]
        /\ gap = distance
        /\ findings = F!Unknown
    BY DEF F!Init
<1>2. PICK d \in [F!Pairs(n) -> Distances] : distance = F!Matrix(d, n)
    BY <1>1
<1>3. n \in Nat
    BY AnalysisParameters
<1>4. F!All = 1 .. n
    BY <1>2 DEF F!All, F!Matrix
<1>5. \A i, k \in 1 .. n : i < k => d[<<i, k>>] \in Nat
  <2> TAKE i, k \in 1 .. n
  <2> HAVE i < k
  <2>1. <<i, k>> \in F!Pairs(n)
    BY DEF F!Pairs
  <2> QED
    BY <2>1, AnalysisParameters
<1>6. \A i, k \in 1 .. n :
        distance[i][k] = IF i = k THEN 0 ELSE IF i < k THEN d[<<i, k>>] ELSE d[<<k, i>>]
    BY <1>2 DEF F!Matrix
<1>7. \A i, k \in 1 .. n : distance[i][k] \in Nat /\ distance[i][k] = distance[k][i]
  <2> TAKE i, k \in 1 .. n
  <2> DEFINE x == d[<<i, k>>]
             y == d[<<k, i>>]
  <2>1. /\ distance[i][k] = IF i = k THEN 0 ELSE IF i < k THEN x ELSE y
        /\ distance[k][i] = IF k = i THEN 0 ELSE IF k < i THEN y ELSE x
    BY <1>6
  <2>2. (i < k => x \in Nat) /\ (k < i => y \in Nat)
    BY <1>5
  <2> HIDE DEF x, y
  <2>3. i = k \/ i < k \/ k < i
    BY <1>3
  <2> QED
    BY <1>3, <2>1, <2>2, <2>3
<1>8. distance \in [1 .. n -> [1 .. n -> Nat]]
  <2>1. distance = [i \in 1 .. n |-> [k \in 1 .. n |-> distance[i][k]]]
    BY <1>2 DEF F!Matrix
  <2> QED
    BY <1>7, <2>1
<1>9. /\ clusters \in Seq(Seq(1 .. n)) /\ Len(clusters) = n
      /\ \A c \in 1 .. n : Members(c) = {c}
  <2>1. \A c \in 1 .. n : clusters[c] = <<c>>
    BY <1>1
  <2>2. clusters \in Seq(Seq(1 .. n)) /\ Len(clusters) = n
    BY <1>1, <1>3
  <2>3. \A c \in 1 .. n : F!ToSet(<<c>>) = {c}
    BY DEF F!ToSet
  <2> QED
    BY <2>1, <2>2, <2>3 DEF Members
<1>10. ClustersTypeOK
    BY <1>1, <1>3, <1>4, <1>8, <1>9 DEF ClustersTypeOK
<1>11. Symmetric
    BY <1>4, <1>7 DEF Symmetric
<1>12. Partition
  <2>1. \A o \in 1 .. n : o \in Members(o)
    BY <1>9
  <2>2. \A c, e \in 1 .. n : \A o \in Members(c) : o \in Members(e) => c = e
    <3> TAKE c, e \in 1 .. n
    <3>1. Members(c) = {c} /\ Members(e) = {e}
        BY <1>9
    <3> QED
        BY <3>1
  <2>3. \A c \in 1 .. n : Members(c) # {}
    BY <1>9
  <2> QED
    BY <1>4, <1>9, <2>1, <2>2, <2>3 DEF Partition
<1>13. GapsAreMinimal
  <2> SUFFICES ASSUME NEW c \in 1 .. n, NEW e \in 1 .. n
               PROVE  IsGap(gap[c][e], Members(c), Members(e))
    BY <1>9 DEF GapsAreMinimal
  <2>1. Members(c) = {c} /\ Members(e) = {e}
    BY <1>9
  <2>2. gap[c][e] = distance[c][e] /\ distance[c][e] \in Nat
    BY <1>1, <1>7
  <2> QED
    BY <2>1, <2>2 DEF IsGap
<1>14. Chained
    BY <1>9 DEF Chained
<1>15. FoundAreChains
    BY <1>1 DEF FoundAreChains
<1> QED
    BY <1>10, <1>11, <1>12, <1>13, <1>14, <1>15 DEF ClustersInv

\* As long as there are two clusters there is a nearest pair.
LEMMA NearestIsAPair ==
    ASSUME ClustersTypeOK, Len(clusters) > 1
    PROVE  /\ F!Nearest \in F!Pairs(Len(clusters))
           /\ \A q \in F!Pairs(Len(clusters)) :
                 gap[F!Nearest[1]][F!Nearest[2]] <= gap[q[1]][q[2]]
<1> DEFINE n == Len(clusters)
           P == F!Pairs(n)
           G(p) == gap[p[1]][p[2]]
<1>1. n \in Nat /\ <<1, 2>> \in P
    BY DEF ClustersTypeOK, F!Pairs
<1>2. \A p \in P : G(p) \in Nat /\ p[1] \in Nat /\ p[2] \in Nat
    BY DEF ClustersTypeOK, F!Pairs
<1> HIDE DEF G, P
<1>3. PICK g \in {G(p) : p \in P} : \A x \in {G(p) : p \in P} : g <= x
  <2>1. {G(p) : p \in P} \subseteq Nat /\ {G(p) : p \in P} # {}
    BY <1>1, <1>2
  <2> QED
    BY <2>1, Least
<1> DEFINE P1 == {p \in P : G(p) = g}
<1>4. PICK a \in {p[1] : p \in P1} : \A x \in {p[1] : p \in P1} : a <= x
  <2>1. {p[1] : p \in P1} \subseteq Nat /\ {p[1] : p \in P1} # {}
    BY <1>2, <1>3
  <2> QED
    BY <2>1, Least
<1> DEFINE P2 == {p \in P1 : p[1] = a}
<1>5. PICK b \in {p[2] : p \in P2} : \A x \in {p[2] : p \in P2} : b <= x
  <2>1. {p[2] : p \in P2} \subseteq Nat /\ {p[2] : p \in P2} # {}
    BY <1>2, <1>4
  <2> QED
    BY <2>1, Least
<1>6. PICK p \in P2 : p[2] = b
    BY <1>5
<1>7. p \in P /\ G(p) = g /\ p[1] = a
    BY <1>6
<1>8. \A q \in P :
        \/ G(p) < G(q)
        \/ G(p) = G(q) /\ (p[1] < q[1] \/ (p[1] = q[1] /\ p[2] <= q[2]))
  <2> TAKE q \in P
  <2>1. g <= G(q) /\ g \in Nat /\ G(q) \in Nat
    BY <1>2, <1>3
  <2>2. CASE G(q) = g
    <3>1. a <= q[1] /\ a \in Nat /\ q[1] \in Nat
        BY <1>2, <1>4, <2>2
    <3>2. q[1] = a => b <= q[2]
        BY <1>5, <2>2
    <3> QED
        BY <1>6, <1>7, <2>2, <3>1, <3>2
  <2> QED
    BY <1>7, <2>1, <2>2
<1>9. /\ F!Nearest \in P
      /\ \A q \in P :
        \/ G(F!Nearest) < G(q)
        \/ G(F!Nearest) = G(q)
            /\ (F!Nearest[1] < q[1] \/ (F!Nearest[1] = q[1] /\ F!Nearest[2] <= q[2]))
    BY <1>7, <1>8 DEF F!Nearest, P, G
<1>10. \A q \in P : G(F!Nearest) <= G(q)
    BY <1>2, <1>9
<1> QED
    BY <1>9, <1>10 DEF P, G

\* A merge keeps the matrix of the gaps: its rows and columns are those of
\* the remaining clusters, and the joined one is as near as the nearer of two.
Joins(i, j) ==
    /\ i < j /\ gap[i][j] <= Threshold
    /\ ClustersTypeOK'
    /\ Len(clusters') = Len(clusters) - 1
    /\ \A c \in 1 .. Len(clusters) - 1 :
          Members(c)' = IF c = i THEN Members(i) \cup Members(j)
                        ELSE Members(Old(c, j))
    /\ \A c, d \in 1 .. Len(clusters) - 1 : c # d =>
          LET x == Old(c, j)
              y == Old(d, j)
          IN  /\ c = i => /\ gap'[c][d] \in {gap[i][y], gap[j][y]}
                          /\ gap'[c][d] <= gap[i][y] /\ gap'[c][d] <= gap[j][y]
              /\ d = i => /\ gap'[c][d] \in {gap[i][x], gap[j][x]}
                          /\ gap'[c][d] <= gap[i][x] /\ gap'[c][d] <= gap[j][x]
              /\ c # i /\ d # i => gap'[c][d] = gap[x][y]

LEMMA MergeEffect ==
    ASSUME ClustersTypeOK, F!Merge
    PROVE  \E i, j \in 1 .. Len(clusters) : Joins(i, j)
<1> DEFINE n == Len(clusters)
           i == F!Nearest[1]
           j == F!Nearest[2]
           joined == [clusters EXCEPT ![i] = @ \o clusters[j]]
           wide == F!Joined(i, j)
<1>1. /\ i \in 1 .. n /\ j \in 1 .. n /\ i < j
      /\ n \in Nat /\ Len(clusters) > 1
  <2>1. Len(clusters) > 1 /\ n \in Nat
    BY DEF F!Merge, ClustersTypeOK
  <2>2. F!Nearest \in F!Pairs(n)
    BY <2>1, NearestIsAPair
  <2> QED
    BY <2>1, <2>2 DEF F!Pairs
<1>2. /\ gap[i][j] <= Threshold
      /\ clusters' = F!RemoveAt(joined, j)
      /\ gap' = F!Without(wide, j)
      /\ distance' = distance
    BY DEF F!Merge
<1> HIDE DEF i, j, wide
<1>3. /\ clusters \in Seq(Seq(F!All))
      /\ gap \in [1 .. n -> [1 .. n -> Nat]]
      /\ clusters[i] \in Seq(F!All) /\ clusters[j] \in Seq(F!All)
    BY <1>1 DEF ClustersTypeOK
<1>4. /\ joined \in Seq(Seq(F!All)) /\ Len(joined) = n
      /\ joined[i] = clusters[i] \o clusters[j]
      /\ \A c \in 1 .. n : c # i => joined[c] = clusters[c]
  <2>1. clusters[i] \o clusters[j] \in Seq(F!All)
    BY <1>3, ConcatProperties
  <2> DEFINE both == clusters[i] \o clusters[j]
  <2> HIDE DEF both
  <2>2. clusters \in [1 .. n -> Seq(F!All)]
    BY <1>3
  <2>3. /\ joined = [clusters EXCEPT ![i] = both]
        /\ both \in Seq(F!All)
    BY <1>1, <2>1, <2>2 DEF both
  <2> HIDE DEF joined
  <2>4. joined \in [1 .. n -> Seq(F!All)]
    BY <2>2, <2>3
  <2>5. joined \in Seq(Seq(F!All)) /\ Len(joined) = n
    BY <1>1, <2>4, IsSequence
  <2>6. joined[i] = both /\ \A c \in 1 .. n : c # i => joined[c] = clusters[c]
    BY <1>1, <2>2, <2>3
  <2> QED
    BY <2>5, <2>6 DEF both
<1> HIDE DEF joined
<1>5. /\ clusters' \in Seq(Seq(F!All)) /\ Len(clusters') = n - 1
      /\ \A c \in 1 .. n - 1 : clusters'[c] = joined[Old(c, j)]
      /\ \A c \in 1 .. n - 1 : Old(c, j) \in (1 .. n) \ {j}
  <2>1. j \in 1 .. Len(joined)
    BY <1>1, <1>4
  <2>2. clusters' = F!RemoveAt(joined, j)
    BY <1>2
  <2> DEFINE r == F!RemoveAt(joined, j)
  <2>3. /\ r \in Seq(Seq(F!All)) /\ Len(r) = Len(joined) - 1
        /\ \A c \in 1 .. Len(joined) - 1 : r[c] = joined[Old(c, j)]
        /\ \A c \in 1 .. Len(joined) - 1 : Old(c, j) \in (1 .. Len(joined)) \ {j}
    <3> DEFINE Q == Seq(F!All)
    <3>1. joined \in Seq(Q)
        BY <1>4
    <3> HIDE DEF Q
    <3>2. r \in Seq(Q) /\ Len(r) = Len(joined) - 1
        BY <2>1, <3>1, Removal
    <3>3. \A c \in 1 .. Len(joined) - 1 :
             r[c] = joined[Old(c, j)] /\ Old(c, j) \in (1 .. Len(joined)) \ {j}
        BY <2>1, <3>1, Removal
    <3> QED
        BY <3>2, <3>3 DEF Q
  <2> HIDE DEF r
  <2>4. clusters' = r
    BY <2>2 DEF r
  <2> QED
    BY <1>4, <2>3, <2>4
<1>6. \A c \in 1 .. n - 1 : Old(c, j) = i <=> c = i
    BY <1>1 DEF Old
<1>7. ASSUME NEW c \in 1 .. n - 1
      PROVE  Members(c)' = IF c = i THEN Members(i) \cup Members(j) ELSE Members(Old(c, j))
  <2>1. CASE c = i
    <3>1. clusters'[c] = clusters[i] \o clusters[j]
        BY <1>4, <1>5, <1>6, <2>1
    <3>2. F!ToSet(clusters[i] \o clusters[j]) = F!ToSet(clusters[i]) \cup F!ToSet(clusters[j])
        BY <1>3, ToSetConcat
    <3> QED
        BY <2>1, <3>1, <3>2 DEF Members
  <2>2. CASE c # i
    <3>1. clusters'[c] = clusters[Old(c, j)]
        BY <1>4, <1>5, <1>6, <2>2
    <3> QED
        BY <2>2, <3>1 DEF Members
  <2> QED
    BY <2>1, <2>2
<1>8. /\ wide \in [1 .. n -> [1 .. n -> Nat]]
      /\ \A k \in 1 .. n : /\ wide[i][k] \in {gap[i][k], gap[j][k]}
                           /\ wide[i][k] <= gap[i][k] /\ wide[i][k] <= gap[j][k]
      /\ \A k \in 1 .. n : k # i => wide[k][i] = wide[i][k]
      /\ \A k, l \in 1 .. n : k # i /\ l # i => wide[k][l] = gap[k][l]
  <2> DEFINE Closer(k) == F!Min({gap[i][k], gap[j][k]})
  <2>1. \A k \in 1 .. n : /\ Closer(k) \in {gap[i][k], gap[j][k]} /\ Closer(k) \in Nat
                          /\ Closer(k) <= gap[i][k] /\ Closer(k) <= gap[j][k]
    <3> TAKE k \in 1 .. n
    <3>1. gap[i][k] \in Nat /\ gap[j][k] \in Nat
        BY <1>1, <1>3
    <3> QED
        BY <3>1, MinOfTwo
  <2>2. wide = [a \in 1 .. n |-> [b \in 1 .. n |->
                  IF a = i THEN Closer(b) ELSE IF b = i THEN Closer(a) ELSE gap[a][b]]]
    BY <1>3 DEF F!Joined, wide
  <2> HIDE DEF Closer
  <2>3. wide \in [1 .. n -> [1 .. n -> Nat]]
    BY <1>3, <2>1, <2>2
  <2>4. \A a, b \in 1 .. n :
            wide[a][b] = IF a = i THEN Closer(b) ELSE IF b = i THEN Closer(a) ELSE gap[a][b]
    BY <2>2
  <2> QED
    BY <1>1, <2>1, <2>3, <2>4
<1> DEFINE fewer == F!RemoveAt(wide, j)
<1>9. /\ fewer \in Seq([1 .. n -> Nat]) /\ Len(fewer) = n - 1
      /\ \A c \in 1 .. n - 1 : fewer[c] = wide[Old(c, j)] /\ fewer[c] \in Seq(Nat) /\ Len(fewer[c]) = n
  <2>1. wide \in Seq([1 .. n -> Nat]) /\ Len(wide) = n
    BY <1>1, <1>8, IsSequence
  <2>2. /\ fewer \in Seq([1 .. n -> Nat]) /\ Len(fewer) = n - 1
        /\ \A c \in 1 .. n - 1 : fewer[c] = wide[Old(c, j)]
    BY <1>1, <2>1, Removal
  <2> HIDE DEF fewer
  <2>3. \A c \in 1 .. n - 1 : fewer[c] \in [1 .. n -> Nat]
    BY <1>1, <2>2
  <2>4. \A f \in [1 .. n -> Nat] : f \in Seq(Nat) /\ Len(f) = n
    BY <1>1
  <2> QED
    BY <2>2, <2>3, <2>4
<1>10. gap' = [c \in 1 .. n - 1 |-> F!RemoveAt(fewer[c], j)]
  <2>1. DOMAIN fewer = 1 .. n - 1
    BY <1>1, <1>9
  <2> QED
    BY <1>2, <2>1 DEF F!Without
<1> HIDE DEF fewer
<1>11. ASSUME NEW c \in 1 .. n - 1
       PROVE  /\ gap'[c] \in [1 .. n - 1 -> Nat]
              /\ \A d \in 1 .. n - 1 : gap'[c][d] = wide[Old(c, j)][Old(d, j)]
  <2>1. gap'[c] = F!RemoveAt(fewer[c], j)
    BY <1>10
  <2>2. /\ gap'[c] \in Seq(Nat) /\ Len(gap'[c]) = n - 1
        /\ \A d \in 1 .. n - 1 : gap'[c][d] = fewer[c][Old(d, j)]
    <3> DEFINE row == fewer[c]
    <3>1. row \in Seq(Nat) /\ Len(row) = n /\ j \in 1 .. Len(row)
        BY <1>1, <1>9
    <3>2. gap'[c] = F!RemoveAt(row, j)
        BY <2>1
    <3> HIDE DEF row
    <3>3. /\ gap'[c] \in Seq(Nat) /\ Len(gap'[c]) = n - 1
          /\ \A d \in 1 .. n - 1 : gap'[c][d] = row[Old(d, j)]
      <4> DEFINE r == F!RemoveAt(row, j)
      <4>1. /\ r \in Seq(Nat) /\ Len(r) = Len(row) - 1
            /\ \A d \in 1 .. Len(row) - 1 : r[d] = row[Old(d, j)]
        BY <3>1, Removal
      <4> HIDE DEF r
      <4>2. gap'[c] = r
        BY <3>2 DEF r
      <4> QED
        BY <3>1, <4>1, <4>2
    <3> QED
        BY <3>3 DEF row
  <2>3. gap'[c] \in [1 .. n - 1 -> Nat]
    BY <2>2
  <2> QED
    BY <1>9, <2>2, <2>3
<1>12. gap' \in [1 .. n - 1 -> [1 .. n - 1 -> Nat]]
    BY <1>10, <1>11
<1>13. ClustersTypeOK'
    BY <1>2, <1>5, <1>12 DEF ClustersTypeOK, F!All
<1>14. ASSUME NEW c \in 1 .. n - 1, NEW d \in 1 .. n - 1, c # d
       PROVE  LET x == Old(c, j)
                  y == Old(d, j)
              IN  /\ c = i => /\ gap'[c][d] \in {gap[i][y], gap[j][y]}
                              /\ gap'[c][d] <= gap[i][y] /\ gap'[c][d] <= gap[j][y]
                  /\ d = i => /\ gap'[c][d] \in {gap[i][x], gap[j][x]}
                              /\ gap'[c][d] <= gap[i][x] /\ gap'[c][d] <= gap[j][x]
                  /\ c # i /\ d # i => gap'[c][d] = gap[x][y]
  <2> DEFINE x == Old(c, j)
             y == Old(d, j)
  <2>1. x \in 1 .. n /\ y \in 1 .. n /\ (x = i <=> c = i) /\ (y = i <=> d = i)
    BY <1>5, <1>6
  <2>2. gap'[c][d] = wide[x][y]
    BY <1>11
  <2> HIDE DEF x, y
  <2>3. /\ c = i => /\ gap'[c][d] \in {gap[i][y], gap[j][y]}
                    /\ gap'[c][d] <= gap[i][y] /\ gap'[c][d] <= gap[j][y]
        /\ c # i /\ d # i => gap'[c][d] = gap[x][y]
    BY <1>8, <2>1, <2>2
  <2>4. d = i => /\ gap'[c][d] \in {gap[i][x], gap[j][x]}
                 /\ gap'[c][d] <= gap[i][x] /\ gap'[c][d] <= gap[j][x]
    BY <1>8, <1>14, <2>1, <2>2
  <2> QED
    BY <2>3, <2>4 DEF x, y
<1> QED
  <2>1. Joins(i, j)
    BY <1>1, <1>2, <1>5, <1>7, <1>13, <1>14 DEF Joins
  <2> QED
    BY <1>1, <2>1

LEMMA MergeKeeps == ClustersInv /\ F!Merge => ClustersInv'
<1> SUFFICES ASSUME ClustersInv, F!Merge PROVE ClustersInv'
    OBVIOUS
<1> DEFINE n == Len(clusters)
<1>0. PICK i, j \in 1 .. n : Joins(i, j)
    BY MergeEffect DEF ClustersInv
<1>1. /\ i < j /\ gap[i][j] <= Threshold
      /\ ClustersTypeOK'
      /\ Len(clusters') = n - 1
      /\ \A c \in 1 .. n - 1 :
            Members(c)' = IF c = i THEN Members(i) \cup Members(j)
                          ELSE Members(Old(c, j))
      /\ \A c, d \in 1 .. n - 1 : c # d =>
            LET x == Old(c, j)
                y == Old(d, j)
            IN  /\ c = i => /\ gap'[c][d] \in {gap[i][y], gap[j][y]}
                            /\ gap'[c][d] <= gap[i][y] /\ gap'[c][d] <= gap[j][y]
                /\ d = i => /\ gap'[c][d] \in {gap[i][x], gap[j][x]}
                            /\ gap'[c][d] <= gap[i][x] /\ gap'[c][d] <= gap[j][x]
                /\ c # i /\ d # i => gap'[c][d] = gap[x][y]
    BY <1>0, Zenon DEF Joins
<1>2. n \in Nat /\ i \in 1 .. n /\ j \in 1 .. n /\ i \in 1 .. n - 1
  <2>1. n \in Nat
    BY DEF ClustersInv, ClustersTypeOK
  <2>2. i < j
    BY <1>1, Zenon
  <2> HIDE DEF n
  <2> QED
    BY <2>1, <2>2
<1>3. /\ distance' = distance /\ findings' = findings /\ F!All' = F!All
      /\ \A S : F!Closed(S)' = F!Closed(S)
    BY DEF F!Merge, F!All, F!Closed
<1> DEFINE M(c) == Members(c)
           New(c) == IF c = i THEN M(i) \cup M(j) ELSE M(Old(c, j))
<1>4. /\ Partition /\ GapsAreMinimal /\ Chained /\ Symmetric /\ FoundAreChains
      /\ \A c \in 1 .. n - 1 : Members(c)' = New(c)
    BY <1>1 DEF ClustersInv
<1>5. /\ \A c \in 1 .. n - 1 : Old(c, j) \in (1 .. n) \ {j} /\ (Old(c, j) = i <=> c = i)
      /\ \A c, d \in 1 .. n - 1 : Old(c, j) = Old(d, j) => c = d
      /\ \A e \in (1 .. n) \ {j} : \E c \in 1 .. n - 1 : Old(c, j) = e
  <2>1. \A c \in 1 .. n - 1 : Old(c, j) \in (1 .. n) \ {j} /\ (Old(c, j) = i <=> c = i)
    BY <1>1, <1>2 DEF Old
  <2> QED
    BY <1>2, <2>1, OldIsOneToOne
<1>6. \A c \in 1 .. n : M(c) \subseteq F!All
  <2> SUFFICES ASSUME NEW c \in 1 .. n PROVE M(c) \subseteq F!All
    OBVIOUS
  <2>1. clusters[c] \in Seq(F!All)
    BY DEF ClustersInv, ClustersTypeOK
  <2>2. \A k \in DOMAIN clusters[c] : clusters[c][k] \in F!All
    BY <2>1
  <2> QED
    BY <2>2 DEF Members, F!ToSet
<1>7. Symmetric'
    BY <1>3, <1>4 DEF Symmetric
<1>8. Partition'
  <2>1. \A o \in F!All : \E c \in 1 .. n - 1 : o \in New(c)
    <3> TAKE o \in F!All
    <3>1. PICK e \in 1 .. n : o \in M(e)
        BY <1>4 DEF Partition
    <3>2. CASE e = j
        BY <1>2, <3>1, <3>2
    <3>3. CASE e # j
        <4>1. PICK c \in 1 .. n - 1 : Old(c, j) = e
            BY <1>5, <3>3
        <4> QED
            BY <1>5, <3>1, <4>1
    <3> QED
        BY <3>2, <3>3
  <2>2. ASSUME NEW c \in 1 .. n - 1, NEW d \in 1 .. n - 1, NEW o \in New(c), o \in New(d)
        PROVE  c = d
    <3>1. PICK x \in 1 .. n : o \in M(x) /\ (x = Old(c, j) \/ (c = i /\ x = j))
        BY <1>2, <1>5
    <3>2. PICK y \in 1 .. n : o \in M(y) /\ (y = Old(d, j) \/ (d = i /\ y = j))
        BY <1>2, <1>5, <2>2
    <3>3. x = y
        BY <1>4, <3>1, <3>2 DEF Partition
    <3> QED
        BY <1>5, <3>1, <3>2, <3>3
  <2>3. \A c \in 1 .. n - 1 : New(c) # {}
    BY <1>2, <1>4, <1>5 DEF Partition
  <2> HIDE DEF New, M
  <2>4. Len(clusters)' = n - 1 /\ F!All' = F!All
    BY <1>1, <1>3
  <2>5. \A o \in F!All : \E c \in 1 .. n - 1 : o \in Members(c)'
    BY <1>4, <2>1
  <2>6. \A c, d \in 1 .. n - 1 : \A o \in Members(c)' : o \in Members(d)' => c = d
    <3> SUFFICES ASSUME NEW c \in 1 .. n - 1, NEW d \in 1 .. n - 1, NEW o \in Members(c)',
                        o \in Members(d)'
                 PROVE  c = d
        OBVIOUS
    <3>1. o \in New(c) /\ o \in New(d)
        BY <1>4
    <3> QED
        BY <2>2, <3>1
  <2>7. \A c \in 1 .. n - 1 : Members(c)' # {}
    BY <1>4, <2>3
  <2> QED
    BY <2>4, <2>5, <2>6, <2>7 DEF Partition
<1>9. GapsAreMinimal'
  <2> SUFFICES ASSUME NEW c \in 1 .. n - 1, NEW d \in 1 .. n - 1, c # d
               PROVE  IsGap(gap'[c][d], New(c), New(d))
    <3>1. Len(clusters)' = n - 1
        BY <1>1
    <3>2. \A c, d \in 1 .. n - 1 : c # d =>
             IsGap(gap[c][d], Members(c), Members(d))'
        <4> SUFFICES ASSUME NEW c \in 1 .. n - 1, NEW d \in 1 .. n - 1, c # d
                     PROVE  IsGap(gap[c][d], Members(c), Members(d))'
            OBVIOUS
        <4>1. Members(c)' = New(c) /\ Members(d)' = New(d)
            BY <1>4
        <4>2. IsGap(gap'[c][d], New(c), New(d))
            OBVIOUS
        <4> HIDE DEF New
        <4> QED
            BY <1>3, <4>1, <4>2 DEF IsGap
    <3> QED
        BY <3>1, <3>2 DEF GapsAreMinimal
  <2> DEFINE x == Old(c, j)
             y == Old(d, j)
  <2>1. /\ x \in 1 .. n /\ y \in 1 .. n /\ x # y /\ x # j /\ y # j
        /\ (x = i <=> c = i) /\ (y = i <=> d = i)
    BY <1>5
  <2>2. \A e, f \in 1 .. n : e # f => IsGap(gap[e][f], M(e), M(f)) /\ gap[e][f] \in Nat
    BY <1>4 DEF GapsAreMinimal, ClustersInv, ClustersTypeOK
  <2>3. \A e, f \in 1 .. n : \A a \in M(e), b \in M(f) : distance[a][b] \in Nat
    <3>1. PICK m \in Nat : distance \in [1 .. m -> [1 .. m -> Nat]]
        BY DEF ClustersInv, ClustersTypeOK
    <3>2. F!All = 1 .. m
        BY <3>1 DEF F!All
    <3> QED
        BY <1>6, <3>1, <3>2
  <2>4. CASE c = i
    <3>1. New(c) = M(i) \cup M(j) /\ New(d) = M(y) /\ y # i
        BY <2>1, <2>4
    <3>2. /\ gap'[c][d] \in {gap[i][y], gap[j][y]}
          /\ gap'[c][d] <= gap[i][y] /\ gap'[c][d] <= gap[j][y]
        BY <1>1, <2>4
    <3>3. IsGap(gap[i][y], M(i), M(y)) /\ IsGap(gap[j][y], M(j), M(y))
        BY <1>2, <2>1, <2>2, <3>1
    <3>4. /\ gap[i][y] \in Nat /\ gap[j][y] \in Nat
          /\ \A a \in M(i) \cup M(j), b \in M(y) : distance[a][b] \in Nat
        BY <1>2, <2>1, <2>2, <2>3, <3>1
    <3> HIDE DEF M, New, x, y
    <3>5. IsGap(gap'[c][d], M(i) \cup M(j), M(y))
      <4> DEFINE g == gap'[c][d]
                 u == gap[i][y]
                 v == gap[j][y]
                 A == M(i)
                 B == M(j)
                 D == M(y)
      <4>1. u \in Nat /\ v \in Nat /\ g \in {u, v} /\ g <= u /\ g <= v
            /\ IsGap(u, A, D) /\ IsGap(v, B, D)
            /\ \A a \in A \cup B, b \in D : distance[a][b] \in Nat
        BY <3>2, <3>3, <3>4
      <4> HIDE DEF g, u, v, A, B, D
      <4>2. IsGap(g, A \cup B, D)
        BY <4>1, NearerGap
      <4> QED
        BY <4>2 DEF g, A, B, D
    <3> QED
        BY <3>1, <3>5
  <2>5. CASE d = i
    <3>1. New(d) = M(i) \cup M(j) /\ New(c) = M(x) /\ x # i
        BY <2>1, <2>5
    <3>2. /\ gap'[c][d] \in {gap[i][x], gap[j][x]}
          /\ gap'[c][d] <= gap[i][x] /\ gap'[c][d] <= gap[j][x]
        BY <1>1, <2>5
    <3>3. IsGap(gap[i][x], M(i), M(x)) /\ IsGap(gap[j][x], M(j), M(x))
        BY <1>2, <2>1, <2>2, <3>1
    <3>4. /\ gap[i][x] \in Nat /\ gap[j][x] \in Nat
          /\ \A a \in M(i) \cup M(j), b \in M(x) : distance[a][b] \in Nat
        BY <1>2, <2>1, <2>2, <2>3, <3>1
    <3>5. M(i) \cup M(j) \subseteq F!All /\ M(x) \subseteq F!All
        BY <1>2, <1>6, <2>1
    <3> HIDE DEF M, New, x, y
    <3>6. IsGap(gap'[c][d], M(i) \cup M(j), M(x))
      <4> DEFINE g == gap'[c][d]
                 u == gap[i][x]
                 v == gap[j][x]
                 A == M(i)
                 B == M(j)
                 D == M(x)
      <4>1. u \in Nat /\ v \in Nat /\ g \in {u, v} /\ g <= u /\ g <= v
            /\ IsGap(u, A, D) /\ IsGap(v, B, D)
            /\ \A a \in A \cup B, b \in D : distance[a][b] \in Nat
        BY <3>2, <3>3, <3>4
      <4> HIDE DEF g, u, v, A, B, D
      <4>2. IsGap(g, A \cup B, D)
        BY <4>1, NearerGap
      <4> QED
        BY <4>2 DEF g, A, B, D
    <3> QED
        BY <1>4, <3>1, <3>5, <3>6 DEF IsGap, Symmetric
  <2>6. CASE c # i /\ d # i
    BY <1>1, <2>1, <2>2, <2>6
  <2> QED
    BY <2>4, <2>5, <2>6
<1>10. ASSUME NEW c \in 1 .. n - 1, NEW S \in SUBSET F!All, F!Closed(S),
              NEW a \in New(c), a \in S
       PROVE  New(c) \subseteq S
  <2>1. \A e \in 1 .. n : (\E b \in M(e) : b \in S) => M(e) \subseteq S
    BY <1>4, <1>10 DEF Chained
  <2>2. CASE c # i
    BY <1>5, <1>10, <2>1, <2>2
  <2>3. CASE c = i
    <3>1. PICK p \in M(i), q \in M(j) : gap[i][j] = distance[p][q]
        BY <1>1, <1>2, <1>4 DEF GapsAreMinimal, IsGap
    <3>2. /\ p \in F!All /\ q \in F!All
          /\ distance[p][q] <= Threshold /\ distance[q][p] <= Threshold
        BY <1>1, <1>2, <1>4, <1>6, <3>1 DEF Symmetric
    <3>3. p \in S <=> q \in S
        BY <1>10, <3>2 DEF F!Closed
    <3>4. a \in M(i) \/ a \in M(j)
        BY <1>10, <2>3
    <3> QED
        BY <1>2, <1>10, <2>1, <2>3, <3>1, <3>3, <3>4
  <2> QED
    BY <2>2, <2>3
<1>11. Chained'
  <2>1. Len(clusters)' = n - 1
    BY <1>1
  <2> HIDE DEF n, New
  <2> QED
    BY <1>3, <1>4, <1>10, <2>1 DEF Chained
<1>12. FoundAreChains'
    BY <1>3, <1>4 DEF FoundAreChains, F!Merge
<1> QED
    BY <1>1, <1>7, <1>8, <1>9, <1>11, <1>12 DEF ClustersInv

LEMMA ClustersStutter ==
    ASSUME ClustersTypeOK, Symmetric, Partition, GapsAreMinimal, Chained,
           UNCHANGED <<distance, clusters, gap>>
    PROVE  (ClustersTypeOK /\ Symmetric /\ Partition /\ GapsAreMinimal /\ Chained)'
<1>1. F!All' = F!All
    BY DEF F!All
<1>2. \A c : Members(c)' = Members(c)
    BY DEF Members
<1>3. \A S : F!Closed(S)' = F!Closed(S)
    BY <1>1 DEF F!Closed
<1>4. ClustersTypeOK'
    BY <1>1 DEF ClustersTypeOK
<1>5. Symmetric'
    BY <1>1 DEF Symmetric
<1>6. Partition'
    BY <1>1, <1>2 DEF Partition
<1>7. GapsAreMinimal'
    BY <1>2 DEF GapsAreMinimal, IsGap
<1>8. Chained'
    BY <1>1, <1>2, <1>3 DEF Chained
<1> QED
    BY <1>4, <1>5, <1>6, <1>7, <1>8

\* When no two clusters are near, a cluster is what its members reach.
LEMMA FinishKeeps == ClustersInv /\ F!Finish => ClustersInv'
<1> SUFFICES ASSUME ClustersInv, F!Finish PROVE ClustersInv'
    OBVIOUS
<1> DEFINE n == Len(clusters)
<1>1. /\ UNCHANGED <<distance, clusters, gap>>
      /\ findings' = {F!ToSet(clusters[c]) : c \in DOMAIN clusters}
      /\ n > 1 => gap[F!Nearest[1]][F!Nearest[2]] > Threshold
    BY DEF F!Finish
<1>2. /\ n \in Nat /\ DOMAIN clusters = 1 .. n
      /\ gap \in [1 .. n -> [1 .. n -> Nat]]
      /\ Partition /\ GapsAreMinimal /\ Chained /\ Symmetric /\ ClustersTypeOK
  <2>1. ClustersTypeOK /\ Partition /\ GapsAreMinimal /\ Chained /\ Symmetric
    BY DEF ClustersInv
  <2>2. n \in Nat /\ DOMAIN clusters = 1 .. n /\ gap \in [1 .. n -> [1 .. n -> Nat]]
    BY <2>1 DEF ClustersTypeOK
  <2> QED
    BY <2>1, <2>2
<1>3. PICK m \in Nat : distance \in [1 .. m -> [1 .. m -> Nat]] /\ F!All = 1 .. m
    BY <1>2 DEF ClustersTypeOK, F!All
<1>4. \A c \in 1 .. n : Members(c) \subseteq F!All
  <2> SUFFICES ASSUME NEW c \in 1 .. n PROVE Members(c) \subseteq F!All
    OBVIOUS
  <2>1. clusters[c] \in Seq(F!All)
    BY <1>2 DEF ClustersTypeOK
  <2>2. \A k \in DOMAIN clusters[c] : clusters[c][k] \in F!All
    BY <2>1
  <2> QED
    BY <2>2 DEF Members, F!ToSet
<1>5. ASSUME NEW c \in 1 .. n, NEW d \in 1 .. n, c # d
      PROVE  gap[c][d] > Threshold
  <2>1. n > 1
    BY <1>2, <1>5
  <2>2. /\ F!Nearest \in F!Pairs(n)
        /\ \A q \in F!Pairs(n) : gap[F!Nearest[1]][F!Nearest[2]] <= gap[q[1]][q[2]]
    BY <1>2, <2>1, NearestIsAPair
  <2>3. gap[F!Nearest[1]][F!Nearest[2]] \in Nat
    BY <1>2, <2>2 DEF F!Pairs
  <2>4. \A x, y \in 1 .. n : x < y => gap[x][y] > Threshold
    <3> SUFFICES ASSUME NEW x \in 1 .. n, NEW y \in 1 .. n, x < y
                 PROVE  gap[x][y] > Threshold
        OBVIOUS
    <3>1. <<x, y>> \in F!Pairs(n)
        BY DEF F!Pairs
    <3>2. gap[F!Nearest[1]][F!Nearest[2]] <= gap[x][y]
        BY <2>2, <3>1
    <3>3. gap[x][y] \in Nat /\ Threshold \in Nat
        BY <1>2, AnalysisParameters
    <3> QED
        BY <1>1, <2>1, <2>3, <3>2, <3>3
  <2>5. CASE c < d
    BY <2>4, <2>5
  <2>6. CASE d < c
    <3>1. PICK a \in Members(c), b \in Members(d) : gap[c][d] = distance[a][b]
        BY <1>2, <1>5 DEF GapsAreMinimal, IsGap
    <3>2. gap[d][c] <= distance[b][a] /\ distance[b][a] = distance[a][b]
        BY <1>2, <1>4, <1>5, <3>1 DEF GapsAreMinimal, IsGap, Symmetric
    <3>3. gap[d][c] > Threshold
        BY <2>4, <2>6
    <3>4. gap[c][d] \in Nat /\ gap[d][c] \in Nat /\ Threshold \in Nat
        BY <1>2, AnalysisParameters
    <3> QED
        BY <3>1, <3>2, <3>3, <3>4
  <2> QED
    BY <1>2, <1>5, <2>5, <2>6
<1>6. ASSUME NEW c \in 1 .. n PROVE F!Closed(Members(c))
  <2> SUFFICES ASSUME NEW a \in Members(c), NEW b \in F!All, distance[a][b] <= Threshold
               PROVE  b \in Members(c)
    BY DEF F!Closed
  <2>1. PICK d \in 1 .. n : b \in Members(d)
    BY <1>2 DEF Partition
  <2>2. ASSUME c # d PROVE FALSE
    <3>1. gap[c][d] <= distance[a][b]
        BY <1>2, <2>1, <2>2 DEF GapsAreMinimal, IsGap
    <3>2. gap[c][d] > Threshold
        BY <1>5, <2>2
    <3>3. gap[c][d] \in Nat /\ distance[a][b] \in Nat /\ Threshold \in Nat
        BY <1>2, <1>3, <1>4, AnalysisParameters
    <3> QED
        BY <3>1, <3>2, <3>3
  <2> QED
    BY <2>1, <2>2
<1>7. ASSUME NEW c \in 1 .. n, NEW o \in Members(c) PROVE Members(c) = F!Reached(o)
  <2>1. F!Reached(o) \subseteq Members(c)
    BY <1>4, <1>6 DEF F!Reached
  <2>2. Members(c) \subseteq F!Reached(o)
    BY <1>2, <1>4 DEF F!Reached, Chained
  <2> QED
    BY <2>1, <2>2
<1>8. findings' = {F!Reached(o) : o \in F!All}
  <2>1. findings' = {Members(c) : c \in 1 .. n}
    BY <1>1, <1>2 DEF Members
  <2>2. \A c \in 1 .. n : \E o \in F!All : Members(c) = F!Reached(o)
    BY <1>2, <1>4, <1>7 DEF Partition
  <2>3. \A o \in F!All : \E c \in 1 .. n : Members(c) = F!Reached(o)
    BY <1>2, <1>7 DEF Partition
  <2> QED
    BY <2>1, <2>2, <2>3
<1>9. FoundAreChains'
    BY <1>1, <1>8 DEF FoundAreChains, F!Reached, F!All, F!Closed
<1>10. (ClustersTypeOK /\ Symmetric /\ Partition /\ GapsAreMinimal /\ Chained)'
    BY <1>1, <1>2, ClustersStutter
<1> QED
    BY <1>9, <1>10 DEF ClustersInv

LEMMA ClustersMean == ClustersInv => FindingsAreChains
<1> SUFFICES ASSUME ClustersInv PROVE F!FindingsAreChains
    BY DEF FindingsAreChains
<1>1. /\ DOMAIN clusters = 1 .. Len(clusters)
      /\ Partition /\ GapsAreMinimal /\ FoundAreChains
    BY DEF ClustersInv, ClustersTypeOK
<1>2. \A c \in 1 .. Len(clusters) : Members(c) \subseteq F!All
  <2> SUFFICES ASSUME NEW c \in 1 .. Len(clusters) PROVE Members(c) \subseteq F!All
    OBVIOUS
  <2>1. clusters[c] \in Seq(F!All)
    BY DEF ClustersInv, ClustersTypeOK
  <2>2. \A k \in DOMAIN clusters[c] : clusters[c][k] \in F!All
    BY <2>1
  <2> QED
    BY <2>2 DEF Members, F!ToSet
<1>3. ASSUME NEW c \in DOMAIN clusters, NEW d \in DOMAIN clusters, c # d
      PROVE  gap[c][d] = F!Min({distance[a][b] : a \in F!ToSet(clusters[c]),
                                                b \in F!ToSet(clusters[d])})
  <2> DEFINE T == {distance[a][b] : a \in Members(c), b \in Members(d)}
  <2>1. IsGap(gap[c][d], Members(c), Members(d))
    BY <1>1, <1>3 DEF GapsAreMinimal
  <2>2. T \subseteq Nat
    <3>1. PICK m \in Nat : distance \in [1 .. m -> [1 .. m -> Nat]]
        BY DEF ClustersInv, ClustersTypeOK
    <3>2. F!All = 1 .. m
        BY <3>1 DEF F!All
    <3> QED
      <4>1. Members(c) \subseteq 1 .. m /\ Members(d) \subseteq 1 .. m
        BY <1>1, <1>2, <3>2
      <4>2. \A a \in Members(c), b \in Members(d) : distance[a][b] \in Nat
        BY <3>1, <4>1
      <4> QED
        BY <4>2
  <2>3. gap[c][d] \in T /\ \A x \in T : gap[c][d] <= x
    BY <2>1 DEF IsGap
  <2> HIDE DEF T
  <2>4. F!Min(T) = gap[c][d]
    BY <2>2, <2>3, MinIs
  <2> QED
    BY <2>4 DEF T, Members
<1>4. ASSUME NEW o \in F!All
      PROVE  F!Cardinality({c \in DOMAIN clusters : o \in F!ToSet(clusters[c])}) = 1
  <2> DEFINE T == {c \in DOMAIN clusters : o \in F!ToSet(clusters[c])}
  <2>1. PICK c \in T : TRUE
    BY <1>1 DEF Partition, Members
  <2>2. \A d \in T : d = c
    BY <1>1 DEF Partition, Members
  <2> HIDE DEF T
  <2>3. F!Cardinality(T) = 1
    BY <2>1, <2>2, OneElement
  <2> QED
    BY <2>3 DEF T
<1>5. findings # F!Unknown => findings = {F!Reached(o) : o \in F!All}
    BY <1>1 DEF FoundAreChains
<1> QED
    BY <1>3, <1>4, <1>5 DEF F!FindingsAreChains

LEMMA ClustersNext == ClustersInv /\ [MCNext]_<<part, vars, clusterVars, recordVars>> => ClustersInv'
<1> SUFFICES ASSUME ClustersInv, [MCNext]_<<part, vars, clusterVars, recordVars>>
             PROVE  ClustersInv'
    OBVIOUS
<1>1. CASE F!Merge
    BY <1>1, MergeKeeps
<1>2. CASE F!Finish
    BY <1>2, FinishKeeps
<1>3. CASE UNCHANGED clusterVars
  <2>1. UNCHANGED <<distance, clusters, gap>> /\ findings' = findings
    BY <1>3 DEF clusterVars
  <2>2. (ClustersTypeOK /\ Symmetric /\ Partition /\ GapsAreMinimal /\ Chained)'
    BY <2>1, ClustersStutter DEF ClustersInv
  <2>3. FoundAreChains'
    BY <2>1 DEF ClustersInv, FoundAreChains, F!Reached, F!All, F!Closed
  <2> QED
    BY <2>2, <2>3 DEF ClustersInv
<1> QED
    BY <1>1, <1>2, <1>3 DEF MCNext

\* However many outputs fail and however far apart they are, the findings of a
\* run are the chains of outputs within the threshold.
THEOREM FindingsCorrect == MCSpec => []FindingsAreChains
<1>1. MCInit => ClustersInv
    BY ClustersInit DEF MCInit
<1> QED
    BY <1>1, ClustersNext, ClustersMean, PTL DEF MCSpec
-----------------------------------------------------------------------------
(* The record of a run (RunRecord)                                         *)

\* The CI job judges the attempts of a case as the suite does, whatever else its
\* copy of the suite says.
SameJudges ==
    \A c \in R!Cases : c \in DOMAIN RanExpect => R!Judged(RanExpect[c]) = R!Judged(Expect[c])

\* The verdicts of a result are of the first of these judges, in their order.
JudgedBy(result, specs) ==
    /\ "judgments" \in DOMAIN result
    /\ \E k \in 0 .. Len(specs) :
          /\ DOMAIN result.judgments = 1 .. k /\ Len(result.judgments) = k
          /\ \A i \in 1 .. k : result.judgments[i].judge = specs[i]

RowsAreJudged ==
    \A row \in rows : row.case \in R!Cases /\ JudgedBy(row.detail, R!Judged(Expect[row.case]))

UploadIsJudged ==
    \A r \in upload : r.case \in R!Cases => JudgedBy(r, R!Judged(Expect[r.case]))

TraceIsAnchored ==
    /\ "kind" \in DOMAIN page
    /\ page.kind = "trace" =>
         /\ page.answered
         /\ \A i \in DOMAIN page.result.judgments :
               page.steps[i] = R!Anchor(page.result.judgments[i].judge, page.result.response.steps)

RecordInv == RowsAreJudged /\ UploadIsJudged /\ TraceIsAnchored

LEMMA MinOfLengths ==
    ASSUME NEW k \in Nat, NEW n \in Nat, k <= n
    PROVE  R!Min({n, k}) = k
<1>1. \E m \in {n, k} : \A x \in {n, k} : m <= x
    OBVIOUS
<1>2. R!Min({n, k}) \in {n, k} /\ \A x \in {n, k} : R!Min({n, k}) <= x
    BY <1>1 DEF R!Min
<1> QED
    BY <1>2

\* Whatever becomes of an attempt, its verdicts are of its judges in order.
LEMMA ExecutedIsJudged ==
    ASSUME NEW c, NEW n, NEW expect, NEW r \in R!Executed(c, n, expect),
           Len(R!Judged(expect)) \in Nat
    PROVE  r.case = c /\ JudgedBy(r, R!Judged(expect))
<1> DEFINE specs == R!Judged(expect)
<1>1. \E status, error, response, js :
         /\ r = R!AttemptResult(c, n, status, error, response, js)
         /\ \/ js = <<>>
            \/ \E k \in 0 .. Len(specs) : \E v \in R!Verdicts(k) : js = R!Judgments(specs, v)
  <2>1. CASE r \in {R!AttemptResult(c, n, "error", "timeout", R!NoResponse, <<>>),
                   R!AttemptResult(c, n, "error", "unreachable", R!BadResponse, <<>>)}
    BY <2>1
  <2>2. CASE \E answer \in R!Answers(c), v \in UNION {R!Verdicts(k) : k \in 0 .. Len(specs) - 1} :
                r = R!AttemptResult(c, n, "error", "budget", answer, R!Judgments(specs, v))
    <3>1. PICK answer \in R!Answers(c), v \in UNION {R!Verdicts(k) : k \in 0 .. Len(specs) - 1} :
             r = R!AttemptResult(c, n, "error", "budget", answer, R!Judgments(specs, v))
        BY <2>2
    <3>2. \E k \in 0 .. Len(specs) : v \in R!Verdicts(k)
        OBVIOUS
    <3> QED
        BY <3>1, <3>2
  <2>3. CASE \E answer \in R!Answers(c), v \in R!Verdicts(Len(specs)) :
                r = R!AttemptResult(c, n, R!StatusOf(v), R!JudgeError(v), answer,
                                    R!Judgments(specs, v))
    <3>1. Len(specs) \in 0 .. Len(specs)
        OBVIOUS
    <3> QED
        BY <2>3, <3>1
  <2> QED
    BY <2>1, <2>2, <2>3 DEF R!Executed
<1>2. PICK status, error, response, js :
         /\ r = R!AttemptResult(c, n, status, error, response, js)
         /\ \/ js = <<>>
            \/ \E k \in 0 .. Len(specs) : \E v \in R!Verdicts(k) : js = R!Judgments(specs, v)
    BY <1>1
<1>3. r.case = c /\ r.judgments = js /\ "judgments" \in DOMAIN r
    BY <1>2 DEF R!AttemptResult
<1>4. \E k \in 0 .. Len(specs) :
         DOMAIN js = 1 .. k /\ Len(js) = k /\ \A i \in 1 .. k : js[i].judge = specs[i]
  <2>1. CASE js = <<>>
    <3>1. 0 \in 0 .. Len(specs) /\ DOMAIN js = 1 .. 0 /\ Len(js) = 0
        BY <2>1
    <3> QED
        BY <3>1
  <2>2. CASE js # <<>>
    <3>1. PICK k \in 0 .. Len(specs) : \E v \in R!Verdicts(k) : js = R!Judgments(specs, v)
        BY <1>2, <2>2
    <3> PICK v \in R!Verdicts(k) : js = R!Judgments(specs, v)
        BY <3>1
    <3>2. DOMAIN v = 1 .. k /\ k \in Nat
        BY <3>1 DEF R!Verdicts
    <3>3. js = [i \in 1 .. k |-> [judge |-> specs[i], status |-> v[i]]]
        BY <3>1, <3>2 DEF R!Judgments
    <3>4. DOMAIN js = 1 .. k /\ Len(js) = k /\ \A i \in 1 .. k : js[i].judge = specs[i]
        BY <3>2, <3>3
    <3> QED
        BY <3>4
  <2> QED
    BY <2>1, <2>2
<1> QED
    BY <1>3, <1>4 DEF JudgedBy

LEMMA CaseOfExecuted ==
    ASSUME NEW c, NEW n, NEW expect, NEW r \in R!Executed(c, n, expect)
    PROVE  r.case = c
    BY DEF R!Executed, R!AttemptResult

\* A row keeps the case of its result and its verdicts.
LEMMA RowIsJudged ==
    ASSUME NEW r, NEW specs, JudgedBy(r, specs)
    PROVE  R!RowOf(r).case = r.case /\ JudgedBy(R!RowOf(r).detail, specs)
<1>1. R!RowOf(r).case = r.case /\ R!RowOf(r).detail = [r EXCEPT !.response.steps = <<>>]
    BY DEF R!RowOf
<1> DEFINE detail == [r EXCEPT !.response.steps = <<>>]
<1>2. detail.judgments = r.judgments /\ "judgments" \in DOMAIN detail
    BY DEF JudgedBy
<1> HIDE DEF detail
<1> QED
    BY <1>1, <1>2 DEF JudgedBy, detail

LEMMA RecordInit == R!Init => RecordInv
    BY DEF R!Init, R!NoPage, RecordInv, RowsAreJudged, UploadIsJudged, TraceIsAnchored

LEMMA SavedIsJudged == RecordInv /\ R!SaveAttempt => RowsAreJudged'
<1> SUFFICES ASSUME RecordInv, R!SaveAttempt PROVE RowsAreJudged'
    OBVIOUS
<1>1. PICK planned \in R!Plan :
         \E result \in R!Executed(planned[1], planned[2], Expect[planned[1]]) :
            rows' = rows \cup {R!RowOf(result)}
    BY DEF R!SaveAttempt
<1> PICK result \in R!Executed(planned[1], planned[2], Expect[planned[1]]) :
        rows' = rows \cup {R!RowOf(result)}
    BY <1>1
<1>2. planned[1] \in R!Cases
    BY DEF R!Plan
<1>3. result.case = planned[1] /\ JudgedBy(result, R!Judged(Expect[planned[1]]))
    BY <1>2, ExecutedIsJudged, AnalysisParameters
<1>4. R!RowOf(result).case = planned[1]
      /\ JudgedBy(R!RowOf(result).detail, R!Judged(Expect[planned[1]]))
    BY <1>3, RowIsJudged
<1>5. \A row \in rows : row.case \in R!Cases /\ JudgedBy(row.detail, R!Judged(Expect[row.case]))
    BY DEF RecordInv, RowsAreJudged
<1> QED
    BY <1>1, <1>2, <1>4, <1>5 DEF RowsAreJudged

LEMMA ExecutedUpload == SameJudges /\ RecordInv /\ R!CiAttempt => UploadIsJudged'
<1> SUFFICES ASSUME SameJudges, RecordInv, R!CiAttempt PROVE UploadIsJudged'
    OBVIOUS
<1>1. PICK c \in DOMAIN RanExpect, n \in 0 .. RecordRuns - 1 :
         \E result \in R!Executed(c, n, RanExpect[c]) : upload' = upload \cup {result}
    BY DEF R!CiAttempt
<1> PICK result \in R!Executed(c, n, RanExpect[c]) : upload' = upload \cup {result}
    BY <1>1
<1>2. result.case = c
    BY <1>1, CaseOfExecuted
<1>3. c \in R!Cases => JudgedBy(result, R!Judged(Expect[c]))
  <2> SUFFICES ASSUME c \in R!Cases PROVE JudgedBy(result, R!Judged(Expect[c]))
    OBVIOUS
  <2>1. R!Judged(RanExpect[c]) = R!Judged(Expect[c]) /\ Len(R!Judged(Expect[c])) \in Nat
    BY AnalysisParameters DEF SameJudges
  <2>2. JudgedBy(result, R!Judged(RanExpect[c]))
    BY <2>1, ExecutedIsJudged
  <2> QED
    BY <2>1, <2>2
<1> QED
    BY <1>1, <1>2, <1>3 DEF RecordInv, UploadIsJudged

LEMMA ReportedRows == RecordInv /\ R!CiReport => RowsAreJudged' /\ UploadIsJudged'
<1> SUFFICES ASSUME RecordInv, R!CiReport PROVE RowsAreJudged' /\ UploadIsJudged'
    OBVIOUS
<1>1. rows' = {R!RowOf(r) : r \in upload} /\ upload' = {} /\ R!InPlan(upload)
    BY DEF R!CiReport, R!InsertResults
<1>2. ASSUME NEW r \in upload
      PROVE  /\ R!RowOf(r).case \in R!Cases
             /\ JudgedBy(R!RowOf(r).detail, R!Judged(Expect[R!RowOf(r).case]))
  <2>1. <<r.case, r.attempt>> \in R!Plan
    BY <1>1 DEF R!InPlan
  <2>2. r.case \in R!Cases
    BY <2>1 DEF R!Plan
  <2>3. JudgedBy(r, R!Judged(Expect[r.case]))
    BY <2>2 DEF RecordInv, UploadIsJudged
  <2>4. R!RowOf(r).case = r.case /\ JudgedBy(R!RowOf(r).detail, R!Judged(Expect[r.case]))
    BY <2>3, RowIsJudged
  <2> QED
    BY <2>2, <2>4
<1> QED
    BY <1>1, <1>2 DEF RowsAreJudged, UploadIsJudged

\* The trace of an attempt pairs each verdict with the judge that gave it.
LEMMA TraceOfARow == RecordInv /\ R!GetTrace => TraceIsAnchored'
<1> SUFFICES ASSUME RecordInv, R!GetTrace PROVE TraceIsAnchored'
    OBVIOUS
<1>1. PICK saved \in R!SavedPairs :
         LET result == R!ReadAttempt(saved[1], saved[2])
             steps  == R!JudgmentSteps(saved[1], result)
         IN page' = [kind |-> "trace", todo |-> <<>>, result |-> result,
                     steps |-> steps, answered |-> Len(steps) = Len(result.judgments)]
    BY DEF R!GetTrace
<1> DEFINE c == saved[1]
           specs == R!Judged(Expect[c])
           result == R!ReadAttempt(c, saved[2])
           steps == R!JudgmentSteps(c, result)
<1>2. PICK row \in rows : row.case = c /\ row.attempt = saved[2] /\ result = R!Rebuilt(row)
  <2> DEFINE row == CHOOSE row \in rows : row.case = c /\ row.attempt = saved[2]
  <2>1. \E r \in rows : r.case = c /\ r.attempt = saved[2]
    BY DEF R!SavedPairs
  <2>2. row \in rows /\ row.case = c /\ row.attempt = saved[2]
    BY <2>1
  <2>3. result = R!Rebuilt(row)
    BY DEF R!ReadAttempt
  <2> HIDE DEF row, result
  <2> QED
    BY <2>2, <2>3
<1> HIDE DEF result
<1>3. c \in R!Cases /\ JudgedBy(row.detail, specs)
    BY <1>2 DEF RecordInv, RowsAreJudged
<1>4. result.judgments = row.detail.judgments
    BY <1>2, <1>3 DEF R!Rebuilt, JudgedBy
<1>5. Len(specs) \in Nat
    BY <1>3, AnalysisParameters
<1> HIDE DEF c, specs, steps
<1>6. PICK k \in 0 .. Len(specs) :
         /\ DOMAIN result.judgments = 1 .. k /\ Len(result.judgments) = k
         /\ \A i \in 1 .. k : result.judgments[i].judge = specs[i]
    BY <1>3, <1>4 DEF JudgedBy
<1>7. k \in Nat /\ R!Min({Len(specs), Len(result.judgments)}) = k
    BY <1>5, <1>6, MinOfLengths
<1>8. steps = [i \in 1 .. k |-> R!Anchor(specs[i], result.response.steps)]
    BY <1>7 DEF R!JudgmentSteps, steps, specs
<1>9. Len(steps) = k /\ \A i \in 1 .. k : steps[i] = R!Anchor(specs[i], result.response.steps)
    BY <1>7, <1>8
<1>10. page' = [kind |-> "trace", todo |-> <<>>, result |-> result,
                steps |-> steps, answered |-> Len(steps) = Len(result.judgments)]
    BY <1>1 DEF c, result, steps
<1> QED
    BY <1>6, <1>9, <1>10 DEF TraceIsAnchored

LEMMA OtherPages ==
    ASSUME RecordInv,
           \/ R!FindSharedRun \/ R!SharedCases \/ R!SharedResults \/ R!ListResults
           \/ R!OpenExport \/ R!ReadSummary \/ R!ClosePage
    PROVE  TraceIsAnchored' /\ rows' = rows /\ upload' = upload
<1>1. rows' = rows /\ upload' = upload
    BY DEF R!FindSharedRun, R!SharedCases, R!SharedResults, R!ListResults, R!OpenExport,
           R!ReadSummary, R!ClosePage
<1>2. "kind" \in DOMAIN page
    BY DEF RecordInv, TraceIsAnchored
<1>3. "kind" \in DOMAIN page' /\ page'.kind # "trace"
  <2>1. CASE R!FindSharedRun
    BY <2>1 DEF R!FindSharedRun
  <2>2. CASE R!SharedCases
    BY <1>2, <2>2 DEF R!SharedCases
  <2>3. CASE R!SharedResults
    BY <1>2, <2>3 DEF R!SharedResults
  <2>4. CASE R!ListResults
    BY <2>4 DEF R!ListResults
  <2>5. CASE R!OpenExport
    BY <2>5 DEF R!OpenExport
  <2>6. CASE R!ReadSummary
    BY <1>2, <2>6 DEF R!ReadSummary
  <2>7. CASE R!ClosePage
    BY <2>7 DEF R!ClosePage, R!NoPage
  <2> QED
    BY <2>1, <2>2, <2>3, <2>4, <2>5, <2>6, <2>7
<1> QED
    BY <1>1, <1>3 DEF TraceIsAnchored

LEMMA RecordNext ==
    SameJudges /\ RecordInv /\ [MCNext]_<<part, vars, clusterVars, recordVars>> => RecordInv'
<1> SUFFICES ASSUME SameJudges, RecordInv, [MCNext]_<<part, vars, clusterVars, recordVars>>
             PROVE  RecordInv'
    OBVIOUS
<1>0. RowsAreJudged /\ UploadIsJudged /\ TraceIsAnchored
    BY DEF RecordInv
<1>1. CASE R!SaveAttempt
  <2>1. UNCHANGED <<upload, page>>
    BY <1>1 DEF R!SaveAttempt
  <2> QED
    BY <1>0, <1>1, <2>1, SavedIsJudged DEF RecordInv, UploadIsJudged, TraceIsAnchored
<1>2. CASE R!CancelRun \/ R!SaveSummary \/ UNCHANGED recordVars
  <2>1. UNCHANGED <<rows, upload, page>>
    BY <1>2 DEF R!CancelRun, R!SaveSummary, recordVars
  <2> QED
    BY <1>0, <2>1 DEF RecordInv, RowsAreJudged, UploadIsJudged, TraceIsAnchored
<1>3. CASE R!DeleteRun
  <2>1. UNCHANGED <<upload, page>> /\ rows' = {}
    BY <1>3 DEF R!DeleteRun
  <2> QED
    BY <1>0, <2>1 DEF RecordInv, RowsAreJudged, UploadIsJudged, TraceIsAnchored
<1>4. CASE R!CiAttempt
  <2>1. UNCHANGED <<rows, page>>
    BY <1>4 DEF R!CiAttempt
  <2> QED
    BY <1>0, <1>4, <2>1, ExecutedUpload DEF RecordInv, RowsAreJudged, TraceIsAnchored
<1>5. CASE R!CiReport
  <2>1. page' = page
    BY <1>5 DEF R!CiReport
  <2> QED
    BY <1>0, <1>5, <2>1, ReportedRows DEF RecordInv, TraceIsAnchored
<1>6. CASE R!GetTrace
  <2>1. UNCHANGED <<rows, upload>>
    BY <1>6 DEF R!GetTrace
  <2> QED
    BY <1>0, <1>6, <2>1, TraceOfARow DEF RecordInv, RowsAreJudged, UploadIsJudged
<1>7. CASE \/ R!FindSharedRun \/ R!SharedCases \/ R!SharedResults \/ R!ListResults
           \/ R!OpenExport \/ R!ReadSummary \/ R!ClosePage
    BY <1>0, <1>7, OtherPages DEF RecordInv, RowsAreJudged, UploadIsJudged
<1> QED
    BY <1>1, <1>2, <1>3, <1>4, <1>5, <1>6, <1>7 DEF MCNext, R!Next

\* Whoever judged the attempts, by the same judges for each case: the trace of
\* every saved attempt is answered with each verdict at its own judge's step.
THEOREM VerdictsCorrect == SameJudges => (MCSpec => []VerdictsAreAnchored)
<1> SUFFICES ASSUME SameJudges PROVE MCSpec => []VerdictsAreAnchored
    OBVIOUS
<1>1. MCInit => RecordInv
    BY RecordInit DEF MCInit
<1>2. RecordInv /\ [MCNext]_<<part, vars, clusterVars, recordVars>> => RecordInv'
    BY RecordNext
<1>3. RecordInv => VerdictsAreAnchored
    BY DEF RecordInv, TraceIsAnchored, VerdictsAreAnchored, R!VerdictsAreAnchored
<1> QED
    BY <1>1, <1>2, <1>3, PTL DEF MCSpec

-----------------------------------------------------------------------------
(* Sorting by rank                                                         *)

\* Two instances of one definition.
LEMMA SameCardinality == \A T : R!Cardinality(T) = Cardinality(T)
    BY DEF R!Cardinality, Cardinality

IsStrictOrder(before, S) ==
    /\ \A x \in S : <<x, x>> \notin before
    /\ \A x, y \in S : x # y => <<x, y>> \in before \/ <<y, x>> \in before
    /\ \A x, y, z \in S : <<x, y>> \in before /\ <<y, z>> \in before => <<x, z>> \in before

Below(S, before, x) == {y \in S : <<y, x>> \in before}

\* As many elements of a finite ordered set come before an element as its place
\* says, and every place is taken.
LEMMA Ranks ==
    ASSUME NEW S, IsFiniteSet(S), NEW before, IsStrictOrder(before, S)
    PROVE  /\ \A x \in S : Cardinality(Below(S, before, x)) \in 0 .. Cardinality(S) - 1
           /\ \A x, y \in S : <<x, y>> \in before =>
                 Cardinality(Below(S, before, x)) < Cardinality(Below(S, before, y))
           /\ \A k \in 0 .. Cardinality(S) - 1 : \E x \in S : Cardinality(Below(S, before, x)) = k
<1> DEFINE n == Cardinality(S)
           rank == [x \in S |-> Cardinality(Below(S, before, x))]
<1>1. n \in Nat
    BY FS_CardinalityType
<1>2. \A x \in S : IsFiniteSet(Below(S, before, x)) /\ Cardinality(Below(S, before, x)) \in Nat
  <2> TAKE x \in S
  <2>1. Below(S, before, x) \in SUBSET S
    BY DEF Below
  <2> QED
    BY <2>1, FS_Subset, FS_CardinalityType
<1>3. \A x \in S : Cardinality(Below(S, before, x)) \in 0 .. n - 1
  <2> TAKE x \in S
  <2>1. Below(S, before, x) \in SUBSET (S \ {x})
    BY DEF IsStrictOrder, Below
  <2>2. IsFiniteSet(S \ {x}) /\ Cardinality(S \ {x}) = n - 1
    BY FS_RemoveElement
  <2>3. Cardinality(Below(S, before, x)) <= n - 1
    BY <2>1, <2>2, FS_Subset
  <2> QED
    BY <1>1, <1>2, <2>3
<1>4. ASSUME NEW x \in S, NEW y \in S, <<x, y>> \in before
      PROVE  Cardinality(Below(S, before, x)) < Cardinality(Below(S, before, y))
  <2>1. Below(S, before, x) \in SUBSET (Below(S, before, y) \ {x}) /\ x \in Below(S, before, y)
    BY <1>4 DEF IsStrictOrder, Below
  <2>2. /\ IsFiniteSet(Below(S, before, y) \ {x})
        /\ Cardinality(Below(S, before, y) \ {x}) = Cardinality(Below(S, before, y)) - 1
    BY <1>2, <2>1, FS_RemoveElement
  <2>3. Cardinality(Below(S, before, x)) <= Cardinality(Below(S, before, y)) - 1
    BY <2>1, <2>2, FS_Subset
  <2> QED
    BY <1>2, <2>3
<1>5. rank \in Injection(S, 0 .. n - 1)
  <2>1. rank \in [S -> 0 .. n - 1]
    BY <1>3
  <2>2. ASSUME NEW x \in S, NEW y \in S, x # y PROVE rank[x] # rank[y]
    <3>1. <<x, y>> \in before \/ <<y, x>> \in before
        BY <2>2 DEF IsStrictOrder
    <3>2. /\ Cardinality(Below(S, before, x)) \in Nat /\ Cardinality(Below(S, before, y)) \in Nat
          /\ \/ Cardinality(Below(S, before, x)) < Cardinality(Below(S, before, y))
             \/ Cardinality(Below(S, before, y)) < Cardinality(Below(S, before, x))
        BY <1>2, <1>4, <3>1
    <3> QED
        BY <3>2
  <2> QED
    BY <2>1, <2>2 DEF Injection, IsInjective
<1>6. IsFiniteSet(0 .. n - 1) /\ Cardinality(0 .. n - 1) = n
    BY <1>1, FS_Interval
<1>7. rank \in Surjection(S, 0 .. n - 1)
    BY <1>5, <1>6, FS_Injection
<1>8. \A k \in 0 .. n - 1 : \E x \in S : rank[x] = k
    BY <1>7 DEF Surjection
<1> QED
    BY <1>3, <1>4, <1>8

\* sorted(): every element once, each after those that come before it.
LEMMA OrderedIs ==
    ASSUME NEW S, IsFiniteSet(S), NEW before, IsStrictOrder(before, S)
    PROVE  LET order == R!Ordered(S, before)
               n == Cardinality(S) IN
           /\ n \in Nat
           /\ order \in [1 .. n -> S]
           /\ \A x \in S : \E k \in 1 .. n : order[k] = x
           /\ \A i, j \in 1 .. n : order[i] = order[j] => i = j
           /\ \A k \in 1 .. n : Cardinality(Below(S, before, order[k])) = k - 1
           /\ \A x \in S, k \in 1 .. n :
                 Cardinality(Below(S, before, x)) = k - 1 => order[k] = x
<1> DEFINE n == Cardinality(S)
           order == R!Ordered(S, before)
<1>1. /\ \A x \in S : Cardinality(Below(S, before, x)) \in 0 .. n - 1
      /\ \A x, y \in S : <<x, y>> \in before => Cardinality(Below(S, before, x)) < Cardinality(Below(S, before, y))
      /\ \A k \in 0 .. n - 1 : \E x \in S : Cardinality(Below(S, before, x)) = k
    BY Ranks
<1>2. n \in Nat /\ R!Cardinality(S) = n
    BY FS_CardinalityType, SameCardinality
<1>3. order = [k \in 1 .. n |-> CHOOSE x \in S : R!Cardinality(Below(S, before, x)) = k - 1]
    BY <1>2 DEF R!Ordered, Below
<1> HIDE DEF order, n
<1>4. \A k \in 1 .. n : order[k] \in S /\ Cardinality(Below(S, before, order[k])) = k - 1
  <2> TAKE k \in 1 .. n
  <2>1. k - 1 \in 0 .. n - 1
    BY <1>2
  <2>2. PICK x \in S : R!Cardinality(Below(S, before, x)) = k - 1
    BY <1>1, <2>1, SameCardinality
  <2>3. order[k] = CHOOSE y \in S : R!Cardinality(Below(S, before, y)) = k - 1
    BY <1>3
  <2>4. order[k] \in S /\ R!Cardinality(Below(S, before, order[k])) = k - 1
    BY <2>2, <2>3
  <2> QED
    BY <2>4, SameCardinality
<1>5. \A x, y \in S : Cardinality(Below(S, before, x)) = Cardinality(Below(S, before, y)) => x = y
  <2> SUFFICES ASSUME NEW x \in S, NEW y \in S, Cardinality(Below(S, before, x)) = Cardinality(Below(S, before, y)), x # y
               PROVE  FALSE
    OBVIOUS
  <2>1. Cardinality(Below(S, before, x)) \in 0 .. n - 1
    BY <1>1
  <2>2. <<x, y>> \in before \/ <<y, x>> \in before
    BY DEF IsStrictOrder
  <2> QED
    BY <1>1, <1>2, <2>1, <2>2
<1>6. order \in [1 .. n -> S]
    BY <1>3, <1>4
<1>7. \A x \in S, k \in 1 .. n : Cardinality(Below(S, before, x)) = k - 1 => order[k] = x
    BY <1>4, <1>5
<1>8. \A x \in S : \E k \in 1 .. n : order[k] = x
  <2> TAKE x \in S
  <2>1. Cardinality(Below(S, before, x)) \in 0 .. n - 1
    BY <1>1
  <2>2. Cardinality(Below(S, before, x)) + 1 \in 1 .. n
    BY <1>2, <2>1
  <2>3. Cardinality(Below(S, before, x)) = (Cardinality(Below(S, before, x)) + 1) - 1
    BY <2>1
  <2> QED
    BY <1>7, <2>2, <2>3
<1>9. \A i, j \in 1 .. n : order[i] = order[j] => i = j
  <2> TAKE i, j \in 1 .. n
  <2>1. order[i] = order[j] => i - 1 = j - 1
    BY <1>4
  <2> QED
    BY <1>2, <2>1
<1> QED
    BY <1>2, <1>4, <1>6, <1>7, <1>8, <1>9 DEF order, n

\* An injective function keeps the number of elements.
LEMMA ImageCount ==
    ASSUME NEW S, IsFiniteSet(S), NEW f, DOMAIN f = S,
           \A x, y \in S : f[x] = f[y] => x = y,
           NEW T, \A x \in S : f[x] \in T, \A t \in T : \E x \in S : f[x] = t
    PROVE  IsFiniteSet(T) /\ Cardinality(T) = Cardinality(S)
<1> DEFINE g == [x \in S |-> f[x]]
<1>1. g \in [S -> T]
    OBVIOUS
<1>2. g \in Bijection(S, T)
    BY <1>1 DEF Bijection, Injection, Surjection, IsInjective
<1> HIDE DEF g
<1> QED
    BY <1>2, FS_Bijection DEF ExistsBijection

-----------------------------------------------------------------------------
(* Saved rows in whatever order they are read (RunRecord)                  *)

RowsIn(saved, c) == {row \in saved : row.case = c}

Lower(saved) == {p \in saved \X saved : p[1].attempt < p[2].attempt}

\* The rows of a case in the order of its attempts, as results.
AttemptsOf(saved, c) ==
    LET order == R!Ordered(RowsIn(saved, c), Lower(RowsIn(saved, c)))
    IN [k \in 1 .. Cardinality(RowsIn(saved, c)) |-> R!Rebuilt(order[k])]

\* What a row says of its result twice, it says alike.
IsRow(row) ==
    /\ row.case \in R!Cases /\ row.attempt \in 0 .. RecordRuns - 1
    /\ row.status \in {"passed", "failed", "error"}
    /\ R!Rebuilt(row).case = row.case /\ R!Rebuilt(row).attempt = row.attempt
    /\ R!Rebuilt(row).status = row.status
    /\ R!Rebuilt(row).cost \in {R!Unknown, 1}

AreRows(saved) ==
    /\ IsFiniteSet(saved)
    /\ \A row \in saved : IsRow(row)
    /\ \A v, w \in saved : v.case = w.case /\ v.attempt = w.attempt => v = w

\* The rows in some order, each once.
Lists(read, saved) ==
    /\ read \in [1 .. Cardinality(saved) -> saved]
    /\ \A row \in saved : \E i \in 1 .. Cardinality(saved) : read[i] = row
    /\ \A i, j \in 1 .. Cardinality(saved) : read[i] = read[j] => i = j

ResultsOf(read) == [i \in DOMAIN read |-> R!Rebuilt(read[i])]

\* A case's attempts do not depend on the order in which the rows are read.
LEMMA OfCaseIs ==
    ASSUME NEW saved, AreRows(saved), NEW read, Lists(read, saved), NEW c
    PROVE  /\ R!OfCase(ResultsOf(read), c) = AttemptsOf(saved, c)
           /\ IsFiniteSet(RowsIn(saved, c))
<1> DEFINE n == Cardinality(saved)
           results == ResultsOf(read)
           own == R!Own(results, c)
           before == {p \in own \X own : results[p[1]].attempt < results[p[2]].attempt}
           X == RowsIn(saved, c)
           lower == Lower(X)
           m == Cardinality(X)
<1>1. n \in Nat /\ IsFiniteSet(1 .. n)
    BY FS_CardinalityType, FS_Interval DEF AreRows
<1>2. /\ DOMAIN results = 1 .. n
      /\ \A i \in 1 .. n : /\ read[i] \in saved /\ results[i] = R!Rebuilt(read[i])
                           /\ results[i].case = read[i].case
                           /\ results[i].attempt = read[i].attempt
    BY DEF ResultsOf, Lists, AreRows, IsRow
<1>3. own = {i \in 1 .. n : read[i].case = c}
    BY <1>2 DEF R!Own
<1>4. IsFiniteSet(own) /\ own \subseteq 1 .. n
    BY <1>1, <1>3, FS_Subset
<1>5. X = {read[i] : i \in own}
    BY <1>2, <1>3 DEF RowsIn, Lists
<1>6. IsFiniteSet(X) /\ Cardinality(X) = Cardinality(own)
  <2> DEFINE f == [i \in own |-> read[i]]
  <2>1. (\A i \in own : f[i] \in X) /\ (\A x \in X : \E i \in own : f[i] = x)
    BY <1>5
  <2>2. DOMAIN f = own /\ \A i, j \in own : f[i] = f[j] => i = j
    BY <1>4 DEF Lists
  <2> HIDE DEF f, own, X
  <2>3. IsFiniteSet(own)
    BY <1>4
  <2> QED
    BY <2>1, <2>2, <2>3, ImageCount
<1>7. m \in Nat
    BY <1>6, FS_CardinalityType
<1>8. /\ \A i \in own : read[i] \in X /\ read[i].attempt \in Nat
      /\ \A i, j \in own : read[i].attempt = read[j].attempt => i = j
    BY <1>2, <1>3 DEF AreRows, IsRow, Lists, RowsIn
<1>9. \A i, j \in own : <<i, j>> \in before <=> read[i].attempt < read[j].attempt
    BY <1>2, <1>4
<1>10. \A v, w \in X : <<v, w>> \in lower <=> v.attempt < w.attempt
    BY DEF Lower
<1> HIDE DEF before, lower
<1>11. IsStrictOrder(before, own)
    BY <1>8, <1>9 DEF IsStrictOrder
<1>12. IsStrictOrder(lower, X)
  <2>1. \A v, w \in X : v.attempt \in Nat /\ (v.attempt = w.attempt => v = w)
    BY DEF AreRows, IsRow, RowsIn
  <2> QED
    BY <1>10, <2>1 DEF IsStrictOrder
<1>13. ASSUME NEW i \in own
       PROVE  Cardinality(Below(X, lower, read[i])) = Cardinality(Below(own, before, i))
  <2> DEFINE A == Below(own, before, i)
             B == Below(X, lower, read[i])
             g == [j \in A |-> read[j]]
  <2>1. A \in SUBSET own
    BY DEF Below
  <2>2. IsFiniteSet(A)
    BY <1>4, <2>1, FS_Subset
  <2>3. B = {read[j] : j \in A}
    BY <1>5, <1>8, <1>9, <1>10 DEF Below
  <2>4. (\A j \in A : g[j] \in B) /\ (\A x \in B : \E j \in A : g[j] = x)
    BY <2>3
  <2>5. DOMAIN g = A /\ \A j, k \in A : g[j] = g[k] => j = k
    BY <2>1, <1>4 DEF Lists
  <2> HIDE DEF A, B, g
  <2> QED
    BY <2>2, <2>4, <2>5, ImageCount DEF A, B
<1> DEFINE order == R!Ordered(own, before)
           mine == R!Ordered(X, lower)
<1> HIDE DEF n, results, own, X, m
<1>14. /\ order \in [1 .. m -> own]
       /\ \A k \in 1 .. m : Cardinality(Below(own, before, order[k])) = k - 1
    BY <1>4, <1>6, <1>11, OrderedIs DEF m
<1>15. \A x \in X, k \in 1 .. m : Cardinality(Below(X, lower, x)) = k - 1 => mine[k] = x
    BY <1>6, <1>12, OrderedIs DEF m
<1>16. \A k \in 1 .. m : mine[k] = read[order[k]]
    BY <1>8, <1>13, <1>14, <1>15
<1>17. R!OfCase(results, c) = [k \in 1 .. m |-> results[order[k]]]
  <2>1. R!OfCase(results, c) = [k \in DOMAIN order |-> results[order[k]]]
    BY DEF R!OfCase, own, before
  <2> QED
    BY <1>14, <2>1
<1>18. \A k \in 1 .. m : results[order[k]] = R!Rebuilt(mine[k])
    BY <1>2, <1>4, <1>14, <1>16
<1>19. AttemptsOf(saved, c) = [k \in 1 .. m |-> R!Rebuilt(mine[k])]
    BY DEF AttemptsOf, mine, lower, X, m
<1> QED
    BY <1>6, <1>17, <1>18, <1>19 DEF results, X

\* read_attempts returns every row once, whatever order the database keeps them in.
LEMMA ReadsAre ==
    ASSUME NEW saved, AreRows(saved), NEW results \in R!ReadAttempts(saved)
    PROVE  \E read : Lists(read, saved) /\ results = ResultsOf(read)
<1>1. PICK order \in Orders :
         LET before == {p \in saved \X saved : R!Place(order, p[1]) < R!Place(order, p[2])}
             read == R!Ordered(saved, before)
         IN results = [i \in DOMAIN read |-> R!Rebuilt(read[i])]
    BY DEF R!ReadAttempts
<1> DEFINE before == {p \in saved \X saved : R!Place(order, p[1]) < R!Place(order, p[2])}
           read == R!Ordered(saved, before)
<1>2. \A v, w \in saved : <<v, w>> \in before <=> R!Place(order, v) < R!Place(order, w)
    OBVIOUS
<1>3. /\ \A v \in saved : R!Place(order, v) \in Nat
      /\ \A v, w \in saved : R!Place(order, v) = R!Place(order, w) => v = w
  <2>1. \A v \in saved : <<v.case, v.attempt>> \in R!Plan
    BY DEF AreRows, IsRow, R!Plan
  <2>2. /\ order \in [R!Plan -> Nat]
        /\ \A p, q \in R!Plan : order[p] = order[q] => p = q
    BY AnalysisParameters
  <2>3. \A v, w \in saved : R!Place(order, v) = R!Place(order, w) =>
            <<v.case, v.attempt>> = <<w.case, w.attempt>>
    BY <2>1, <2>2 DEF R!Place
  <2> QED
    BY <2>1, <2>2, <2>3 DEF AreRows, R!Place
<1>4. results = ResultsOf(read)
    BY <1>1 DEF ResultsOf
<1> HIDE DEF before
<1>5. IsStrictOrder(before, saved)
    BY <1>2, <1>3 DEF IsStrictOrder
<1>6. Lists(read, saved)
  <2>1. IsFiniteSet(saved)
    BY DEF AreRows
  <2> QED
    BY <1>5, <2>1, OrderedIs DEF Lists
<1> QED
    BY <1>4, <1>6

CasesOf(saved) == {row.case : row \in saved}

WithStatus(saved, status) == {row \in saved : row.status = status}

\* What finalize_run makes of the rows, in whatever order it is given them.
LEMMA SummaryIs ==
    ASSUME NEW saved, AreRows(saved), NEW read, Lists(read, saved), NEW llm
    PROVE  LET summary == R!FinalizeRun(ResultsOf(read), llm) IN
           /\ DOMAIN summary.cases = CasesOf(saved)
           /\ \A c \in CasesOf(saved) :
                 /\ summary.cases[c].summary = R!CaseSummary(AttemptsOf(saved, c))
                 /\ summary.cases[c].failures.attempts = R!Failures(AttemptsOf(saved, c))
           /\ summary.cost = R!Total(ResultsOf(read))
<1> DEFINE results == ResultsOf(read)
           summary == R!FinalizeRun(results, llm)
<1>1. /\ DOMAIN summary.cases = {results[i].case : i \in DOMAIN results}
      /\ \A c \in {results[i].case : i \in DOMAIN results} :
            /\ summary.cases[c].summary = R!CaseSummary(R!OfCase(results, c))
            /\ summary.cases[c].failures.attempts = R!Failures(R!OfCase(results, c))
      /\ summary.cost = R!Total(results)
    BY DEF R!FinalizeRun
<1>2. /\ DOMAIN results = 1 .. Cardinality(saved)
      /\ \A i \in 1 .. Cardinality(saved) : read[i] \in saved /\ results[i].case = read[i].case
    BY DEF ResultsOf, Lists, AreRows, IsRow
<1> HIDE DEF results, summary
<1>3. {results[i].case : i \in DOMAIN results} = CasesOf(saved)
    BY <1>2 DEF CasesOf, Lists
<1>4. \A c : R!OfCase(results, c) = AttemptsOf(saved, c)
    BY OfCaseIs DEF results
<1> QED
    BY <1>1, <1>3, <1>4 DEF results, summary

\* As many results have a status as rows have it.
LEMMA StatusCounts ==
    ASSUME NEW saved, AreRows(saved), NEW read, Lists(read, saved), NEW status
    PROVE  LET results == ResultsOf(read) IN
           Cardinality({i \in DOMAIN results : results[i].status = status})
                = Cardinality(WithStatus(saved, status))
<1> DEFINE n == Cardinality(saved)
           results == ResultsOf(read)
           A == {i \in DOMAIN results : results[i].status = status}
           f == [i \in A |-> read[i]]
           B == WithStatus(saved, status)
<1>1. n \in Nat /\ IsFiniteSet(1 .. n)
    BY FS_CardinalityType, FS_Interval DEF AreRows
<1>2. /\ DOMAIN results = 1 .. n
      /\ \A i \in 1 .. n : read[i] \in saved /\ results[i].status = read[i].status
    BY DEF ResultsOf, Lists, AreRows, IsRow
<1> HIDE DEF results, n
<1>3. A \subseteq 1 .. n
    BY <1>2
<1>4. IsFiniteSet(A)
  <2> HIDE DEF A
  <2> QED
    BY <1>1, <1>3, FS_Subset
<1>5. (\A i \in A : f[i] \in B) /\ (\A row \in B : \E i \in A : f[i] = row)
    BY <1>2 DEF WithStatus, Lists, n
<1>6. DOMAIN f = A /\ \A i, j \in A : f[i] = f[j] => i = j
    BY <1>3 DEF Lists, n
<1> HIDE DEF A, B, f
<1>7. Cardinality(B) = Cardinality(A)
    BY <1>4, <1>5, <1>6, ImageCount
<1> QED
    BY <1>7 DEF A, B, results

\* The attempts of a case are the results of its rows.
LEMMA AttemptsAre ==
    ASSUME NEW saved, AreRows(saved), NEW c
    PROVE  /\ AreRows(RowsIn(saved, c))
           /\ \E order : Lists(order, RowsIn(saved, c)) /\ AttemptsOf(saved, c) = ResultsOf(order)
<1> DEFINE mine == RowsIn(saved, c)
           lower == Lower(mine)
           order == R!Ordered(mine, lower)
<1>1. IsFiniteSet(mine) /\ mine \subseteq saved
    BY FS_Subset DEF RowsIn, AreRows
<1>2. AreRows(mine)
    BY <1>1 DEF AreRows
<1>3. IsStrictOrder(lower, mine)
  <2>1. \A v, w \in mine : v.attempt \in Nat /\ (v.attempt = w.attempt => v = w)
    BY DEF AreRows, IsRow, RowsIn
  <2>2. \A v, w \in mine : <<v, w>> \in lower <=> v.attempt < w.attempt
    BY DEF Lower
  <2> HIDE DEF mine, lower
  <2> QED
    BY <2>1, <2>2 DEF IsStrictOrder
<1> HIDE DEF lower, mine
<1>4. Lists(order, mine)
    BY <1>1, <1>3, OrderedIs DEF Lists
<1>5. AttemptsOf(saved, c) = ResultsOf(order)
  <2>1. AttemptsOf(saved, c) = [k \in 1 .. Cardinality(mine) |-> R!Rebuilt(order[k])]
    BY DEF AttemptsOf, mine, lower
  <2>2. DOMAIN order = 1 .. Cardinality(mine)
    BY <1>4 DEF Lists
  <2> QED
    BY <2>1, <2>2 DEF ResultsOf
<1> QED
    BY <1>2, <1>4, <1>5 DEF mine

\* The counts of a case are of its rows.
LEMMA CaseSummaryIs ==
    ASSUME NEW saved, AreRows(saved), NEW c
    PROVE  LET summary == R!CaseSummary(AttemptsOf(saved, c))
               mine == RowsIn(saved, c) IN
           /\ summary.attempts = Cardinality(mine)
           /\ summary.passes = Cardinality(WithStatus(mine, "passed"))
           /\ summary.errors = Cardinality(WithStatus(mine, "error"))
           /\ summary.label = R!Label(summary.passes, summary.attempts)
<1> DEFINE mine == RowsIn(saved, c)
           attempts == AttemptsOf(saved, c)
           summary == R!CaseSummary(attempts)
<1>1. PICK order : Lists(order, mine) /\ attempts = ResultsOf(order) /\ AreRows(mine)
    BY AttemptsAre
<1>2. \A status : Cardinality({i \in DOMAIN attempts : attempts[i].status = status})
                    = Cardinality(WithStatus(mine, status))
    BY <1>1, StatusCounts
<1>3. Len(attempts) = Cardinality(mine)
  <2>1. DOMAIN attempts = 1 .. Cardinality(mine) /\ Cardinality(mine) \in Nat
    BY <1>1, FS_CardinalityType DEF ResultsOf, Lists, AreRows
  <2> QED
    BY <2>1
<1>4. /\ summary.passes = R!Cardinality({i \in DOMAIN attempts : attempts[i].status = "passed"})
      /\ summary.errors = R!Cardinality({i \in DOMAIN attempts : attempts[i].status = "error"})
      /\ summary.attempts = Len(attempts)
      /\ summary.label = R!Label(summary.passes, summary.attempts)
    BY DEF R!CaseSummary, R!Count
<1> QED
    BY <1>2, <1>3, <1>4, SameCardinality

\* The recursion by which MapThenSumSet adds w up over D.
SumStep(w, D, g) ==
    [s \in SUBSET D |-> IF s = {} THEN 0
                        ELSE w[CHOOSE x \in s : TRUE] + g[s \ {CHOOSE x \in s : TRUE}]]

SumOver(w, D) == CHOOSE g : g = SumStep(w, D, g)

Fibre(h, X, d) == {x \in X : h[x] = d}

\* Sets without a common element.
LEMMA DisjointUnion ==
    ASSUME NEW S, NEW T, IsFiniteSet(S), IsFiniteSet(T), S \cap T = {}
    PROVE  IsFiniteSet(S \cup T) /\ Cardinality(S \cup T) = Cardinality(S) + Cardinality(T)
<1>1. Cardinality(S) \in Nat /\ Cardinality(T) \in Nat /\ Cardinality(S \cap T) = 0
    BY FS_CardinalityType, FS_EmptySet
<1>2. /\ IsFiniteSet(S \cup T)
      /\ Cardinality(S \cup T) = Cardinality(S) + Cardinality(T) - Cardinality(S \cap T)
    BY FS_Union
<1> QED
    BY <1>1, <1>2

\* A sum over a finite set whose terms count the elements of disjoint sets, by
\* the recursion of MapThenSumSet.
LEMMA FoldCounts ==
    ASSUME NEW D, IsFiniteSet(D), NEW X, IsFiniteSet(X), NEW h \in [X -> D],
           NEW w, \A d \in D : w[d] = Cardinality(Fibre(h, X, d))
    PROVE  SumOver(w, D)[D] = Cardinality(X)
<1> DEFINE Some(s) == CHOOSE x \in s : TRUE
           Above(s) == {x \in X : h[x] \in s}
           G == [s \in SUBSET D |-> Cardinality(Above(s))]
<1>1. \A s \in SUBSET D : s # {} => Some(s) \in s
    OBVIOUS
<1>2. \A s : IsFiniteSet(Above(s)) /\ Cardinality(Above(s)) \in Nat
  <2> TAKE s
  <2>1. Above(s) \in SUBSET X
    OBVIOUS
  <2> QED
    BY <2>1, FS_Subset, FS_CardinalityType
<1> HIDE DEF Some
<1>3. \A s \in SUBSET D : G[s] = IF s = {} THEN 0 ELSE w[Some(s)] + G[s \ {Some(s)}]
  <2> TAKE s \in SUBSET D
  <2>1. CASE s = {}
    <3>1. Above(s) = {}
        BY <2>1
    <3> QED
        BY <2>1, <3>1, FS_EmptySet
  <2>2. CASE s # {}
    <3> DEFINE d == Some(s)
    <3>1. d \in s /\ d \in D
        BY <1>1, <2>2
    <3> HIDE DEF d
    <3>2. Above(s) = Above({d}) \cup Above(s \ {d}) /\ Above({d}) \cap Above(s \ {d}) = {}
        BY <3>1
    <3>3. Above({d}) = Fibre(h, X, d)
        BY DEF Fibre
    <3>4. w[d] = Cardinality(Above({d}))
        BY <3>1, <3>3
    <3> HIDE DEF Above
    <3>5. Cardinality(Above(s)) = w[d] + Cardinality(Above(s \ {d}))
        BY <1>2, <3>2, <3>4, DisjointUnion
    <3> QED
        BY <2>2, <3>5 DEF d
  <2> QED
    BY <2>1, <2>2
<1>4. G = SumStep(w, D, G)
    BY <1>3 DEF SumStep, Some
<1> DEFINE iter == SumOver(w, D)
<1> HIDE DEF G, iter
<1>6. iter = SumStep(w, D, iter)
    BY <1>4 DEF iter, SumOver
<1>7. \A s \in SUBSET D : iter[s] = G[s]
  <2> DEFINE T == {s \in SUBSET D : iter[s] # G[s]}
  <2> SUFFICES ASSUME T # {} PROVE FALSE
    OBVIOUS
  <2>1. IsWellFoundedOn(StrictSubsetOrdering(D), FiniteSubsetsOf(D)) /\ FiniteSubsetsOf(D) = SUBSET D
    BY FS_StrictSubsetOrderingWellFounded, FS_FiniteSubsetsOfFinite
  <2>2. T \subseteq SUBSET D
    OBVIOUS
  <2> HIDE DEF T
  <2>3. PICK s \in T : \A u \in T : <<u, s>> \notin StrictSubsetOrdering(D)
    BY <2>1, <2>2, WFMin
  <2>4. s \in SUBSET D /\ iter[s] # G[s]
    BY <2>3 DEF T
  <2>5. iter[s] = (IF s = {} THEN 0 ELSE w[Some(s)] + iter[s \ {Some(s)}])
    BY <1>6, <2>4 DEF SumStep, Some
  <2>6. s # {} /\ iter[s \ {Some(s)}] # G[s \ {Some(s)}]
    BY <1>3, <2>4, <2>5
  <2>7. s \ {Some(s)} \in T /\ Some(s) \in s
    BY <1>1, <2>4, <2>6 DEF T
  <2>8. <<s \ {Some(s)}, s>> \in StrictSubsetOrdering(D)
    BY <2>4, <2>7 DEF StrictSubsetOrdering
  <2> QED
    BY <2>3, <2>7, <2>8
<1>8. Above(D) = X
    OBVIOUS
<1> QED
    BY <1>7, <1>8 DEF G, iter

\* So does Sum.
LEMMA SumCounts ==
    ASSUME NEW D, IsFiniteSet(D), NEW X, IsFiniteSet(X), NEW h \in [X -> D],
           NEW w, DOMAIN w = D, \A d \in D : w[d] = Cardinality(Fibre(h, X, d))
    PROVE  R!Sum(w) = Cardinality(X)
<1>1. R!Sum(w) = SumOver(w, D)[D]
    BY DEF R!Sum, R!MapThenSumSet, R!MapThenFoldSet, SumOver, SumStep
<1>2. SumOver(w, D)[D] = Cardinality(X)
    BY FoldCounts
<1> QED
    BY <1>1, <1>2

\* The cost of all rows: each answered attempt costs one.
CostOf(saved) ==
    IF saved = {} \/ \E row \in saved : R!Rebuilt(row).cost = R!Unknown
    THEN R!Unknown
    ELSE Cardinality(saved)

\* The total of the results is that of their rows.
LEMMA TotalIs ==
    ASSUME NEW saved, AreRows(saved), NEW read, Lists(read, saved)
    PROVE  R!Total(ResultsOf(read)) = CostOf(saved)
<1> DEFINE attempts == ResultsOf(read)
           n == Cardinality(saved)
           costs == [i \in DOMAIN attempts |-> attempts[i].cost]
<1>1. n \in Nat /\ IsFiniteSet(1 .. n) /\ Cardinality(1 .. n) = n
    BY FS_CardinalityType, FS_Interval DEF AreRows
<1>2. /\ DOMAIN attempts = 1 .. n
      /\ \A i \in 1 .. n : read[i] \in saved /\ attempts[i] = R!Rebuilt(read[i])
    BY DEF ResultsOf, Lists
<1>3. attempts = <<>> <=> saved = {}
  <2>1. saved = {} <=> n = 0
    BY FS_EmptySet DEF AreRows
  <2>2. attempts = <<>> => n = 0
    BY <1>1, <1>2
  <2>3. n = 0 => attempts = <<>>
    BY <1>2 DEF ResultsOf
  <2> QED
    BY <2>1, <2>2, <2>3
<1>4. (\E i \in DOMAIN attempts : attempts[i].cost = R!Unknown)
        <=> \E row \in saved : R!Rebuilt(row).cost = R!Unknown
    BY <1>2 DEF Lists
<1>5. ASSUME ~\E row \in saved : R!Rebuilt(row).cost = R!Unknown
      PROVE  R!Sum(costs) = n
  <2> DEFINE h == [i \in 1 .. n |-> i]
  <2>1. DOMAIN costs = 1 .. n /\ \A i \in 1 .. n : costs[i] = 1
    BY <1>2, <1>5 DEF AreRows, IsRow
  <2>2. ASSUME NEW d \in 1 .. n PROVE Cardinality(Fibre(h, 1 .. n, d)) = 1
    <3>1. Fibre(h, 1 .. n, d) = {d}
        BY DEF Fibre
    <3> QED
        BY <3>1, FS_Singleton
  <2>3. h \in [1 .. n -> 1 .. n]
    OBVIOUS
  <2> HIDE DEF h, costs
  <2> QED
    BY <1>1, <2>1, <2>2, <2>3, SumCounts
<1>6. R!Total(attempts) = IF attempts = <<>> \/ \E i \in DOMAIN attempts : attempts[i].cost = R!Unknown
                          THEN R!Unknown ELSE R!Sum(costs)
    BY DEF R!Total
<1> QED
    BY <1>3, <1>4, <1>5, <1>6 DEF CostOf

\* What becomes of an attempt, and the row that is saved of it.
LEMMA RowOfExecuted ==
    ASSUME NEW c, NEW n, NEW expect, NEW r \in R!Executed(c, n, expect)
    PROVE  LET row == R!RowOf(r) IN
           /\ r.case = c /\ r.attempt = n
           /\ row.case = c /\ row.attempt = n
           /\ c \in R!Cases /\ n \in 0 .. RecordRuns - 1 => IsRow(row)
<1> DEFINE row == R!RowOf(r)
<1>1. PICK status, error, response, js :
         /\ status \in {"passed", "failed", "error"}
         /\ response \in {R!NoResponse, R!BadResponse} \cup R!Answers(c)
         /\ r = R!AttemptResult(c, n, status, error, response, js)
  <2>1. \A v : R!StatusOf(v) \in {"passed", "failed", "error"}
    BY DEF R!StatusOf
  <2> QED
    BY <2>1 DEF R!Executed
<1>2. PICK kind, steps : response = [kind |-> kind, steps |-> steps]
  <2>1. \A answer \in R!Answers(c) : \E kind, steps : answer = [kind |-> kind, steps |-> steps]
    BY DEF R!Answers
  <2>2. \A answer \in {R!NoResponse, R!BadResponse} :
            \E kind, steps : answer = [kind |-> kind, steps |-> steps]
    BY DEF R!NoResponse, R!BadResponse
  <2> QED
    BY <1>1, <2>1, <2>2
<1>3. PICK cost \in {R!Unknown, 1} :
         r = [case |-> c, attempt |-> n, status |-> status, error |-> error,
              response |-> [kind |-> kind, steps |-> steps], judgments |-> js, cost |-> cost]
    BY <1>1, <1>2 DEF R!AttemptResult
<1>4. /\ row.case = c /\ row.attempt = n /\ row.status = status
      /\ row.detail = [r EXCEPT !.response.steps = <<>>]
    BY <1>3 DEF R!RowOf
<1>5. row.detail = [case |-> c, attempt |-> n, status |-> status, error |-> error,
                    response |-> [kind |-> kind, steps |-> <<>>], judgments |-> js, cost |-> cost]
    BY <1>3, <1>4
<1> HIDE DEF row
<1>6. /\ R!Rebuilt(row).case = c /\ R!Rebuilt(row).attempt = n
      /\ R!Rebuilt(row).status = status /\ R!Rebuilt(row).cost = cost
    BY <1>5 DEF R!Rebuilt
<1> QED
    BY <1>1, <1>3, <1>4, <1>6 DEF IsRow, row

-----------------------------------------------------------------------------
(* A summary is of all rows of its run (RunRecord)                         *)

\* What a summary says of a case.
SummaryOf(saved, c) == R!CaseSummary(AttemptsOf(saved, c))

CaseRowOf(summary, consistency) == R!CaseRow([summary |-> summary, consistency |-> consistency])

Summed ==
    /\ DOMAIN cases = CasesOf(rows)
    /\ \A c \in CasesOf(rows) : \E verdicts : cases[c] = CaseRowOf(SummaryOf(rows, c), verdicts)

\* A job's results have the rows to be, where their cases are the suite's.
UploadFits ==
    /\ IsFiniteSet(upload)
    /\ \A r \in upload :
          /\ R!RowOf(r).case = r.case /\ R!RowOf(r).attempt = r.attempt
          /\ r.case \in R!Cases => IsRow(R!RowOf(r))
    /\ \A r, q \in upload : r.case = q.case /\ r.attempt = q.attempt => r = q

\* A run has no summary while it runs; from the first one on its rows are what
\* they are, so a summary is of all of them.
RunFits ==
    /\ DOMAIN run = {"status", "cost"}
    /\ run.status \in {"running", "none", "completed", "cancelled", "gone"}
    /\ run.status \in {"none", "gone"} => rows = {} /\ cases = <<>>
    /\ run.status = "running" => cases = <<>>
    /\ cases = <<>> \/ Summed
    /\ run.status = "completed" => Summed /\ run.cost = CostOf(rows)

\* The parts of a shared page.
ShownCases(saved) ==
    [c \in CasesOf(saved) |->
        [label |-> SummaryOf(saved, c).label, passes |-> SummaryOf(saved, c).passes,
         attempts |-> SummaryOf(saved, c).attempts]]

ShownResult(row) ==
    [case |-> row.case, attempt |-> row.attempt, status |-> row.status,
     error_kind |-> row.error_kind, judgments |-> row.judgments]

ListedResult(row) == [case |-> row.case, attempt |-> row.attempt, status |-> row.status]

Over(status) == status = "completed" => run.status \in {"completed", "gone"}

\* Between its queries a shared page shows no summary, or that of a run whose
\* rows have stopped changing.
SharedFits ==
    page.kind = "shared" =>
    /\ DOMAIN page = {"kind", "status", "todo", "cases", "results"}
    /\ page.todo \in {<<"cases", "results">>, <<"results">>, <<>>}
    /\ Over(page.status)
    /\ run.status # "gone" /\ page.todo # <<"cases", "results">> =>
          \/ DOMAIN page.cases = {} /\ page.status # "completed"
          \/ run.status # "running" /\ page.cases = ShownCases(rows)
    /\ run.status # "gone" /\ page.todo = <<>> => page.results = {ShownResult(row) : row \in rows}

ListFits ==
    page.kind = "results" =>
    /\ page.todo = <<>>
    /\ page.results = {ListedResult(row) : row \in rows}
    /\ \A c \in DOMAIN page.labels :
          c \in CasesOf(rows) /\ page.labels[c] = SummaryOf(rows, c).label

ExportFits ==
    page.kind = "export" =>
    /\ DOMAIN page = {"kind", "status", "todo", "rows"}
    /\ page.todo \in {<<"attempts">>, <<>>}
    /\ Over(page.status)
    /\ page.todo = <<>> => page.rows = rows

PageFits ==
    /\ "kind" \in DOMAIN page
    /\ page.kind # "closed" => run.status # "none"
    /\ SharedFits /\ ListFits /\ ExportFits

SummaryInv == AreRows(rows) /\ UploadFits /\ RunFits /\ PageFits

LEMMA SummaryInit == R!Init => SummaryInv
<1> SUFFICES ASSUME R!Init PROVE SummaryInv
    OBVIOUS
<1>1. /\ \E cost : \E status \in {"running", "none"} : run = [status |-> status, cost |-> cost]
      /\ rows = {} /\ cases = <<>> /\ upload = {} /\ page = [kind |-> "closed"]
    BY DEF R!Init, R!NoPage
<1>2. AreRows(rows) /\ UploadFits
    BY <1>1, FS_EmptySet DEF AreRows, UploadFits
<1>3. RunFits
    BY <1>1 DEF RunFits
<1>4. PageFits
    BY <1>1 DEF PageFits, SharedFits, ListFits, ExportFits
<1> QED
    BY <1>2, <1>3, <1>4 DEF SummaryInv

\* A page that is still being read stays true while its run goes on.
LEMMA PageWaits ==
    ASSUME SummaryInv, ~R!Shown, page' = page,
           run.status # "none", run.status' # "none",
           run.status = "gone" => run'.status = "gone",
           run.status = "completed" => run'.status \in {"completed", "gone"},
           run.status # "running" => run'.status # "running",
           run'.status = "gone" \/ run.status = "running" \/ rows' = rows
    PROVE  PageFits'
<1>1. "kind" \in DOMAIN page /\ SharedFits /\ ListFits /\ ExportFits
    BY DEF SummaryInv, PageFits
<1>2. page.kind # "closed" => page.todo # <<>>
    BY DEF R!Shown
<1>3. SharedFits'
    BY <1>1, <1>2 DEF SharedFits, Over
<1>4. ListFits'
    BY <1>1, <1>2 DEF ListFits
<1>5. ExportFits'
    BY <1>1, <1>2 DEF ExportFits, Over
<1> QED
    BY <1>1, <1>3, <1>4, <1>5 DEF PageFits

\* A job's page is closed.
LEMMA PageClosed ==
    ASSUME SummaryInv, page' = page, run.status = "none"
    PROVE  PageFits'
    BY DEF SummaryInv, PageFits, SharedFits, ListFits, ExportFits

LEMMA SaveAttemptKeeps == SummaryInv /\ R!SaveAttempt => SummaryInv'
<1> SUFFICES ASSUME SummaryInv, R!SaveAttempt PROVE SummaryInv'
    OBVIOUS
<1>0. AreRows(rows) /\ UploadFits /\ RunFits
    BY DEF SummaryInv
<1>1. /\ run.status = "running" /\ ~R!Shown
      /\ run' = run /\ cases' = cases /\ upload' = upload /\ page' = page
    BY DEF R!SaveAttempt
<1>2. PICK planned \in R!Plan \ R!SavedPairs :
         \E result \in R!Executed(planned[1], planned[2], Expect[planned[1]]) :
            rows' = rows \cup {R!RowOf(result)}
    BY DEF R!SaveAttempt
<1> PICK result \in R!Executed(planned[1], planned[2], Expect[planned[1]]) :
        rows' = rows \cup {R!RowOf(result)}
    BY <1>2
<1> DEFINE row == R!RowOf(result)
<1>3. planned[1] \in R!Cases /\ planned[2] \in 0 .. RecordRuns - 1 /\ planned = <<planned[1], planned[2]>>
    BY DEF R!Plan
<1>4. IsRow(row) /\ row.case = planned[1] /\ row.attempt = planned[2]
    BY <1>3, RowOfExecuted
<1>5. \A v \in rows : ~(v.case = row.case /\ v.attempt = row.attempt)
    BY <1>2, <1>3, <1>4 DEF R!SavedPairs
<1>6. AreRows(rows')
  <2>1. IsFiniteSet(rows \cup {row})
    BY <1>0, FS_AddElement DEF AreRows
  <2> HIDE DEF row
  <2> QED
    BY <1>0, <1>2, <1>4, <1>5, <2>1 DEF AreRows, row
<1>7. UploadFits'
    BY <1>0, <1>1 DEF UploadFits
<1>8. RunFits'
    BY <1>0, <1>1 DEF RunFits
<1>9. PageFits'
    BY <1>1, PageWaits
<1> QED
    BY <1>6, <1>7, <1>8, <1>9 DEF SummaryInv

\* What finalize_run writes of some rows.
LEMMA Written ==
    ASSUME NEW saved, AreRows(saved), NEW results \in R!ReadAttempts(saved), NEW llm
    PROVE  LET summary == R!FinalizeRun(results, llm)
               written == R!CaseRows(summary) IN
           /\ DOMAIN written = CasesOf(saved)
           /\ \A c \in CasesOf(saved) :
                 \E verdicts : written[c] = CaseRowOf(SummaryOf(saved, c), verdicts)
           /\ summary.cost = CostOf(saved)
<1> DEFINE summary == R!FinalizeRun(results, llm)
           written == R!CaseRows(summary)
<1>1. PICK read : Lists(read, saved) /\ results = ResultsOf(read)
    BY ReadsAre
<1>2. /\ DOMAIN summary.cases = CasesOf(saved)
      /\ \A c \in CasesOf(saved) : summary.cases[c].summary = SummaryOf(saved, c)
      /\ summary.cost = CostOf(saved)
    BY <1>1, SummaryIs, TotalIs DEF SummaryOf
<1> HIDE DEF summary
<1>3. written = [c \in DOMAIN summary.cases |-> R!CaseRow(summary.cases[c])]
    BY DEF R!CaseRows
<1>4. \A result : R!CaseRow(result) = CaseRowOf(result.summary, result.consistency)
    BY DEF R!CaseRow, CaseRowOf
<1> HIDE DEF written
<1> QED
    BY <1>2, <1>3, <1>4 DEF summary, written

LEMMA SaveSummaryKeeps == SummaryInv /\ R!SaveSummary => SummaryInv'
<1> SUFFICES ASSUME SummaryInv, R!SaveSummary PROVE SummaryInv'
    OBVIOUS
<1>0. AreRows(rows) /\ UploadFits /\ RunFits
    BY DEF SummaryInv
<1>1. /\ run.status \in {"running", "completed", "cancelled"} /\ ~R!Shown
      /\ rows' = rows /\ upload' = upload /\ page' = page
    BY DEF R!SaveSummary
<1>2. PICK results \in R!ReadAttempts(rows) :
         LET summary == R!FinalizeRun(results, TRUE) IN
         /\ cases' = R!CaseRows(summary)
         /\ run' = [status |-> IF run.status = "running" THEN "completed" ELSE run.status,
                    cost   |-> summary.cost]
    BY DEF R!SaveSummary
<1>3. /\ DOMAIN cases' = CasesOf(rows)
      /\ \A c \in CasesOf(rows) : \E verdicts : cases'[c] = CaseRowOf(SummaryOf(rows, c), verdicts)
      /\ run' = [status |-> IF run.status = "running" THEN "completed" ELSE run.status,
                 cost   |-> CostOf(rows)]
  <2> DEFINE summary == R!FinalizeRun(results, TRUE)
             written == R!CaseRows(summary)
  <2>1. /\ DOMAIN written = CasesOf(rows)
        /\ \A c \in CasesOf(rows) : \E verdicts : written[c] = CaseRowOf(SummaryOf(rows, c), verdicts)
        /\ summary.cost = CostOf(rows)
    BY <1>0, Written
  <2>2. /\ cases' = written
        /\ run' = [status |-> IF run.status = "running" THEN "completed" ELSE run.status,
                   cost   |-> summary.cost]
    BY <1>2
  <2> HIDE DEF summary, written
  <2> QED
    BY <2>1, <2>2
<1>4. Summed'
    BY <1>1, <1>3 DEF Summed
<1>5. RunFits'
    BY <1>1, <1>3, <1>4 DEF RunFits
<1>6. AreRows(rows') /\ UploadFits'
    BY <1>0, <1>1 DEF UploadFits
<1>7. PageFits'
    BY <1>1, <1>3, PageWaits
<1> QED
    BY <1>5, <1>6, <1>7 DEF SummaryInv

LEMMA CancelKeeps == SummaryInv /\ R!CancelRun => SummaryInv'
<1> SUFFICES ASSUME SummaryInv, R!CancelRun PROVE SummaryInv'
    OBVIOUS
<1>0. AreRows(rows) /\ UploadFits /\ RunFits
    BY DEF SummaryInv
<1>1. /\ run.status = "running" /\ ~R!Shown /\ run' = [run EXCEPT !.status = "cancelled"]
      /\ rows' = rows /\ cases' = cases /\ upload' = upload /\ page' = page
    BY DEF R!CancelRun
<1>2. run'.status = "cancelled" /\ DOMAIN run' = {"status", "cost"}
    BY <1>0, <1>1 DEF RunFits
<1>3. RunFits'
    BY <1>0, <1>1, <1>2 DEF RunFits
<1>4. AreRows(rows') /\ UploadFits'
    BY <1>0, <1>1 DEF UploadFits
<1>5. PageFits'
    BY <1>1, <1>2, PageWaits
<1> QED
    BY <1>3, <1>4, <1>5 DEF SummaryInv

LEMMA DeleteKeeps == SummaryInv /\ R!DeleteRun => SummaryInv'
<1> SUFFICES ASSUME SummaryInv, R!DeleteRun PROVE SummaryInv'
    OBVIOUS
<1>0. UploadFits /\ RunFits
    BY DEF SummaryInv
<1>1. /\ run.status \notin {"none", "gone"} /\ ~R!Shown
      /\ run' = [status |-> "gone", cost |-> R!Unknown]
      /\ rows' = {} /\ cases' = <<>> /\ upload' = upload /\ page' = page
    BY DEF R!DeleteRun
<1>2. RunFits'
    BY <1>1 DEF RunFits
<1>3. AreRows(rows') /\ UploadFits'
    BY <1>0, <1>1, FS_EmptySet DEF UploadFits, AreRows
<1>4. PageFits'
    BY <1>1, PageWaits
<1> QED
    BY <1>2, <1>3, <1>4 DEF SummaryInv

LEMMA CiAttemptKeeps == SummaryInv /\ R!CiAttempt => SummaryInv'
<1> SUFFICES ASSUME SummaryInv, R!CiAttempt PROVE SummaryInv'
    OBVIOUS
<1>0. AreRows(rows) /\ UploadFits /\ RunFits
    BY DEF SummaryInv
<1>1. run.status = "none" /\ run' = run /\ rows' = rows /\ cases' = cases /\ page' = page
    BY DEF R!CiAttempt
<1>2. PICK c \in DOMAIN RanExpect, n \in 0 .. RecordRuns - 1 :
         /\ \A r \in upload : <<r.case, r.attempt>> # <<c, n>>
         /\ \E result \in R!Executed(c, n, RanExpect[c]) : upload' = upload \cup {result}
    BY DEF R!CiAttempt
<1> PICK result \in R!Executed(c, n, RanExpect[c]) : upload' = upload \cup {result}
    BY <1>2
<1>3. /\ result.case = c /\ result.attempt = n
      /\ R!RowOf(result).case = c /\ R!RowOf(result).attempt = n
      /\ c \in R!Cases => IsRow(R!RowOf(result))
    BY RowOfExecuted
<1>4. IsFiniteSet(upload')
    BY <1>0, <1>2, FS_AddElement DEF UploadFits
<1>5. UploadFits'
    BY <1>0, <1>2, <1>3, <1>4 DEF UploadFits
<1>6. RunFits' /\ AreRows(rows')
    BY <1>0, <1>1 DEF RunFits
<1>7. PageFits'
    BY <1>1, PageClosed
<1> QED
    BY <1>5, <1>6, <1>7 DEF SummaryInv

LEMMA CiReportKeeps == SummaryInv /\ R!CiReport => SummaryInv'
<1> SUFFICES ASSUME SummaryInv, R!CiReport PROVE SummaryInv'
    OBVIOUS
<1>0. UploadFits
    BY DEF SummaryInv
<1>1. /\ run.status = "none" /\ R!InPlan(upload) /\ upload' = {} /\ page' = page
      /\ rows' = {R!RowOf(r) : r \in upload}
    BY DEF R!CiReport, R!InsertResults
<1>2. PICK results \in R!ReadAttempts(rows') : R!InsertSummary(R!FinalizeRun(results, FALSE))
    BY DEF R!CiReport
<1>3. AreRows(rows')
  <2>1. \A r \in upload : R!RowOf(r).case = r.case /\ R!RowOf(r).attempt = r.attempt /\ IsRow(R!RowOf(r))
    BY <1>0, <1>1 DEF UploadFits, R!InPlan, R!Plan
  <2>2. IsFiniteSet(rows')
    <3> DEFINE f == [r \in upload |-> R!RowOf(r)]
    <3>1. /\ \A r \in upload : f[r] \in rows'
          /\ \A row \in rows' : \E r \in upload : f[r] = row
        BY <1>1
    <3>2. \A r, q \in upload : f[r] = f[q] => r = q
        BY <1>0, <2>1 DEF UploadFits
    <3>3. IsFiniteSet(upload) /\ DOMAIN f = upload
        BY <1>0 DEF UploadFits
    <3> HIDE DEF f
    <3> QED
        BY <3>1, <3>2, <3>3, ImageCount
  <2> QED
    BY <1>0, <1>1, <2>1, <2>2 DEF AreRows, UploadFits
<1>4. /\ DOMAIN cases' = CasesOf(rows')
      /\ \A c \in CasesOf(rows') : \E verdicts : cases'[c] = CaseRowOf(SummaryOf(rows', c), verdicts)
      /\ run' = [status |-> "completed", cost |-> CostOf(rows')]
  <2> DEFINE summary == R!FinalizeRun(results, FALSE)
             written == R!CaseRows(summary)
             saved == rows'
  <2>1. /\ DOMAIN written = CasesOf(saved)
        /\ \A c \in CasesOf(saved) : \E verdicts : written[c] = CaseRowOf(SummaryOf(saved, c), verdicts)
        /\ summary.cost = CostOf(saved)
    BY <1>2, <1>3, Written
  <2>2. cases' = written /\ run' = [status |-> "completed", cost |-> summary.cost]
    BY <1>2 DEF R!InsertSummary
  <2> HIDE DEF summary, written
  <2> QED
    BY <2>1, <2>2
<1>5. RunFits'
    BY <1>4 DEF RunFits, Summed
<1>6. UploadFits'
    BY <1>1, FS_EmptySet DEF UploadFits
<1>7. PageFits'
    BY <1>1, PageClosed
<1> QED
    BY <1>3, <1>5, <1>6, <1>7 DEF SummaryInv

\* A reader's step changes the page only.
LEMMA ReaderKeeps ==
    ASSUME SummaryInv, UNCHANGED <<run, rows, cases, upload>>, PageFits'
    PROVE  SummaryInv'
<1>1. AreRows(rows') /\ UploadFits'
    BY DEF SummaryInv, UploadFits
<1>2. RunFits'
    BY DEF SummaryInv, RunFits, Summed
<1> QED
    BY <1>1, <1>2 DEF SummaryInv

LEMMA ShownOfSummed ==
    ASSUME Summed
    PROVE  /\ [c \in DOMAIN cases |->
                  [label |-> cases[c].label, passes |-> cases[c].passes,
                   attempts |-> cases[c].attempts]] = ShownCases(rows)
           /\ \A c \in DOMAIN cases : c \in CasesOf(rows) /\ cases[c].label = SummaryOf(rows, c).label
<1>1. DOMAIN cases = CasesOf(rows)
    BY DEF Summed
<1>2. ASSUME NEW c \in CasesOf(rows)
      PROVE  /\ cases[c].label = SummaryOf(rows, c).label
             /\ cases[c].passes = SummaryOf(rows, c).passes
             /\ cases[c].attempts = SummaryOf(rows, c).attempts
  <2>1. PICK verdicts : cases[c] = CaseRowOf(SummaryOf(rows, c), verdicts)
    BY DEF Summed
  <2> QED
    BY <2>1 DEF CaseRowOf, R!CaseRow
<1> QED
    BY <1>1, <1>2 DEF ShownCases

LEMMA SharedKeeps ==
    SummaryInv /\ (R!FindSharedRun \/ R!SharedCases \/ R!SharedResults) => SummaryInv'
<1> SUFFICES ASSUME SummaryInv, R!FindSharedRun \/ R!SharedCases \/ R!SharedResults
             PROVE  SummaryInv'
    OBVIOUS
<1>0. UNCHANGED <<run, rows, cases, upload>> /\ RunFits /\ PageFits
    BY DEF R!FindSharedRun, R!SharedCases, R!SharedResults, SummaryInv
<1>1. CASE R!FindSharedRun
  <2>1. /\ run.status \notin {"none", "gone"}
        /\ page' = [kind |-> "shared", status |-> run.status, todo |-> <<"cases", "results">>,
                    cases |-> <<>>, results |-> {}]
    BY <1>1 DEF R!FindSharedRun, R!Stored, R!SharedQueries
  <2>2. /\ DOMAIN page' = {"kind", "status", "todo", "cases", "results"}
        /\ page'.kind = "shared" /\ page'.status = run.status /\ page'.todo = <<"cases", "results">>
    BY <2>1
  <2>3. page'.todo # <<>>
    BY <2>2
  <2>4. PageFits'
    BY <1>0, <2>1, <2>2, <2>3 DEF PageFits, SharedFits, ListFits, ExportFits, Over
  <2> QED
    BY <1>0, <2>4, ReaderKeeps
<1>2. CASE R!SharedCases
  <2> DEFINE shown == [c \in DOMAIN cases |->
                          [label |-> cases[c].label, passes |-> cases[c].passes,
                           attempts |-> cases[c].attempts]]
  <2>1. /\ page.kind = "shared" /\ page.todo # <<>> /\ Head(page.todo) = "cases"
        /\ page' = [page EXCEPT !.todo = Tail(page.todo), !.cases = shown]
    BY <1>2 DEF R!SharedCases
  <2>2. page.todo = <<"cases", "results">>
    BY <1>0, <2>1 DEF PageFits, SharedFits
  <2>3. DOMAIN shown = {} \/ (run.status # "running" /\ shown = ShownCases(rows))
    <3>1. CASE cases = <<>>
        BY <3>1
    <3>2. CASE cases # <<>>
        BY <1>0, <3>2, ShownOfSummed DEF RunFits
    <3> QED
        BY <3>1, <3>2
  <2>4. page.status = "completed" /\ run.status # "gone" =>
            run.status # "running" /\ shown = ShownCases(rows)
    BY <1>0, <2>1, ShownOfSummed DEF RunFits, PageFits, SharedFits, Over
  <2> HIDE DEF shown
  <2>5. /\ DOMAIN page' = {"kind", "status", "todo", "cases", "results"}
        /\ page'.kind = "shared" /\ page'.status = page.status /\ page'.todo = <<"results">>
        /\ page'.cases = shown
    BY <1>0, <2>1, <2>2 DEF PageFits, SharedFits
  <2>6. page'.todo # <<>>
    BY <2>5
  <2>7. PageFits'
    BY <1>0, <2>1, <2>3, <2>4, <2>5, <2>6 DEF PageFits, SharedFits, ListFits, ExportFits, Over
  <2> QED
    BY <1>0, <2>7, ReaderKeeps
<1>3. CASE R!SharedResults
  <2> DEFINE results == {ShownResult(row) : row \in rows}
  <2>1. /\ page.kind = "shared" /\ page.todo # <<>> /\ Head(page.todo) = "results"
        /\ page' = [page EXCEPT !.todo = Tail(page.todo), !.results = results]
    BY <1>3 DEF R!SharedResults, ShownResult
  <2>2. page.todo = <<"results">>
    BY <1>0, <2>1 DEF PageFits, SharedFits
  <2> HIDE DEF results
  <2>3. /\ DOMAIN page' = {"kind", "status", "todo", "cases", "results"}
        /\ page'.kind = "shared" /\ page'.status = page.status /\ page'.todo = <<>>
        /\ page'.cases = page.cases /\ page'.results = results
    BY <1>0, <2>1, <2>2 DEF PageFits, SharedFits
  <2>4. page.todo # <<"cases", "results">>
    BY <2>2
  <2>5. PageFits'
    BY <1>0, <2>1, <2>3, <2>4 DEF PageFits, SharedFits, ListFits, ExportFits, Over, results
  <2> QED
    BY <1>0, <2>5, ReaderKeeps
<1> QED
    BY <1>1, <1>2, <1>3

LEMMA ListKeeps == SummaryInv /\ R!ListResults => SummaryInv'
<1> SUFFICES ASSUME SummaryInv, R!ListResults PROVE SummaryInv'
    OBVIOUS
<1>0. UNCHANGED <<run, rows, cases, upload>> /\ RunFits
    BY DEF R!ListResults, SummaryInv
<1> DEFINE labels == [c \in DOMAIN cases |-> cases[c].label]
           results == {ListedResult(row) : row \in rows}
<1>1. /\ run.status \notin {"none", "gone"}
      /\ page' = [kind |-> "results", todo |-> <<>>, labels |-> labels, results |-> results]
    BY DEF R!ListResults, R!Stored, R!Labels, ListedResult
<1>2. \A c \in DOMAIN labels : c \in CasesOf(rows) /\ labels[c] = SummaryOf(rows, c).label
    BY <1>0, ShownOfSummed DEF RunFits
<1> HIDE DEF labels, results
<1>3. /\ "kind" \in DOMAIN page' /\ page'.kind = "results" /\ page'.todo = <<>>
      /\ page'.labels = labels /\ page'.results = results
    BY <1>1
<1>4. PageFits'
    BY <1>0, <1>1, <1>2, <1>3 DEF PageFits, SharedFits, ListFits, ExportFits, results
<1> QED
    BY <1>0, <1>4, ReaderKeeps

LEMMA ExportKeeps == SummaryInv /\ (R!OpenExport \/ R!ReadSummary) => SummaryInv'
<1> SUFFICES ASSUME SummaryInv, R!OpenExport \/ R!ReadSummary PROVE SummaryInv'
    OBVIOUS
<1>0. UNCHANGED <<run, rows, cases, upload>> /\ PageFits
    BY DEF R!OpenExport, R!ReadSummary, SummaryInv
<1>1. CASE R!OpenExport
  <2>1. /\ run.status \notin {"none", "gone"}
        /\ page' = [kind |-> "export", status |-> run.status, todo |-> <<"attempts">>, rows |-> {}]
    BY <1>1 DEF R!OpenExport, R!Stored
  <2>2. /\ DOMAIN page' = {"kind", "status", "todo", "rows"}
        /\ page'.kind = "export" /\ page'.status = run.status /\ page'.todo = <<"attempts">>
    BY <2>1
  <2>3. page'.todo # <<>>
    BY <2>2
  <2>4. PageFits'
    BY <1>0, <2>1, <2>2, <2>3 DEF PageFits, SharedFits, ListFits, ExportFits, Over
  <2> QED
    BY <1>0, <2>4, ReaderKeeps
<1>2. CASE R!ReadSummary
  <2>1. page.kind = "export" /\ page' = [page EXCEPT !.todo = <<>>, !.rows = rows]
    BY <1>2 DEF R!ReadSummary
  <2>2. /\ DOMAIN page' = {"kind", "status", "todo", "rows"}
        /\ page'.kind = "export" /\ page'.status = page.status /\ page'.todo = <<>>
        /\ page'.rows = rows
    BY <1>0, <2>1 DEF PageFits, ExportFits
  <2>3. PageFits'
    BY <1>0, <2>1, <2>2 DEF PageFits, SharedFits, ListFits, ExportFits, Over
  <2> QED
    BY <1>0, <2>3, ReaderKeeps
<1> QED
    BY <1>1, <1>2

LEMMA TraceKeeps == SummaryInv /\ (R!GetTrace \/ R!ClosePage) => SummaryInv'
<1> SUFFICES ASSUME SummaryInv, R!GetTrace \/ R!ClosePage PROVE SummaryInv'
    OBVIOUS
<1>0. UNCHANGED <<run, rows, cases, upload>> /\ RunFits
    BY DEF R!GetTrace, R!ClosePage, SummaryInv
<1>1. CASE R!GetTrace
  <2>1. "kind" \in DOMAIN page' /\ page'.kind = "trace"
    BY <1>1 DEF R!GetTrace
  <2>2. rows # {}
    BY <1>1 DEF R!GetTrace, R!SavedPairs
  <2>3. PageFits'
    BY <1>0, <2>1, <2>2 DEF RunFits, PageFits, SharedFits, ListFits, ExportFits
  <2> QED
    BY <1>0, <2>3, ReaderKeeps
<1>2. CASE R!ClosePage
  <2>1. "kind" \in DOMAIN page' /\ page'.kind = "closed"
    BY <1>2 DEF R!ClosePage, R!NoPage
  <2>2. PageFits'
    BY <2>1 DEF PageFits, SharedFits, ListFits, ExportFits
  <2> QED
    BY <1>0, <2>2, ReaderKeeps
<1> QED
    BY <1>1, <1>2

LEMMA SummaryNext == SummaryInv /\ [MCNext]_<<part, vars, clusterVars, recordVars>> => SummaryInv'
<1> SUFFICES ASSUME SummaryInv, [MCNext]_<<part, vars, clusterVars, recordVars>>
             PROVE  SummaryInv'
    OBVIOUS
<1>1. CASE UNCHANGED recordVars
  <2>1. UNCHANGED <<run, rows, cases, upload, page>>
    BY <1>1 DEF recordVars
  <2>2. PageFits'
    BY <2>1 DEF SummaryInv, PageFits, SharedFits, ListFits, ExportFits, Over
  <2> QED
    BY <2>1, <2>2, ReaderKeeps
<1>2. CASE R!Next
    BY <1>2, SaveAttemptKeeps, CancelKeeps, SaveSummaryKeeps, DeleteKeeps, CiAttemptKeeps,
       CiReportKeeps, SharedKeeps, ListKeeps, ExportKeeps, TraceKeeps DEF R!Next
<1> QED
    BY <1>1, <1>2 DEF MCNext, recordVars

-----------------------------------------------------------------------------
(* The pages of a run (RunRecord)                                          *)

\* The results of a page, each of a row of its own, are as many as the rows.
LEMMA PageCounts ==
    ASSUME NEW saved, AreRows(saved), NEW p, DOMAIN p = saved,
           \A row \in saved : /\ p[row].case = row.case /\ p[row].attempt = row.attempt
                              /\ p[row].status = row.status,
           NEW results, \A row \in saved : p[row] \in results,
           \A r \in results : \E row \in saved : p[row] = r,
           NEW c
    PROVE  /\ R!Cardinality(RowsIn(results, c)) = Cardinality(RowsIn(saved, c))
           /\ R!Cardinality(WithStatus(RowsIn(results, c), "passed"))
                = Cardinality(WithStatus(RowsIn(saved, c), "passed"))
<1> DEFINE of == RowsIn(results, c)
           mine == RowsIn(saved, c)
           good == WithStatus(mine, "passed")
           f == [row \in mine |-> p[row]]
           g == [row \in good |-> p[row]]
           passed == WithStatus(of, "passed")
<1>1. mine \subseteq saved /\ good \subseteq mine
    BY DEF RowsIn, WithStatus
<1>2. IsFiniteSet(mine) /\ IsFiniteSet(good)
    BY <1>1, FS_Subset DEF AreRows
<1>3. (\A row \in mine : f[row] \in of) /\ (\A r \in of : \E row \in mine : f[row] = r)
    BY DEF RowsIn
<1>4. (\A row \in good : g[row] \in passed) /\ (\A r \in passed : \E row \in good : g[row] = r)
    BY DEF RowsIn, WithStatus
<1>5. \A v, w \in saved : p[v] = p[w] => v = w
    BY DEF AreRows
<1>6. /\ DOMAIN f = mine /\ \A v, w \in mine : f[v] = f[w] => v = w
      /\ DOMAIN g = good /\ \A v, w \in good : g[v] = g[w] => v = w
    BY <1>1, <1>5
<1> HIDE DEF f, g, of, passed, mine, good
<1>7. Cardinality(of) = Cardinality(mine)
    BY <1>2, <1>3, <1>6, ImageCount
<1>8. Cardinality(passed) = Cardinality(good)
    BY <1>2, <1>4, <1>6, ImageCount
<1> QED
    BY <1>7, <1>8, SameCardinality DEF of, passed, mine, good

LEMMA SharedIsWhole ==
    ASSUME SummaryInv, R!Shown, run.status # "gone", page.kind = "shared"
    PROVE  R!PagesAreWhole
<1>1. AreRows(rows) /\ SharedFits /\ page.todo = <<>>
    BY DEF SummaryInv, PageFits, R!Shown
<1>2. /\ page.results = {ShownResult(row) : row \in rows}
      /\ \/ DOMAIN page.cases = {} /\ page.status # "completed"
         \/ page.cases = ShownCases(rows)
    BY <1>1 DEF SharedFits
<1> DEFINE of(c) == {r \in page.results : r.case = c}
           passed(c) == R!Cardinality({r \in of(c) : r.status = "passed"})
<1>3. ASSUME NEW c \in DOMAIN page.cases
      PROVE  page.cases[c].attempts = R!Cardinality(of(c)) /\ page.cases[c].passes = passed(c)
  <2> DEFINE p == [row \in rows |-> ShownResult(row)]
             mine == RowsIn(rows, c)
  <2>1. /\ DOMAIN p = rows /\ \A row \in rows : p[row] \in page.results
        /\ \A r \in page.results : \E row \in rows : p[row] = r
        /\ \A row \in rows : /\ p[row].case = row.case /\ p[row].attempt = row.attempt
                             /\ p[row].status = row.status
    BY <1>2 DEF ShownResult
  <2> HIDE DEF p
  <2>2. /\ R!Cardinality(of(c)) = Cardinality(mine)
        /\ passed(c) = Cardinality(WithStatus(mine, "passed"))
    <3>1. /\ R!Cardinality(RowsIn(page.results, c)) = Cardinality(mine)
          /\ R!Cardinality(WithStatus(RowsIn(page.results, c), "passed"))
                = Cardinality(WithStatus(mine, "passed"))
        BY <1>1, <2>1, PageCounts
    <3>2. of(c) = RowsIn(page.results, c)
          /\ {r \in of(c) : r.status = "passed"} = WithStatus(RowsIn(page.results, c), "passed")
        BY DEF RowsIn, WithStatus
    <3> HIDE DEF of, mine
    <3> QED
        BY <3>1, <3>2
  <2>3. page.cases[c].attempts = SummaryOf(rows, c).attempts
        /\ page.cases[c].passes = SummaryOf(rows, c).passes
    BY <1>2, <1>3 DEF ShownCases
  <2>4. /\ SummaryOf(rows, c).attempts = Cardinality(mine)
        /\ SummaryOf(rows, c).passes = Cardinality(WithStatus(mine, "passed"))
    BY <1>1, CaseSummaryIs DEF SummaryOf
  <2> QED
    BY <2>2, <2>3, <2>4
<1>4. DOMAIN page.cases # {} \/ page.status = "completed" =>
          \A r \in page.results : r.case \in DOMAIN page.cases
    BY <1>2 DEF ShownCases, CasesOf, ShownResult
<1> QED
    BY <1>3, <1>4 DEF R!PagesAreWhole

LEMMA ListIsWhole ==
    ASSUME SummaryInv, page.kind = "results"
    PROVE  R!PagesAreWhole
<1>1. AreRows(rows) /\ ListFits
    BY DEF SummaryInv, PageFits
<1>2. /\ page.results = {ListedResult(row) : row \in rows}
      /\ \A c \in DOMAIN page.labels :
            c \in CasesOf(rows) /\ page.labels[c] = SummaryOf(rows, c).label
    BY <1>1 DEF ListFits
<1> DEFINE of(c) == {r \in page.results : r.case = c}
           passed(c) == R!Cardinality({r \in of(c) : r.status = "passed"})
<1>3. ASSUME NEW c \in DOMAIN page.labels
      PROVE  page.labels[c] = R!Label(passed(c), R!Cardinality(of(c)))
  <2> DEFINE p == [row \in rows |-> ListedResult(row)]
             mine == RowsIn(rows, c)
  <2>1. /\ DOMAIN p = rows /\ \A row \in rows : p[row] \in page.results
        /\ \A r \in page.results : \E row \in rows : p[row] = r
        /\ \A row \in rows : /\ p[row].case = row.case /\ p[row].attempt = row.attempt
                             /\ p[row].status = row.status
    BY <1>2 DEF ListedResult
  <2> HIDE DEF p
  <2>2. /\ R!Cardinality(of(c)) = Cardinality(mine)
        /\ passed(c) = Cardinality(WithStatus(mine, "passed"))
    <3>1. /\ R!Cardinality(RowsIn(page.results, c)) = Cardinality(mine)
          /\ R!Cardinality(WithStatus(RowsIn(page.results, c), "passed"))
                = Cardinality(WithStatus(mine, "passed"))
        BY <1>1, <2>1, PageCounts
    <3>2. of(c) = RowsIn(page.results, c)
          /\ {r \in of(c) : r.status = "passed"} = WithStatus(RowsIn(page.results, c), "passed")
        BY DEF RowsIn, WithStatus
    <3> HIDE DEF of, mine
    <3> QED
        BY <3>1, <3>2
  <2>3. SummaryOf(rows, c).label =
            R!Label(Cardinality(WithStatus(mine, "passed")), Cardinality(mine))
    BY <1>1, CaseSummaryIs DEF SummaryOf
  <2> QED
    BY <1>2, <2>2, <2>3
<1> QED
    BY <1>3 DEF R!PagesAreWhole

\* For any number of cases and attempts and whatever is saved, cancelled,
\* summarized or deleted between a reader's queries, each case of a shared page
\* is shown with all of its attempts, and each listed label is earned by the
\* results listed with it.
THEOREM PagesCorrect == MCSpec => []PagesAreWhole
<1>1. MCInit => SummaryInv
    BY SummaryInit DEF MCInit
<1>2. SummaryInv => PagesAreWhole
  <2> SUFFICES ASSUME SummaryInv PROVE R!PagesAreWhole
    BY DEF PagesAreWhole
  <2>1. CASE page.kind = "shared" /\ R!Shown /\ run.status # "gone"
    BY <2>1, SharedIsWhole
  <2>2. CASE page.kind = "results"
    BY <2>2, ListIsWhole
  <2>3. CASE page.kind \notin {"shared", "results"} \/ ~(R!Shown /\ run.status # "gone")
    BY <2>3 DEF R!PagesAreWhole
  <2> QED
    BY <2>1, <2>2, <2>3
<1> QED
    BY <1>1, <1>2, SummaryNext, PTL DEF MCSpec

-----------------------------------------------------------------------------
(* The export of a run (RunRecord)                                         *)

\* The sorted results of a summary are the results of all rows, too.
LEMMA SummarySorts ==
    ASSUME NEW saved, AreRows(saved), NEW read, Lists(read, saved), NEW llm
    PROVE  \E again : /\ Lists(again, saved)
                      /\ R!FinalizeRun(ResultsOf(read), llm).results = ResultsOf(again)
<1> DEFINE n == Cardinality(saved)
           results == ResultsOf(read)
           positions == DOMAIN results
           before == {p \in positions \X positions : R!Earlier(results[p[1]], results[p[2]])}
           order == R!Ordered(positions, before)
           again == [k \in 1 .. n |-> read[order[k]]]
<1>1. n \in Nat /\ IsFiniteSet(1 .. n) /\ Cardinality(1 .. n) = n
    BY FS_CardinalityType, FS_Interval DEF AreRows
<1>2. /\ positions = 1 .. n
      /\ \A i \in 1 .. n : /\ read[i] \in saved /\ results[i] = R!Rebuilt(read[i])
                           /\ results[i].case = read[i].case
                           /\ results[i].attempt = read[i].attempt
                           /\ results[i].case \in Int /\ results[i].attempt \in Int
    BY DEF ResultsOf, Lists, AreRows, IsRow, R!Cases
<1>3. \A i, j \in positions : <<i, j>> \in before <=>
          \/ results[i].case < results[j].case
          \/ results[i].case = results[j].case /\ results[i].attempt < results[j].attempt
    BY DEF R!Earlier
<1>4. \A i, j \in positions :
          results[i].case = results[j].case /\ results[i].attempt = results[j].attempt => i = j
    BY <1>2 DEF AreRows, Lists
<1>5. R!FinalizeRun(results, llm).results = [k \in DOMAIN order |-> results[order[k]]]
    BY DEF R!FinalizeRun
<1> HIDE DEF before, results, positions, n
<1>6. IsStrictOrder(before, positions)
  <2>1. \A i \in positions : results[i].case \in Int /\ results[i].attempt \in Int
    BY <1>2
  <2>2. \A i \in positions : <<i, i>> \notin before
    BY <1>3, <2>1
  <2>3. \A i, j \in positions : i # j => <<i, j>> \in before \/ <<j, i>> \in before
    BY <1>3, <1>4, <2>1
  <2>4. \A i, j, k \in positions :
            <<i, j>> \in before /\ <<j, k>> \in before => <<i, k>> \in before
    BY <1>3, <2>1
  <2> QED
    BY <2>2, <2>3, <2>4 DEF IsStrictOrder
<1>7. /\ order \in [1 .. n -> 1 .. n]
      /\ \A i \in 1 .. n : \E k \in 1 .. n : order[k] = i
      /\ \A i, j \in 1 .. n : order[i] = order[j] => i = j
  <2>1. IsFiniteSet(positions) /\ Cardinality(positions) = n
    BY <1>1, <1>2
  <2>2. LET m == Cardinality(positions) IN
        /\ order \in [1 .. m -> positions]
        /\ \A x \in positions : \E k \in 1 .. m : order[k] = x
        /\ \A i, j \in 1 .. m : order[i] = order[j] => i = j
    BY <1>6, <2>1, OrderedIs
  <2> HIDE DEF order
  <2> QED
    BY <1>2, <2>1, <2>2
<1> HIDE DEF order
<1>8. Lists(again, saved)
  <2>1. /\ read \in [1 .. n -> saved]
        /\ \A row \in saved : \E i \in 1 .. n : read[i] = row
        /\ \A i, j \in 1 .. n : read[i] = read[j] => i = j
    BY DEF Lists, n
  <2>2. again \in [1 .. n -> saved]
    BY <1>7, <2>1
  <2>3. \A row \in saved : \E k \in 1 .. n : again[k] = row
    BY <1>7, <2>1
  <2>4. \A i, j \in 1 .. n : again[i] = again[j] => i = j
    BY <1>7, <2>1
  <2> QED
    BY <2>2, <2>3, <2>4 DEF Lists, n
<1>9. R!FinalizeRun(results, llm).results = ResultsOf(again)
    BY <1>2, <1>5, <1>7 DEF ResultsOf
<1> QED
    BY <1>8, <1>9 DEF results

\* The counts of a summary are of the rows.
LEMMA CountsAre ==
    ASSUME NEW saved, AreRows(saved), NEW read, Lists(read, saved), NEW llm
    PROVE  LET summary == R!FinalizeRun(ResultsOf(read), llm)
               html == R!RenderHtml(summary) IN
           /\ html.passed = Cardinality(WithStatus(saved, "passed"))
           /\ html.errors = Cardinality(WithStatus(saved, "error"))
<1> DEFINE results == ResultsOf(read)
           summary == R!FinalizeRun(results, llm)
           html == R!RenderHtml(summary)
           N(status) == Cardinality(WithStatus(saved, status))
<1>1. PICK again : Lists(again, saved) /\ summary.results = ResultsOf(again)
    BY SummarySorts
<1>2. /\ summary.attempts = Len(results)
      /\ summary.errors = R!Cardinality({i \in DOMAIN results : results[i].status = "error"})
    BY DEF R!FinalizeRun, R!Count
<1>3. summary.errors = N("error")
    BY <1>2, StatusCounts, SameCardinality
<1>4. Len(results) = Cardinality(saved) /\ Cardinality(saved) \in Nat
  <2>1. DOMAIN results = 1 .. Cardinality(saved) /\ Cardinality(saved) \in Nat
    BY FS_CardinalityType DEF ResultsOf, Lists, AreRows
  <2> QED
    BY <2>1
<1>5. Cardinality({i \in DOMAIN summary.results : summary.results[i].status = "failed"}) = N("failed")
    BY <1>1, StatusCounts
<1>6. Cardinality(saved) = N("passed") + N("failed") + N("error")
  <2> DEFINE P == WithStatus(saved, "passed")
             F1 == WithStatus(saved, "failed")
             E == WithStatus(saved, "error")
  <2>1. IsFiniteSet(saved) /\ P \subseteq saved /\ F1 \subseteq saved /\ E \subseteq saved
    BY DEF AreRows, WithStatus
  <2>2. saved = (P \cup F1) \cup E /\ (P \cup F1) \cap E = {} /\ P \cap F1 = {}
    BY DEF AreRows, IsRow, WithStatus
  <2> HIDE DEF P, F1, E
  <2>3. IsFiniteSet(P) /\ IsFiniteSet(F1) /\ IsFiniteSet(E)
    BY <2>1, FS_Subset
  <2>4. IsFiniteSet(P \cup F1) /\ Cardinality(P \cup F1) = Cardinality(P) + Cardinality(F1)
    BY <2>2, <2>3, DisjointUnion
  <2>5. Cardinality((P \cup F1) \cup E) = Cardinality(P \cup F1) + Cardinality(E)
    BY <2>2, <2>3, <2>4, DisjointUnion
  <2> QED
    BY <2>2, <2>4, <2>5 DEF P, F1, E
<1>7. N("passed") \in Nat /\ N("failed") \in Nat /\ N("error") \in Nat
  <2>1. \A status : WithStatus(saved, status) \subseteq saved
    BY DEF WithStatus
  <2> QED
    BY <2>1, FS_Subset, FS_CardinalityType DEF AreRows
<1> HIDE DEF summary
<1>8. /\ html.errors = summary.errors
      /\ html.passed = summary.attempts
            - R!Cardinality({i \in DOMAIN summary.results : summary.results[i].status = "failed"})
            - summary.errors
    BY DEF R!RenderHtml, R!Count
<1> HIDE DEF html, N, results
<1>9. html.errors = N("error") /\ html.passed = Cardinality(saved) - N("failed") - N("error")
    BY <1>2, <1>3, <1>4, <1>5, <1>8, SameCardinality
<1>10. html.passed = N("passed")
    BY <1>6, <1>7, <1>9
<1> QED
    BY <1>9, <1>10 DEF html, N, results, summary

LEMMA CasesAreFinite ==
    ASSUME NEW saved, AreRows(saved)
    PROVE  IsFiniteSet(CasesOf(saved))
<1> DEFINE D == CasesOf(saved)
           f == [row \in saved |-> row.case]
<1>1. f \in Surjection(saved, D)
    BY DEF CasesOf, Surjection
<1>2. IsFiniteSet(saved)
    BY DEF AreRows
<1> HIDE DEF f, D
<1> QED
    BY <1>1, <1>2, FS_Surjection DEF D

\* The attempts of a status, case by case.
LEMMA SumOfCases ==
    ASSUME NEW saved, AreRows(saved), NEW status, NEW w, DOMAIN w = CasesOf(saved),
           \A c \in CasesOf(saved) : w[c] = Cardinality(WithStatus(RowsIn(saved, c), status))
    PROVE  R!Sum(w) = Cardinality(WithStatus(saved, status))
<1> DEFINE D == CasesOf(saved)
           X == WithStatus(saved, status)
           h == [row \in X |-> row.case]
<1>1. IsFiniteSet(X)
    BY FS_Subset DEF WithStatus, AreRows
<1>2. IsFiniteSet(D)
    BY CasesAreFinite
<1>3. h \in [X -> D]
    BY DEF WithStatus, CasesOf
<1>4. \A c \in D : WithStatus(RowsIn(saved, c), status) = Fibre(h, X, c)
    BY DEF WithStatus, RowsIn, Fibre
<1>5. \A c \in D : w[c] = Cardinality(Fibre(h, X, c))
    BY <1>4
<1> HIDE DEF D, X, h
<1>6. DOMAIN w = D
    BY DEF D
<1> QED
    BY <1>1, <1>2, <1>3, <1>5, <1>6, SumCounts DEF X

LEMMA LabelIs == \A passes, attempts : R!Label(passes, attempts) \in {"stable-pass", "flaky", "stable-fail"}
    BY DEF R!Label

\* The bars of the page count every case once.
LEMMA BarsAre ==
    ASSUME NEW saved, AreRows(saved), NEW read, Lists(read, saved), NEW llm
    PROVE  R!Sum(R!RenderHtml(R!FinalizeRun(ResultsOf(read), llm)).bars) = R!Cardinality(CasesOf(saved))
<1> DEFINE summary == R!FinalizeRun(ResultsOf(read), llm)
           labels == {"stable-pass", "flaky", "stable-fail"}
           X == CasesOf(saved)
           h == [c \in X |-> summary.cases[c].summary.label]
           bars == R!RenderHtml(summary).bars
<1>1. bars = [label \in labels |->
                 R!Cardinality({c \in DOMAIN summary.cases : summary.cases[c].summary.label = label})]
    BY DEF R!RenderHtml, R!Stability
<1>2. /\ DOMAIN summary.cases = X
      /\ \A c \in X : summary.cases[c].summary = R!CaseSummary(AttemptsOf(saved, c))
    BY SummaryIs
<1> HIDE DEF summary, X, bars
<1>3. h \in [X -> labels]
  <2>1. \A c : R!CaseSummary(AttemptsOf(saved, c)).label \in labels
    BY CaseSummaryIs, LabelIs
  <2> QED
    BY <1>2, <2>1
<1>4. \A label \in labels : bars[label] = Cardinality(Fibre(h, X, label))
  <2> TAKE label \in labels
  <2>1. {c \in DOMAIN summary.cases : summary.cases[c].summary.label = label} = Fibre(h, X, label)
    BY <1>2 DEF Fibre
  <2> QED
    BY <1>1, <2>1, SameCardinality
<1>5. IsFiniteSet(labels)
  <2>1. IsFiniteSet({"stable-pass"})
    BY FS_Singleton
  <2>2. IsFiniteSet({"stable-pass"} \cup {"flaky"})
    BY <2>1, FS_AddElement
  <2>3. IsFiniteSet(({"stable-pass"} \cup {"flaky"}) \cup {"stable-fail"})
    BY <2>2, FS_AddElement
  <2>4. labels = ({"stable-pass"} \cup {"flaky"}) \cup {"stable-fail"}
    OBVIOUS
  <2> QED
    BY <2>3, <2>4
<1>6. IsFiniteSet(X)
    BY CasesAreFinite DEF X
<1>7. DOMAIN bars = labels
    BY <1>1
<1> HIDE DEF labels, h
<1> QED
    BY <1>3, <1>4, <1>5, <1>6, <1>7, SumCounts, SameCardinality DEF bars, summary, X

\* The strip of a case has a mark for each attempt.
LEMMA StripIs ==
    ASSUME NEW saved, AreRows(saved), NEW read, Lists(read, saved), NEW c
    PROVE  LET strip == R!Strip(ResultsOf(read), c)
               summary == SummaryOf(saved, c) IN
           /\ R!Cardinality({i \in DOMAIN strip : strip[i] = "p"}) = summary.passes
           /\ Len(strip) = summary.attempts
<1> DEFINE attempts == AttemptsOf(saved, c)
           mine == RowsIn(saved, c)
           marks == [passed |-> "p", failed |-> "f", error |-> "e"]
           strip == R!Strip(ResultsOf(read), c)
           m == Cardinality(mine)
<1>1. R!OfCase(ResultsOf(read), c) = attempts
    BY OfCaseIs
<1>2. PICK order : Lists(order, mine) /\ attempts = ResultsOf(order) /\ AreRows(mine)
    BY AttemptsAre
<1>3. m \in Nat
    BY <1>2, FS_CardinalityType DEF AreRows
<1>4. /\ DOMAIN attempts = 1 .. m
      /\ \A i \in 1 .. m : attempts[i].status \in {"passed", "failed", "error"}
    BY <1>2 DEF ResultsOf, Lists, AreRows, IsRow
<1> HIDE DEF attempts, mine, m
<1>5. strip = [i \in 1 .. m |-> marks[attempts[i].status]]
    BY <1>1, <1>4 DEF R!Strip
<1>6. {i \in DOMAIN strip : strip[i] = "p"} = {i \in DOMAIN attempts : attempts[i].status = "passed"}
  <2>1. \A i \in 1 .. m : strip[i] = "p" <=> attempts[i].status = "passed"
    BY <1>4, <1>5
  <2>2. DOMAIN strip = 1 .. m
    BY <1>5
  <2> HIDE DEF strip
  <2> QED
    BY <1>4, <2>1, <2>2
<1>7. Len(strip) = m /\ Len(attempts) = m
    BY <1>3, <1>4, <1>5
<1>8. /\ SummaryOf(saved, c).passes =
            R!Cardinality({i \in DOMAIN attempts : attempts[i].status = "passed"})
      /\ SummaryOf(saved, c).attempts = Len(attempts)
    BY DEF SummaryOf, R!CaseSummary, R!Count, attempts
<1> QED
    BY <1>6, <1>7, <1>8

\* Two summaries of one record differ in the consistency verdicts alone.
LEMMA SameCaseRow ==
    ASSUME NEW S, NEW v, NEW w
    PROVE  [CaseRowOf(S, v) EXCEPT !.consistency = CaseRowOf(S, w).consistency] = CaseRowOf(S, w)
    BY DEF CaseRowOf, R!CaseRow

\* What the export says of the rows it reads.
Repeats(summary, html, saved) ==
    /\ DOMAIN summary.cases = CasesOf(saved)
    /\ \A c \in CasesOf(saved) :
          /\ R!CaseRow(summary.cases[c])
               = CaseRowOf(SummaryOf(saved, c), summary.cases[c].consistency)
          /\ summary.cases[c].failures.attempts = R!Failures(AttemptsOf(saved, c))
          /\ R!Cardinality({i \in DOMAIN html.strips[c] : html.strips[c][i] = "p"})
               = SummaryOf(saved, c).passes
          /\ Len(html.strips[c]) = SummaryOf(saved, c).attempts
    /\ summary.cost = CostOf(saved)
    /\ html.passed = Cardinality(WithStatus(saved, "passed"))
    /\ html.errors = Cardinality(WithStatus(saved, "error"))
    /\ R!Sum(html.bars) = R!Cardinality(CasesOf(saved))

\* It says so whatever order it gets them in, with an LLM or without.
LEMMA ExportReads ==
    ASSUME NEW saved, AreRows(saved), NEW results \in R!ReadAttempts(saved), NEW llm
    PROVE  LET summary == R!FinalizeRun(results, llm)
               html    == R!RenderHtml(summary) IN
           Repeats(summary, html, saved)
<1> DEFINE summary == R!FinalizeRun(results, llm)
           html    == R!RenderHtml(summary)
<1>1. PICK read : Lists(read, saved) /\ results = ResultsOf(read)
    BY ReadsAre
<1>2. /\ DOMAIN summary.cases = CasesOf(saved)
      /\ \A c \in CasesOf(saved) :
            /\ summary.cases[c].summary = SummaryOf(saved, c)
            /\ summary.cases[c].failures.attempts = R!Failures(AttemptsOf(saved, c))
      /\ summary.cost = CostOf(saved)
    BY <1>1, SummaryIs, TotalIs DEF SummaryOf
<1>3. html.passed = Cardinality(WithStatus(saved, "passed"))
      /\ html.errors = Cardinality(WithStatus(saved, "error"))
    BY <1>1, CountsAre
<1>4. R!Sum(html.bars) = R!Cardinality(CasesOf(saved))
    BY <1>1, BarsAre
<1>5. PICK again : Lists(again, saved) /\ summary.results = ResultsOf(again)
    BY <1>1, SummarySorts
<1>6. html.strips = [c \in DOMAIN summary.cases |-> R!Strip(summary.results, c)]
    BY DEF R!RenderHtml
<1>7. \A c : LET strip == R!Strip(ResultsOf(again), c) IN
          /\ R!Cardinality({i \in DOMAIN strip : strip[i] = "p"}) = SummaryOf(saved, c).passes
          /\ Len(strip) = SummaryOf(saved, c).attempts
    BY <1>5, StripIs
<1>8. \A result : R!CaseRow(result) = CaseRowOf(result.summary, result.consistency)
    BY DEF R!CaseRow, CaseRowOf
<1> HIDE DEF summary, html
<1>9. \A c \in CasesOf(saved) : html.strips[c] = R!Strip(ResultsOf(again), c)
    BY <1>2, <1>5, <1>6
<1> QED
    BY <1>2, <1>3, <1>4, <1>7, <1>8, <1>9 DEF Repeats, summary, html

\* The case rows of a record whose summary is written.
LEMMA CasesMean ==
    ASSUME Summed
    PROVE  /\ DOMAIN cases = CasesOf(rows)
           /\ \A c \in CasesOf(rows) :
                 /\ cases[c].passes = SummaryOf(rows, c).passes
                 /\ cases[c].errors = SummaryOf(rows, c).errors
                 /\ cases[c].attempts = SummaryOf(rows, c).attempts
                 /\ \A w : [CaseRowOf(SummaryOf(rows, c), w)
                               EXCEPT !.consistency = cases[c].consistency] = cases[c]
<1>1. /\ DOMAIN cases = CasesOf(rows)
      /\ \A c \in CasesOf(rows) : \E v : cases[c] = CaseRowOf(SummaryOf(rows, c), v)
    BY DEF Summed
<1>2. ASSUME NEW c \in CasesOf(rows)
      PROVE  /\ cases[c].passes = SummaryOf(rows, c).passes
             /\ cases[c].errors = SummaryOf(rows, c).errors
             /\ cases[c].attempts = SummaryOf(rows, c).attempts
             /\ \A w : [CaseRowOf(SummaryOf(rows, c), w)
                           EXCEPT !.consistency = cases[c].consistency] = cases[c]
  <2>1. PICK v : cases[c] = CaseRowOf(SummaryOf(rows, c), v)
    BY <1>1, <1>2
  <2> QED
    BY <2>1, SameCaseRow DEF CaseRowOf, R!CaseRow
<1> QED
    BY <1>1, <1>2

LEMMA ExportMeans == SummaryInv => R!ExportIsTheRecord
<1> SUFFICES ASSUME SummaryInv, R!Shown, page.kind = "export", page.status = "completed",
                    run.status # "gone"
             PROVE  R!ExportIsTheRecord
    BY DEF R!ExportIsTheRecord
<1>1. /\ AreRows(rows) /\ page.rows = rows /\ Summed /\ run.cost = CostOf(rows)
    BY DEF SummaryInv, PageFits, ExportFits, R!Shown, Over, RunFits
<1>2. /\ DOMAIN cases = CasesOf(rows)
      /\ \A c \in CasesOf(rows) :
            /\ cases[c].passes = SummaryOf(rows, c).passes
            /\ cases[c].errors = SummaryOf(rows, c).errors
            /\ cases[c].attempts = SummaryOf(rows, c).attempts
            /\ \A w : [CaseRowOf(SummaryOf(rows, c), w)
                          EXCEPT !.consistency = cases[c].consistency] = cases[c]
    BY <1>1, CasesMean
<1>3. /\ R!Sum([c \in DOMAIN cases |-> cases[c].passes]) = Cardinality(WithStatus(rows, "passed"))
      /\ R!Sum([c \in DOMAIN cases |-> cases[c].errors]) = Cardinality(WithStatus(rows, "error"))
  <2> DEFINE passes == [c \in DOMAIN cases |-> cases[c].passes]
             errors == [c \in DOMAIN cases |-> cases[c].errors]
  <2>1. \A c : /\ SummaryOf(rows, c).passes = Cardinality(WithStatus(RowsIn(rows, c), "passed"))
               /\ SummaryOf(rows, c).errors = Cardinality(WithStatus(RowsIn(rows, c), "error"))
    BY <1>1, CaseSummaryIs DEF SummaryOf
  <2>2. DOMAIN passes = CasesOf(rows) /\ \A c \in CasesOf(rows) :
            passes[c] = Cardinality(WithStatus(RowsIn(rows, c), "passed"))
    BY <1>2, <2>1
  <2>3. DOMAIN errors = CasesOf(rows) /\ \A c \in CasesOf(rows) :
            errors[c] = Cardinality(WithStatus(RowsIn(rows, c), "error"))
    BY <1>2, <2>1
  <2> HIDE DEF passes, errors
  <2>4. R!Sum(passes) = Cardinality(WithStatus(rows, "passed"))
    BY <1>1, <2>2, SumOfCases
  <2>5. R!Sum(errors) = Cardinality(WithStatus(rows, "error"))
    BY <1>1, <2>3, SumOfCases
  <2> QED
    BY <2>4, <2>5 DEF passes, errors
<1> DEFINE reference == R!FinalizeRun(CHOOSE r \in R!ReadAttempts(page.rows) : TRUE, TRUE)
<1>4. ASSUME NEW results \in R!ReadAttempts(page.rows)
      PROVE  /\ DOMAIN reference.cases = CasesOf(rows)
             /\ \A c \in CasesOf(rows) :
                   reference.cases[c].failures.attempts = R!Failures(AttemptsOf(rows, c))
  <2> DEFINE chosen == CHOOSE r \in R!ReadAttempts(page.rows) : TRUE
  <2>1. chosen \in R!ReadAttempts(rows)
    BY <1>1, <1>4
  <2> HIDE DEF chosen
  <2>2. LET made == R!FinalizeRun(chosen, TRUE) IN Repeats(made, R!RenderHtml(made), rows)
    BY <1>1, <2>1, ExportReads
  <2> QED
    BY <2>2 DEF Repeats, chosen
<1>5. ASSUME NEW results \in R!ReadAttempts(page.rows)
      PROVE  LET summary == R!FinalizeRun(results, FALSE)
             IN Repeats(summary, R!RenderHtml(summary), rows)
  <2>1. results \in R!ReadAttempts(rows)
    BY <1>1, <1>5
  <2> QED
    BY <1>1, <2>1, ExportReads
<1> DEFINE Reasons(summary) == [c \in DOMAIN summary.cases |-> summary.cases[c].failures.attempts]
           Marks(strip, mark) == R!Count(strip, LAMBDA m : m = mark)
<1>6. \A strip : Marks(strip, "p") = R!Cardinality({i \in DOMAIN strip : strip[i] = "p"})
    BY DEF R!Count
<1> HIDE DEF reference, Marks
<1>7. ASSUME NEW results \in R!ReadAttempts(page.rows)
      PROVE  LET summary == R!FinalizeRun(results, FALSE)
                 html    == R!RenderHtml(summary)
             IN /\ DOMAIN summary.cases = DOMAIN cases
                /\ \A c \in DOMAIN cases :
                      [R!CaseRow(summary.cases[c]) EXCEPT !.consistency = cases[c].consistency] = cases[c]
                /\ summary.cost = run.cost
                /\ Reasons(summary) = Reasons(reference)
                /\ html.passed = R!Sum([c \in DOMAIN cases |-> cases[c].passes])
                /\ html.errors = R!Sum([c \in DOMAIN cases |-> cases[c].errors])
                /\ R!Sum(html.bars) = R!Cardinality(DOMAIN cases)
                /\ \A c \in DOMAIN cases :
                      /\ Marks(html.strips[c], "p") = cases[c].passes
                      /\ Len(html.strips[c]) = cases[c].attempts
  <2> DEFINE summary == R!FinalizeRun(results, FALSE)
             html    == R!RenderHtml(summary)
  <2>1. Repeats(summary, html, rows)
    BY <1>5, <1>7
  <2>2. Reasons(summary) = Reasons(reference)
    <3> HIDE DEF summary, html
    <3> QED
        BY <1>4, <1>7, <2>1 DEF Repeats
  <2> HIDE DEF summary, html, Reasons
  <2>3. ASSUME NEW c \in CasesOf(rows)
        PROVE  [R!CaseRow(summary.cases[c]) EXCEPT !.consistency = cases[c].consistency] = cases[c]
    <3>1. R!CaseRow(summary.cases[c])
            = CaseRowOf(SummaryOf(rows, c), summary.cases[c].consistency)
        BY <2>1, <2>3 DEF Repeats
    <3> QED
        BY <1>2, <2>3, <3>1
  <2>4. ASSUME NEW c \in CasesOf(rows)
        PROVE  /\ Marks(html.strips[c], "p") = cases[c].passes
               /\ Len(html.strips[c]) = cases[c].attempts
    <3>1. /\ R!Cardinality({i \in DOMAIN html.strips[c] : html.strips[c][i] = "p"})
               = SummaryOf(rows, c).passes
          /\ Len(html.strips[c]) = SummaryOf(rows, c).attempts
        BY <2>1, <2>4 DEF Repeats
    <3>2. Marks(html.strips[c], "p")
            = R!Cardinality({i \in DOMAIN html.strips[c] : html.strips[c][i] = "p"})
        BY <1>6
    <3> QED
        BY <1>2, <2>4, <3>1, <3>2
  <2> QED
    BY <1>1, <1>2, <1>3, <2>1, <2>2, <2>3, <2>4 DEF Repeats, summary, html
<1> QED
    BY <1>7 DEF R!ExportIsTheRecord, reference, Marks

\* For any number of cases and attempts and whatever order the database keeps
\* the rows in, the export of a completed run repeats the summary that was
\* written when the run ended, and its page agrees with itself.
THEOREM ExportCorrect == MCSpec => []ExportIsTheRecord
<1>1. MCInit => SummaryInv
    BY SummaryInit DEF MCInit
<1>2. SummaryInv => ExportIsTheRecord
    BY ExportMeans DEF ExportIsTheRecord
<1> QED
    BY <1>1, <1>2, SummaryNext, PTL DEF MCSpec
-----------------------------------------------------------------------------
(* The database under migration (Schema): its rows                         *)

RunRows ==
    [id : 1 .. MaxRuns, suite : Suites, agent : Agents \cup {None}, name : Names \cup {None}]

BaselineRows ==
    [id : Identities, branch : Branches, run : 1 .. MaxRuns, suite : Suites \cup {None},
     agent : Agents \cup {None}, name : Names \cup {None}]

RowsTypeOK ==
    /\ revision \in 0 .. 5 /\ code \in 0 .. revision
    /\ keys \in BOOLEAN /\ stranded \in BOOLEAN
    /\ IsFiniteSet(runs) /\ runs \subseteq RunRows
    /\ baselines \subseteq BaselineRows
    /\ version \in [Suites -> Nat]

RunsHaveOneAgent == \A q \in runs : DB!OneIsSet(q)

IdsAreUnique ==
    /\ \A r, q \in runs : r.id = q.id => r = q
    /\ \A b, o \in baselines : b.id = o.id => b = o

\* What a baseline repeats of its run, at a revision.
Copies(b, r) ==
    IF revision >= 4 THEN b.suite = r.suite /\ b.agent = r.agent /\ b.name = r.name
                     ELSE b.suite = None /\ b.agent = None /\ b.name = None

RunsAreThere == \A b \in baselines : \E r \in runs : r.id = b.run /\ Copies(b, r)

\* Before 0004 there are registered agents only, and one baseline to a branch.
KeysAreUnique ==
    IF revision >= 4 THEN DB!IsUnique(baselines, DB!NewKey)
    ELSE DB!IsUnique(baselines, DB!OldKey) /\ \A r \in runs : r.name = None

\* The tables that revisions 2 and 3 suppose are empty.
EmptyBelow ==
    /\ revision < 2 /\ ~stranded => ~keys
    /\ revision < 3 /\ ~stranded => runs = {}
    /\ revision = 0 => ~keys /\ runs = {}

VersionsAreKept ==
    revision = 5 => \A s \in Suites \ overtaken : <<s, version[s]>> \in versions

RowsInv ==
    /\ RowsTypeOK /\ RunsHaveOneAgent /\ IdsAreUnique /\ RunsAreThere
    /\ KeysAreUnique /\ EmptyBelow /\ VersionsAreKept

LEMMA RowsInit == DB!Init => RowsInv
<1> SUFFICES ASSUME DB!Init PROVE RowsInv
    OBVIOUS
<1>1. IsFiniteSet({})
    BY FS_EmptySet
<1>2. RowsTypeOK
  <2>1. revision \in 0 .. 5 /\ code \in 0 .. revision
    BY DEF DB!Init
  <2>2. keys \in BOOLEAN /\ stranded \in BOOLEAN
    BY DEF DB!Init
  <2>3. IsFiniteSet(runs) /\ runs \subseteq RunRows /\ baselines \subseteq BaselineRows
    BY <1>1 DEF DB!Init
  <2>4. version \in [Suites -> Nat]
    BY DEF DB!Init
  <2> QED
    BY <2>1, <2>2, <2>3, <2>4 DEF RowsTypeOK
<1>3. RunsHaveOneAgent /\ IdsAreUnique /\ RunsAreThere
    BY DEF DB!Init, RunsHaveOneAgent, IdsAreUnique, RunsAreThere
<1>4. KeysAreUnique /\ EmptyBelow /\ VersionsAreKept
    BY DEF DB!Init, KeysAreUnique, EmptyBelow, VersionsAreKept, DB!IsUnique
<1> QED
    BY <1>2, <1>3, <1>4 DEF RowsInv

\* The run of a baseline is the one that has its id.
LEMMA RunOfIs ==
    ASSUME IdsAreUnique, NEW b \in baselines, NEW r \in runs, r.id = b.run
    PROVE  DB!RunOf(b) = r
    BY DEF DB!RunOf, IdsAreUnique

\* The backfill of 0004 finds every baseline's run.
LEMMA BackfilledIs ==
    ASSUME RowsInv, revision = 3, NEW b \in baselines
    PROVE  /\ DB!Backfilled(b) \in BaselineRows
           /\ DB!Backfilled(b).id = b.id /\ DB!Backfilled(b).branch = b.branch
           /\ \E r \in runs : /\ r.id = DB!Backfilled(b).run
                              /\ DB!Backfilled(b).suite = r.suite
                              /\ DB!Backfilled(b).agent = r.agent
                              /\ DB!Backfilled(b).name = r.name
<1>1. PICK r \in runs : r.id = b.run /\ b.name = None
    BY DEF RowsInv, RunsAreThere, Copies
<1>2. DB!RunOf(b) = r
    BY <1>1, RunOfIs DEF RowsInv
<1>3. b \in BaselineRows /\ r \in RunRows /\ r.name = None
    BY DEF RowsInv, RowsTypeOK, KeysAreUnique
<1>4. DB!Backfilled(b) = [b EXCEPT !.suite = r.suite, !.agent = r.agent]
    BY <1>2 DEF DB!Backfilled
<1> QED
    BY <1>1, <1>3, <1>4 DEF BaselineRows, RunRows

LEMMA UpgradeRows == RowsInv /\ DB!Upgrade => RowsInv'
<1> SUFFICES ASSUME RowsInv, DB!Upgrade PROVE RowsInv'
    OBVIOUS
<1>1. /\ revision \in 0 .. 4 /\ revision' = revision + 1 /\ DB!AcceptsUpgrade(revision + 1)
      /\ baselines' = DB!UpgradedBaselines(revision + 1)
      /\ versions' = DB!UpgradedVersions(revision + 1)
      /\ UNCHANGED <<code, keys, agents, runs, version, overtaken, stranded>>
    BY DEF DB!Upgrade, DB!Newest, RowsInv, RowsTypeOK
<1>2. RowsTypeOK /\ RunsHaveOneAgent /\ IdsAreUnique /\ RunsAreThere /\ KeysAreUnique /\ EmptyBelow
    BY DEF RowsInv
<1>3. VersionsAreKept'
    BY <1>1 DEF VersionsAreKept, DB!UpgradedVersions
<1>4. EmptyBelow' /\ RunsHaveOneAgent'
    BY <1>1, <1>2 DEF EmptyBelow, RunsHaveOneAgent, DB!OneIsSet
<1>5. CASE revision # 3
  <2>1. baselines' = baselines
    BY <1>1, <1>5 DEF DB!UpgradedBaselines
  <2>2. RowsTypeOK' /\ IdsAreUnique'
    BY <1>1, <1>2, <2>1 DEF RowsTypeOK, IdsAreUnique
  <2>3. (revision >= 4) = (revision' >= 4)
    BY <1>1, <1>5
  <2>4. RunsAreThere'
    BY <1>1, <1>2, <2>1, <2>3 DEF RunsAreThere, Copies
  <2>5. KeysAreUnique'
    BY <1>1, <1>2, <2>1, <2>3 DEF KeysAreUnique, DB!IsUnique, DB!NewKey, DB!OldKey
  <2> QED
    BY <1>3, <1>4, <2>2, <2>4, <2>5 DEF RowsInv
<1>6. CASE revision = 3
  <2>1. baselines' = {DB!Backfilled(b) : b \in baselines}
    BY <1>1, <1>6 DEF DB!UpgradedBaselines
  <2>2. \A b \in baselines :
          /\ DB!Backfilled(b) \in BaselineRows
          /\ DB!Backfilled(b).id = b.id /\ DB!Backfilled(b).branch = b.branch
          /\ \E r \in runs : /\ r.id = DB!Backfilled(b).run
                             /\ DB!Backfilled(b).suite = r.suite
                             /\ DB!Backfilled(b).agent = r.agent
                             /\ DB!Backfilled(b).name = r.name
    BY <1>6, BackfilledIs
  <2>3. RowsTypeOK'
    BY <1>1, <1>2, <2>1, <2>2 DEF RowsTypeOK
  <2>4. IdsAreUnique'
    BY <1>1, <1>2, <2>1, <2>2 DEF IdsAreUnique
  <2>5. RunsAreThere'
    BY <1>1, <1>6, <2>1, <2>2 DEF RunsAreThere, Copies
  <2>6. KeysAreUnique'
    <3>1. \A b, o \in baselines : b.branch = o.branch => b = o
        BY <1>2, <1>6 DEF KeysAreUnique, DB!IsUnique, DB!OldKey
    <3>2. \A x, y \in baselines' : x.branch = y.branch => x = y
        BY <2>1, <2>2, <3>1
    <3> QED
        BY <1>1, <1>6, <3>2 DEF KeysAreUnique, DB!IsUnique, DB!NewKey
  <2> QED
    BY <1>3, <1>4, <2>3, <2>4, <2>5, <2>6 DEF RowsInv
<1> QED
    BY <1>5, <1>6

\* What is kept of the baselines on the way down has no two of a branch.
LEMMA KeptIsUnique ==
    ASSUME RowsInv
    PROVE  /\ DB!IsUnique(DB!Kept, DB!OldKey) /\ DB!Kept \subseteq DB!Registered
           /\ \A b \in DB!Registered : \E k \in DB!Kept : k.branch = b.branch
<1>1. \A b \in baselines : b.id \in Nat
    BY SchemaAssumption DEF RowsInv, RowsTypeOK, BaselineRows
<1>2. DB!Kept \subseteq DB!Registered /\ DB!Registered \subseteq baselines
    BY DEF DB!Kept, DB!Registered
<1>3. ASSUME NEW b \in DB!Kept, NEW o \in DB!Kept, b.branch = o.branch PROVE b = o
  <2>1. b.id <= o.id /\ o.id <= b.id
    BY <1>2, <1>3 DEF DB!Kept, DB!OldKey
  <2>2. b.id = o.id
    BY <1>1, <1>2, <2>1
  <2> QED
    BY <1>2, <2>2 DEF RowsInv, IdsAreUnique
<1>4. ASSUME NEW b \in DB!Registered PROVE \E k \in DB!Kept : k.branch = b.branch
  <2> DEFINE T == {o.id : o \in {o \in DB!Registered : o.branch = b.branch}}
  <2>1. T \subseteq Nat /\ T # {}
    BY <1>1, <1>2
  <2>2. PICK n \in T : \A m \in T : n <= m
    BY <2>1, Least
  <2>3. PICK k \in DB!Registered : k.branch = b.branch /\ k.id = n
    BY <2>2
  <2>4. \A o \in DB!Registered : o.branch = k.branch => k.id <= o.id
    BY <2>2, <2>3
  <2> QED
    BY <2>3, <2>4 DEF DB!Kept, DB!OldKey
<1> QED
    BY <1>2, <1>3, <1>4 DEF DB!IsUnique, DB!OldKey

LEMMA DowngradeRows == RowsInv /\ DB!Downgrade => RowsInv'
<1> SUFFICES ASSUME RowsInv, DB!Downgrade PROVE RowsInv'
    OBVIOUS
<1>1. /\ revision \in 1 .. 5 /\ revision' = revision - 1 /\ code' = revision - 1
      /\ version' = version
  <2>1. revision \in 0 .. 5
    BY DEF RowsInv, RowsTypeOK
  <2>2. /\ revision > 0 /\ revision' = revision - 1 /\ code' = revision - 1
        /\ version' = version
    BY DEF DB!Downgrade
  <2> QED
    BY <2>1, <2>2
<1>2. RowsTypeOK /\ RunsHaveOneAgent /\ IdsAreUnique /\ RunsAreThere /\ KeysAreUnique /\ EmptyBelow
    BY DEF RowsInv
<1>3. /\ keys' = (keys /\ revision # 1)
      /\ stranded' = /\ revision # 1
                     /\ stranded \/ (revision = 3 /\ runs # {}) \/ (revision = 2 /\ keys)
    BY DEF DB!Downgrade
<1>4. /\ revision = 1 => runs' = {} /\ baselines' = {}
      /\ revision = 4 => /\ runs' = {r \in runs : r.agent # None}
                         /\ baselines' = {DB!WithoutKey(b) : b \in DB!Kept}
      /\ revision # 1 /\ revision # 4 => runs' = runs /\ baselines' = baselines
  <2>1. ASSUME revision = 1 PROVE runs' = {} /\ baselines' = {}
    BY <2>1 DEF DB!Downgrade
  <2>2. ASSUME revision = 4
        PROVE  /\ runs' = {r \in runs : r.agent # None}
               /\ baselines' = {DB!WithoutKey(b) : b \in DB!Kept}
    BY <2>2 DEF DB!Downgrade
  <2>3. ASSUME revision # 1, revision # 4 PROVE runs' = runs /\ baselines' = baselines
    BY <2>3 DEF DB!Downgrade
  <2> QED
    BY <2>1, <2>2, <2>3
<1>5. runs' \subseteq runs
  <2>1. revision = 1 \/ revision = 4 \/ (revision # 1 /\ revision # 4)
    OBVIOUS
  <2> QED
    BY <1>4, <2>1
<1>6. IsFiniteSet(runs)'
    BY <1>2, <1>5, FS_Subset DEF RowsTypeOK
<1>7. VersionsAreKept' /\ RunsHaveOneAgent'
    BY <1>1, <1>2, <1>5 DEF VersionsAreKept, RunsHaveOneAgent, DB!OneIsSet
<1>8. EmptyBelow'
  <2>1. ASSUME revision = 1 PROVE keys' = FALSE /\ runs' = {}
    BY <1>3, <1>4, <2>1
  <2>2. ASSUME revision = 2, ~stranded' PROVE ~keys' /\ runs' = {}
    <3>1. ~keys /\ ~stranded
        BY <1>3, <2>2
    <3>2. runs = {}
        BY <1>2, <2>2, <3>1 DEF EmptyBelow
    <3> QED
        BY <1>3, <1>4, <2>2, <3>1, <3>2
  <2>3. ASSUME revision = 3, ~stranded' PROVE runs' = {}
    BY <1>3, <1>4, <2>3
  <2>4. /\ revision' = 0 => revision = 1
        /\ revision' < 2 => revision = 1 \/ revision = 2
        /\ revision' < 3 => revision = 1 \/ revision = 2 \/ revision = 3
    BY <1>1
  <2> QED
    BY <2>1, <2>2, <2>3, <2>4 DEF EmptyBelow
<1>9. RowsTypeOK' <=> baselines' \subseteq BaselineRows
  <2>1. revision' \in 0 .. 5 /\ code' \in 0 .. revision'
    BY <1>1
  <2>2. keys' \in BOOLEAN /\ stranded' \in BOOLEAN
    BY <1>3
  <2>3. runs' \subseteq RunRows /\ version' \in [Suites -> Nat]
    BY <1>1, <1>2, <1>5 DEF RowsTypeOK
  <2> QED
    BY <1>6, <2>1, <2>2, <2>3 DEF RowsTypeOK, BaselineRows, RunRows
<1>10. CASE revision = 1
  <2>1. runs' = {} /\ baselines' = {} /\ revision' = 0
    BY <1>1, <1>4, <1>10
  <2>2. IdsAreUnique' /\ RunsAreThere' /\ KeysAreUnique'
    BY <2>1 DEF IdsAreUnique, RunsAreThere, KeysAreUnique, DB!IsUnique
  <2> QED
    BY <1>7, <1>8, <1>9, <2>1, <2>2 DEF RowsInv
<1>11. CASE revision = 4
  <2>1. /\ runs' = {r \in runs : r.agent # None} /\ revision' = 3
        /\ baselines' = {DB!WithoutKey(b) : b \in DB!Kept}
    BY <1>1, <1>4, <1>11
  <2>2. ASSUME NEW b \in DB!Kept
        PROVE  /\ DB!WithoutKey(b) \in BaselineRows
               /\ DB!WithoutKey(b).id = b.id /\ DB!WithoutKey(b).branch = b.branch
               /\ DB!WithoutKey(b).suite = None /\ DB!WithoutKey(b).agent = None
               /\ DB!WithoutKey(b).name = None
               /\ \E r \in runs' : r.id = DB!WithoutKey(b).run
    <3>1. b \in baselines /\ b.agent # None /\ b \in BaselineRows
        BY <1>2 DEF DB!Kept, DB!Registered, RowsTypeOK
    <3>2. PICK r \in runs : r.id = b.run /\ b.agent = r.agent /\ b.name = r.name
        BY <1>2, <1>11, <3>1 DEF RunsAreThere, Copies
    <3>3. r \in runs' /\ r.name = None
        BY <1>2, <2>1, <3>1, <3>2 DEF RunsHaveOneAgent, DB!OneIsSet
    <3>4. DB!WithoutKey(b) \in BaselineRows
        BY <3>1 DEF BaselineRows, DB!WithoutKey
    <3>5. /\ DB!WithoutKey(b).id = b.id /\ DB!WithoutKey(b).branch = b.branch
          /\ DB!WithoutKey(b).run = b.run /\ DB!WithoutKey(b).suite = None
          /\ DB!WithoutKey(b).agent = None /\ DB!WithoutKey(b).name = b.name
        BY <3>1 DEF BaselineRows, DB!WithoutKey
    <3> QED
        BY <3>2, <3>3, <3>4, <3>5
  <2>3. \A b, o \in DB!Kept : (b.id = o.id \/ b.branch = o.branch) => b = o
    BY KeptIsUnique, <1>2 DEF DB!IsUnique, DB!OldKey, DB!Kept, DB!Registered, IdsAreUnique
  <2>4. baselines' = {DB!WithoutKey(b) : b \in DB!Kept}
    BY <2>1
  <2>5. \A x, y \in baselines' : (x.id = y.id \/ x.branch = y.branch) => x = y
    BY <2>2, <2>3, <2>4
  <2>6. RowsTypeOK' /\ IdsAreUnique'
    BY <1>2, <1>5, <1>9, <2>2, <2>4, <2>5 DEF IdsAreUnique
  <2>7. RunsAreThere'
    <3>1. ASSUME NEW c \in baselines' PROVE \E r \in runs' : r.id = c.run /\ Copies(c, r)'
      <4>1. PICK b \in DB!Kept : c = DB!WithoutKey(b)
        BY <2>4
      <4>2. ~(revision' >= 4)
        BY <2>1
      <4> QED
        BY <2>2, <4>1, <4>2 DEF Copies
    <3> QED
        BY <3>1 DEF RunsAreThere
  <2>8. KeysAreUnique'
    <3>1. \A r \in runs' : r.name = None
        BY <1>2, <2>1 DEF RunsHaveOneAgent, DB!OneIsSet
    <3>2. ~(revision' >= 4)
        BY <2>1
    <3> QED
        BY <2>5, <3>1, <3>2 DEF KeysAreUnique, DB!IsUnique, DB!OldKey
  <2> QED
    BY <1>7, <1>8, <2>6, <2>7, <2>8 DEF RowsInv
<1>12. CASE revision # 1 /\ revision # 4
  <2>1. runs' = runs /\ baselines' = baselines
    BY <1>4, <1>12
  <2>2. (revision >= 4) = (revision' >= 4)
    BY <1>1, <1>12
  <2>3. RowsTypeOK' /\ IdsAreUnique'
    BY <1>2, <1>9, <2>1 DEF RowsTypeOK, IdsAreUnique
  <2>4. RunsAreThere'
    BY <1>2, <2>1, <2>2 DEF RunsAreThere, Copies
  <2>5. KeysAreUnique'
    BY <1>2, <2>1, <2>2 DEF KeysAreUnique, DB!IsUnique, DB!NewKey, DB!OldKey
  <2> QED
    BY <1>7, <1>8, <2>3, <2>4, <2>5 DEF RowsInv
<1> QED
    BY <1>10, <1>11, <1>12

\* Fewer runs than ids leave an id.
LEMMA IdIsFree ==
    ASSUME RowsInv, Cardinality(runs) < MaxRuns
    PROVE  \E n \in 1 .. MaxRuns : \A r \in runs : r.id # n
<1> DEFINE ids == {r.id : r \in runs}
<1>1. IsFiniteSet(runs)
    BY DEF RowsInv, RowsTypeOK
<1>2. IsFiniteSet(ids) /\ Cardinality(ids) <= Cardinality(runs)
  <2> DEFINE f == [r \in runs |-> r.id]
  <2>1. f \in Surjection(runs, ids)
    BY DEF Surjection
  <2> QED
    BY <1>1, <2>1, FS_Surjection
<1>3. IsFiniteSet(1 .. MaxRuns) /\ Cardinality(1 .. MaxRuns) = MaxRuns
    BY SchemaAssumption, FS_Interval
<1>4. Cardinality(runs) \in Nat /\ Cardinality(ids) \in Nat /\ MaxRuns \in Nat
    BY <1>1, <1>2, FS_CardinalityType, SchemaAssumption
<1>5. ~(1 .. MaxRuns \subseteq ids)
  <2> HIDE DEF ids
  <2>1. 1 .. MaxRuns \subseteq ids => Cardinality(1 .. MaxRuns) <= Cardinality(ids)
    BY <1>2, FS_Subset
  <2> QED
    BY <1>2, <1>3, <1>4, <2>1
<1> QED
    BY <1>5

LEMMA InsertRunRows ==
    ASSUME RowsInv, NEW s \in Suites, NEW a \in Agents \cup {None}, NEW n \in Names \cup {None},
           (a = None) # (n = None), revision >= 3, revision < 4 => n = None,
           DB!InsertRun(s, a, n)
    PROVE  RowsInv'
<1>1. PICK id \in 1 .. MaxRuns :
        /\ \A r \in runs : r.id # id
        /\ runs' = runs \cup {[id |-> id, suite |-> s, agent |-> a, name |-> n]}
  <2>1. \E id \in 1 .. MaxRuns : \A r \in runs : r.id # id
    <3>1. Cardinality(runs) < MaxRuns
        BY DEF DB!InsertRun, DB!Cardinality, Cardinality
    <3> QED
        BY <3>1, IdIsFree
  <2> DEFINE id == CHOOSE m \in 1 .. MaxRuns : \A r \in runs : r.id # m
  <2>2. id \in 1 .. MaxRuns /\ \A r \in runs : r.id # id
    BY <2>1
  <2>3. runs' = runs \cup {[id |-> id, suite |-> s, agent |-> a, name |-> n]}
    BY DEF DB!InsertRun
  <2> QED
    BY <2>2, <2>3
<1>2. UNCHANGED <<revision, code, keys, baselines, version, versions, overtaken, stranded>>
    BY DEF DB!InsertRun
<1>3. RowsTypeOK /\ RunsHaveOneAgent /\ IdsAreUnique /\ RunsAreThere /\ KeysAreUnique
      /\ EmptyBelow /\ VersionsAreKept
    BY DEF RowsInv
<1> DEFINE new == [id |-> id, suite |-> s, agent |-> a, name |-> n]
<1>4. /\ new \in RunRows /\ new.id = id /\ new.name = n /\ DB!OneIsSet(new)
    BY DEF RunRows, DB!OneIsSet
<1>5. runs' = runs \cup {new}
    BY <1>1
<1> HIDE DEF new
<1>6. RowsTypeOK'
  <2>1. IsFiniteSet(runs')
    BY <1>3, <1>5, FS_AddElement DEF RowsTypeOK
  <2>2. runs' \subseteq RunRows
    BY <1>3, <1>4, <1>5 DEF RowsTypeOK
  <2> QED
    BY <1>2, <1>3, <2>1, <2>2 DEF RowsTypeOK, RunRows, BaselineRows
<1>7. RunsHaveOneAgent' /\ IdsAreUnique'
    BY <1>1, <1>2, <1>3, <1>4, <1>5 DEF RunsHaveOneAgent, IdsAreUnique, DB!OneIsSet
<1>8. RunsAreThere'
    BY <1>2, <1>3, <1>5 DEF RunsAreThere, Copies
<1>9. KeysAreUnique'
  <2>1. revision' = revision /\ revision \in 0 .. 5
    BY <1>2, <1>3 DEF RowsTypeOK
  <2>2. \A r \in runs' : revision < 4 => r.name = None
    BY <1>3, <1>4, <1>5, <2>1 DEF KeysAreUnique
  <2> QED
    BY <1>2, <1>3, <2>1, <2>2 DEF KeysAreUnique, DB!IsUnique, DB!NewKey, DB!OldKey
<1>10. EmptyBelow' /\ VersionsAreKept'
    BY <1>2, <1>3 DEF EmptyBelow, VersionsAreKept, RowsTypeOK
<1> QED
    BY <1>6, <1>7, <1>8, <1>9, <1>10 DEF RowsInv

LEMMA BaselineRowsChange ==
    ASSUME RowsInv, baselines' \subseteq BaselineRows,
           \A b, o \in baselines' : b.id = o.id => b = o,
           RunsAreThere',
           IF revision >= 4 THEN \A x, y \in baselines' : DB!NewKey(x) = DB!NewKey(y) => x = y
                            ELSE \A x, y \in baselines' : x.branch = y.branch => x = y,
           UNCHANGED <<revision, code, keys, runs, version, versions, overtaken, stranded>>
    PROVE  RowsInv'
<1>1. RowsTypeOK /\ RunsHaveOneAgent /\ IdsAreUnique /\ KeysAreUnique
      /\ EmptyBelow /\ VersionsAreKept
    BY DEF RowsInv
<1>2. RowsTypeOK'
    BY <1>1 DEF RowsTypeOK
<1>3. RunsHaveOneAgent' /\ IdsAreUnique'
    BY <1>1 DEF RunsHaveOneAgent, IdsAreUnique, DB!OneIsSet
<1>4. KeysAreUnique'
    BY <1>1 DEF KeysAreUnique, DB!IsUnique, DB!OldKey, DB!NewKey
<1>5. EmptyBelow' /\ VersionsAreKept'
    BY <1>1 DEF EmptyBelow, VersionsAreKept
<1> QED
    BY <1>2, <1>3, <1>4, <1>5 DEF RowsInv

LEMMA SetBaselineOldRows ==
    ASSUME RowsInv, NEW branch \in Branches, NEW q \in runs, DB!SetBaselineOld(branch, q)
    PROVE  RowsInv'
<1> DEFINE New(id) == [id |-> id, branch |-> branch, run |-> q.id,
                       suite |-> None, agent |-> None, name |-> None]
<1>1. PICK id \in DB!FreeIds :
        baselines' = {b \in baselines : b.branch # branch} \cup {New(id)}
    BY DEF DB!SetBaselineOld, DB!WriteBaseline
<1>2. revision = 3 /\ UNCHANGED <<revision, code, keys, runs, version, versions, overtaken, stranded>>
    BY DEF DB!SetBaselineOld, DB!WriteBaseline
<1>3. RowsTypeOK /\ IdsAreUnique /\ RunsAreThere /\ KeysAreUnique
    BY DEF RowsInv
<1>4. /\ New(id) \in BaselineRows /\ New(id).id = id /\ New(id).branch = branch
      /\ New(id).run = q.id
      /\ New(id).suite = None /\ New(id).agent = None /\ New(id).name = None
    BY <1>3 DEF RowsTypeOK, RunRows, BaselineRows, DB!FreeIds
<1> HIDE DEF New
<1>5. \A b \in baselines : b.id # id
    BY DEF DB!FreeIds
<1>6. baselines' \subseteq BaselineRows
    BY <1>1, <1>3, <1>4 DEF RowsTypeOK
<1>7. \A b, o \in baselines' : b.id = o.id => b = o
    BY <1>1, <1>3, <1>4, <1>5 DEF IdsAreUnique
<1>8. \A b, o \in baselines : b.branch = o.branch => b = o
    BY <1>2, <1>3 DEF KeysAreUnique, DB!IsUnique, DB!OldKey
<1>9. \A b, o \in baselines' : b.branch = o.branch => b = o
    BY <1>1, <1>4, <1>8
<1>10. RunsAreThere'
    BY <1>1, <1>2, <1>3, <1>4 DEF RunsAreThere, Copies
<1> QED
    BY <1>2, <1>6, <1>7, <1>9, <1>10, BaselineRowsChange

LEMMA SetBaselineRows ==
    ASSUME RowsInv, NEW branch \in Branches, NEW q \in runs, DB!SetBaseline(branch, q)
    PROVE  RowsInv'
<1> DEFINE New(id) == [id |-> id, branch |-> branch, run |-> q.id,
                       suite |-> q.suite, agent |-> q.agent, name |-> q.name]
<1>1. PICK id \in DB!FreeIds : baselines' = DB!Upserted(baselines, New(id))
    BY DEF DB!SetBaseline, DB!WriteBaseline
<1>2. UNCHANGED <<revision, code, keys, runs, version, versions, overtaken, stranded>>
    BY DEF DB!SetBaseline, DB!WriteBaseline
<1>3. RowsTypeOK /\ IdsAreUnique /\ RunsAreThere /\ KeysAreUnique
    BY DEF RowsInv
<1>4. revision >= 4
  <2>1. code >= 4 /\ revision \in 0 .. 5 /\ code \in 0 .. revision
    BY <1>3 DEF DB!SetBaseline, RowsTypeOK
  <2> QED
    BY <2>1
<1> DEFINE row == New(id)
<1>5. /\ row \in BaselineRows /\ row.id = id /\ row.branch = branch /\ row.run = q.id
      /\ row.suite = q.suite /\ row.agent = q.agent /\ row.name = q.name
    BY <1>3 DEF RowsTypeOK, RunRows, BaselineRows, DB!FreeIds
<1>6. baselines' = DB!Upserted(baselines, row)
    BY <1>1
<1> HIDE DEF row, New
<1>7. \A b \in baselines : b.id # id
    BY DEF DB!FreeIds
<1>8. \A b, o \in baselines : DB!NewKey(b) = DB!NewKey(o) => b = o
    BY <1>3, <1>4 DEF KeysAreUnique, DB!IsUnique
<1> DEFINE Updated(b) == [b EXCEPT !.run = row.run]
<1>9. ASSUME NEW b \in baselines, DB!NewKey(b) = DB!NewKey(row)
      PROVE  /\ Updated(b) \in BaselineRows /\ Updated(b).id = b.id
             /\ DB!NewKey(Updated(b)) = DB!NewKey(b)
             /\ Updated(b).run = q.id /\ Updated(b).suite = q.suite
             /\ Updated(b).agent = q.agent /\ Updated(b).name = q.name
  <2>1. b \in BaselineRows
    BY <1>3 DEF RowsTypeOK
  <2>2. Updated(b) \in BaselineRows
    BY <1>5, <2>1 DEF BaselineRows
  <2>3. /\ Updated(b).id = b.id /\ Updated(b).branch = b.branch /\ Updated(b).run = q.id
        /\ Updated(b).suite = b.suite /\ Updated(b).agent = b.agent /\ Updated(b).name = b.name
    BY <1>5, <2>1 DEF BaselineRows
  <2>4. b.suite = row.suite /\ b.agent = row.agent /\ b.name = row.name
    BY <1>9 DEF DB!NewKey
  <2> QED
    BY <1>5, <2>2, <2>3, <2>4 DEF DB!NewKey
<1>10. CASE ~\E b \in baselines : DB!NewKey(b) = DB!NewKey(row)
  <2>1. baselines' = baselines \cup {row}
    BY <1>6, <1>10 DEF DB!Upserted
  <2>2. baselines' \subseteq BaselineRows
    BY <1>3, <1>5, <2>1 DEF RowsTypeOK
  <2>3. \A b, o \in baselines' : b.id = o.id => b = o
    BY <1>3, <1>5, <1>7, <2>1 DEF IdsAreUnique
  <2>4. \A b, o \in baselines' : DB!NewKey(b) = DB!NewKey(o) => b = o
    BY <1>8, <1>10, <2>1
  <2>5. RunsAreThere'
    BY <1>2, <1>3, <1>4, <1>5, <2>1 DEF RunsAreThere, Copies
  <2> QED
    BY <1>2, <1>4, <2>2, <2>3, <2>4, <2>5, BaselineRowsChange
<1>11. CASE \E b \in baselines : DB!NewKey(b) = DB!NewKey(row)
  <2> DEFINE Result(b) == IF DB!NewKey(b) = DB!NewKey(row) THEN Updated(b) ELSE b
  <2>1. baselines' = {Result(b) : b \in baselines}
    BY <1>6, <1>11 DEF DB!Upserted
  <2>2. ASSUME NEW b \in baselines
        PROVE  /\ Result(b) \in BaselineRows /\ Result(b).id = b.id
               /\ DB!NewKey(Result(b)) = DB!NewKey(b)
               /\ \E r \in runs : r.id = Result(b).run /\ Copies(Result(b), r)
    <3>1. CASE DB!NewKey(b) = DB!NewKey(row)
        BY <1>4, <1>9, <3>1 DEF Copies
    <3>2. CASE DB!NewKey(b) # DB!NewKey(row)
        BY <1>3, <3>2 DEF RunsAreThere, RowsTypeOK
    <3> QED
        BY <3>1, <3>2
  <2> HIDE DEF Result
  <2>3. baselines' \subseteq BaselineRows
    BY <2>1, <2>2
  <2>4. \A b, o \in baselines' : b.id = o.id => b = o
    BY <1>3, <2>1, <2>2 DEF IdsAreUnique
  <2>5. \A b, o \in baselines' : DB!NewKey(b) = DB!NewKey(o) => b = o
    BY <1>8, <2>1, <2>2
  <2>6. RunsAreThere'
    BY <1>2, <2>1, <2>2 DEF RunsAreThere, Copies
  <2> QED
    BY <1>2, <1>4, <2>3, <2>4, <2>5, <2>6, BaselineRowsChange
<1> QED
    BY <1>10, <1>11

LEMMA DeleteAgentRows ==
    ASSUME RowsInv, NEW a \in Agents, DB!DeleteAgent(a)
    PROVE  RowsInv'
<1>1. /\ runs' = {r \in runs : r.agent # a}
      /\ baselines' = {b \in baselines : \E r \in runs' : r.id = b.run}
      /\ UNCHANGED <<revision, code, keys, version, versions, overtaken, stranded>>
    BY DEF DB!DeleteAgent
<1>2. RowsTypeOK /\ RunsHaveOneAgent /\ IdsAreUnique /\ RunsAreThere /\ KeysAreUnique
      /\ EmptyBelow /\ VersionsAreKept
    BY DEF RowsInv
<1>3. runs' \subseteq runs /\ baselines' \subseteq baselines
    BY <1>1
<1>4. RowsTypeOK'
  <2>1. IsFiniteSet(runs')
    BY <1>2, <1>3, FS_Subset DEF RowsTypeOK
  <2> QED
    BY <1>1, <1>2, <1>3, <2>1 DEF RowsTypeOK
<1>5. RunsHaveOneAgent' /\ IdsAreUnique'
    BY <1>2, <1>3 DEF RunsHaveOneAgent, IdsAreUnique, DB!OneIsSet
<1>6. RunsAreThere'
  <2> SUFFICES ASSUME NEW b \in baselines' PROVE \E r \in runs' : r.id = b.run /\ Copies(b, r)'
    BY DEF RunsAreThere
  <2>1. PICK r \in runs' : r.id = b.run
    BY <1>1
  <2>2. PICK q \in runs : q.id = b.run /\ Copies(b, q)
    BY <1>2, <1>3 DEF RunsAreThere
  <2>3. q = r
    BY <1>2, <1>3, <2>1, <2>2 DEF IdsAreUnique
  <2> QED
    BY <1>1, <2>1, <2>2, <2>3 DEF Copies
<1>7. KeysAreUnique'
    BY <1>1, <1>2, <1>3 DEF KeysAreUnique, DB!IsUnique, DB!NewKey, DB!OldKey
<1>8. EmptyBelow' /\ VersionsAreKept'
    BY <1>1, <1>2, <1>3 DEF EmptyBelow, VersionsAreKept
<1> QED
    BY <1>4, <1>5, <1>6, <1>7, <1>8 DEF RowsInv

LEMMA UpdateSuiteRows ==
    ASSUME RowsInv, NEW s \in Suites, DB!UpdateSuite(s)
    PROVE  RowsInv'
<1>1. RowsTypeOK /\ RunsHaveOneAgent /\ IdsAreUnique /\ RunsAreThere /\ KeysAreUnique
      /\ EmptyBelow /\ VersionsAreKept
    BY DEF RowsInv
<1>2. /\ version' = [version EXCEPT ![s] = @ + 1]
      /\ UNCHANGED <<revision, code, keys, runs, baselines, stranded>>
    BY DEF DB!UpdateSuite
<1>3. version' \in [Suites -> Nat]
    BY <1>1, <1>2 DEF RowsTypeOK
<1>4. RowsTypeOK'
    BY <1>1, <1>2, <1>3 DEF RowsTypeOK
<1>5. RunsHaveOneAgent' /\ IdsAreUnique' /\ RunsAreThere' /\ KeysAreUnique' /\ EmptyBelow'
    BY <1>1, <1>2 DEF RunsHaveOneAgent, IdsAreUnique, DB!OneIsSet, RunsAreThere, Copies,
                      KeysAreUnique, DB!IsUnique, DB!NewKey, DB!OldKey, EmptyBelow
<1>6. VersionsAreKept'
  <2> SUFFICES ASSUME revision = 5, NEW t \in Suites, t \notin overtaken'
               PROVE  <<t, version'[t]>> \in versions'
    BY <1>2 DEF VersionsAreKept
  <2>1. t # s => version'[t] = version[t]
    BY <1>1, <1>2 DEF RowsTypeOK
  <2>2. version'[s] = version[s] + 1
    BY <1>1, <1>2 DEF RowsTypeOK
  <2>3. CASE code = 5
    <3>1. versions' = versions \cup {<<s, version[s] + 1>>} /\ overtaken' = overtaken \ {s}
        BY <2>3 DEF DB!UpdateSuite
    <3> QED
        BY <1>1, <2>1, <2>2, <3>1 DEF VersionsAreKept
  <2>4. CASE code # 5
    <3>1. versions' = versions /\ overtaken' = overtaken \cup {s}
        BY <2>4 DEF DB!UpdateSuite
    <3> QED
        BY <1>1, <2>1, <3>1 DEF VersionsAreKept
  <2> QED
    BY <2>3, <2>4
<1> QED
    BY <1>4, <1>5, <1>6 DEF RowsInv

LEMMA OthersRows ==
    ASSUME RowsInv, DB!CreateApiKey \/ DB!Deploy \/ UNCHANGED DB!vars
    PROVE  RowsInv'
<1>1. RowsTypeOK /\ RunsHaveOneAgent /\ IdsAreUnique /\ RunsAreThere /\ KeysAreUnique
      /\ EmptyBelow /\ VersionsAreKept
    BY DEF RowsInv
<1>2. UNCHANGED <<revision, runs, baselines, version, versions, overtaken, stranded>>
    BY DEF DB!CreateApiKey, DB!Deploy, DB!vars, DB!rows
<1>3. /\ code' \in 0 .. revision
      /\ (keys' = keys \/ (keys' = TRUE /\ revision >= 2))
  <2>1. code \in 0 .. revision /\ revision \in 0 .. 5
    BY <1>1 DEF RowsTypeOK
  <2>2. CASE DB!CreateApiKey
    <3>1. keys' = TRUE /\ code' = code /\ code >= 2
        BY <2>2 DEF DB!CreateApiKey
    <3>2. revision >= 2 /\ code' \in 0 .. revision
        BY <2>1, <3>1
    <3> QED
        BY <3>1, <3>2
  <2>3. CASE DB!Deploy
    BY <2>1, <2>3 DEF DB!Deploy, DB!rows
  <2>4. CASE UNCHANGED DB!vars
    BY <2>1, <2>4 DEF DB!vars
  <2> QED
    BY <2>2, <2>3, <2>4
<1>4. RowsTypeOK'
  <2>1. keys' \in BOOLEAN
    BY <1>1, <1>3 DEF RowsTypeOK
  <2> QED
    BY <1>1, <1>2, <1>3, <2>1 DEF RowsTypeOK
<1>5. RunsHaveOneAgent' /\ IdsAreUnique' /\ RunsAreThere' /\ KeysAreUnique'
    BY <1>1, <1>2 DEF RunsHaveOneAgent, IdsAreUnique, DB!OneIsSet, RunsAreThere, Copies,
                      KeysAreUnique, DB!IsUnique, DB!NewKey, DB!OldKey
<1>6. EmptyBelow'
  <2>1. revision \in 0 .. 5
    BY <1>1 DEF RowsTypeOK
  <2>2. CASE keys' = keys
    BY <1>1, <1>2, <2>2 DEF EmptyBelow
  <2>3. CASE revision >= 2
    BY <1>1, <1>2, <2>1, <2>3 DEF EmptyBelow
  <2> QED
    BY <1>3, <2>2, <2>3
<1>7. VersionsAreKept'
    BY <1>1, <1>2 DEF VersionsAreKept
<1> QED
    BY <1>4, <1>5, <1>6, <1>7 DEF RowsInv

LEMMA RowsNext == RowsInv /\ [DB!Next]_(DB!vars) => RowsInv'
<1> SUFFICES ASSUME RowsInv, [DB!Next]_(DB!vars) PROVE RowsInv'
    OBVIOUS
<1>1. /\ None \notin Suites \cup Agents \cup Names
      /\ revision \in 0 .. 5 /\ code \in 0 .. revision
    BY SchemaAssumption DEF RowsInv, RowsTypeOK
<1>2. ASSUME NEW s \in Suites, NEW a \in Agents, DB!StartRun(s, a) PROVE RowsInv'
  <2>1. revision >= 3
    BY <1>1, <1>2 DEF DB!StartRun
  <2> QED
    BY <1>1, <1>2, <2>1, InsertRunRows DEF DB!StartRun
<1>3. ASSUME NEW s \in Suites, NEW n \in Names, DB!PushRun(s, n) PROVE RowsInv'
  <2>1. revision >= 4
    BY <1>1, <1>3 DEF DB!PushRun
  <2> QED
    BY <1>1, <1>3, <2>1, InsertRunRows DEF DB!PushRun
<1>4. CASE DB!ApiStep
    BY <1>2, <1>3, <1>4, OthersRows, SetBaselineOldRows, SetBaselineRows, UpdateSuiteRows,
       DeleteAgentRows DEF DB!ApiStep
<1> QED
    BY <1>4, UpgradeRows, DowngradeRows, OthersRows DEF DB!Next

LEMMA KeysAgree == RowsInv => DB!CopiesAgree
<1> SUFFICES ASSUME RowsInv PROVE DB!CopiesAgree
    OBVIOUS
<1>1. ASSUME revision >= 4, NEW b \in baselines
      PROVE  LET q == DB!RunOf(b)
             IN  b.suite = q.suite /\ b.agent = q.agent /\ b.name = q.name
  <2>1. PICK r \in runs : r.id = b.run /\ Copies(b, r)
    BY DEF RowsInv, RunsAreThere
  <2>2. DB!RunOf(b) = r
    BY <2>1, RunOfIs DEF RowsInv
  <2> QED
    BY <1>1, <2>1, <2>2 DEF Copies
<1> QED
    BY <1>1 DEF DB!CopiesAgree, RowsInv, KeysAreUnique, VersionsAreKept


(* The schema is what the revisions leave, so what is found of them on the *)
(* way up holds wherever a database stands.                                *)

SchemaInv == RowsInv /\ schema = Left[revision]

LEMMA SchemaNext == SchemaInv /\ [DB!Next]_(DB!vars) => SchemaInv'
<1> SUFFICES ASSUME SchemaInv, [DB!Next]_(DB!vars) PROVE SchemaInv'
    OBVIOUS
<1>1. RowsInv'
    BY RowsNext DEF SchemaInv
<1>2. revision \in 0 .. 5 /\ DB!Newest = 5 /\ schema = Left[revision]
    BY DEF SchemaInv, RowsInv, RowsTypeOK, DB!Newest
<1>3. CASE DB!Upgrade
  <2>1. revision + 1 \in 1 .. 5 /\ revision' = revision + 1 /\ (revision + 1) - 1 = revision
        /\ schema' = DB!Upgraded(revision + 1, schema)
    BY <1>2, <1>3 DEF DB!Upgrade
  <2>2. Left[revision + 1] = DB!Upgraded(revision + 1, Left[revision])
    BY <1>2, <2>1, RevisionsFit
  <2> QED
    BY <1>1, <1>2, <2>1, <2>2 DEF SchemaInv
<1>4. CASE DB!Downgrade
  <2>1. revision \in 1 .. 5 /\ revision' = revision - 1
        /\ schema' = DB!Downgraded(revision, schema)
    BY <1>2, <1>4 DEF DB!Downgrade
  <2>2. DB!Downgraded(revision, Left[revision]) = Left[revision - 1]
    BY <1>2, <2>1, RevisionsFit
  <2> QED
    BY <1>1, <1>2, <2>1, <2>2 DEF SchemaInv
<1>5. CASE ~DB!Upgrade /\ ~DB!Downgrade
  <2>1. UNCHANGED <<revision, schema>>
    BY <1>5 DEF DB!Next, DB!Deploy, DB!ApiStep, DB!CreateApiKey, DB!StartRun,
           DB!PushRun, DB!InsertRun,
                DB!SetBaselineOld, DB!SetBaseline, DB!WriteBaseline, DB!UpdateSuite, DB!DeleteAgent,
                DB!vars
  <2> QED
    BY <1>1, <1>2, <2>1 DEF SchemaInv
<1> QED
    BY <1>3, <1>4, <1>5

\* The invariant holds at every revision and between every upgrade and deploy.
THEOREM SchemaInvariance == SchemaSpec => []SchemaInv
<1>1. DB!Init => SchemaInv
    BY RowsInit, RevisionsFit DEF DB!Init, SchemaInv
<1> QED
    BY <1>1, SchemaNext, PTL DEF SchemaSpec, DB!Spec

\* However its rows came about and its revisions were taken, nothing that the
\* database keeps twice has two values.
THEOREM AgreementCorrect == SchemaSpec => []SchemaAgrees
<1>1. SchemaInv => SchemaAgrees
  <2> SUFFICES ASSUME SchemaInv PROVE DB!HeadIsModels /\ DB!CopiesAgree
    BY DEF SchemaAgrees, DB!SchemaAgrees
  <2>1. DB!HeadIsModels
    BY RevisionsFit DEF SchemaInv, DB!HeadIsModels
  <2> QED
    BY <2>1, KeysAgree DEF SchemaInv
<1> QED
    BY <1>1, SchemaInvariance, PTL

\* The rows fit the constraints that 0004 puts on them.
LEMMA RowsFit ==
    ASSUME RowsInv, revision = 3
    PROVE  /\ \A b \in DB!UpgradedBaselines(4) : b.suite # None /\ DB!OneIsSet(b)
           /\ \A q \in runs : DB!OneIsSet(q)
           /\ DB!IsUnique(DB!UpgradedBaselines(4), DB!NewKey)
<1>1. DB!UpgradedBaselines(4) = {DB!Backfilled(b) : b \in baselines}
    BY DEF DB!UpgradedBaselines
<1>2. \A q \in runs : DB!OneIsSet(q) /\ q.suite # None
    BY SchemaAssumption DEF RowsInv, RunsHaveOneAgent, RowsTypeOK, RunRows
<1>3. \A b \in baselines : DB!Backfilled(b).suite # None /\ DB!OneIsSet(DB!Backfilled(b))
    BY <1>2, BackfilledIs DEF DB!OneIsSet
<1>4. \A b, o \in baselines : DB!Backfilled(b).branch = DB!Backfilled(o).branch => b = o
  <2>1. \A b, o \in baselines : b.branch = o.branch => b = o
    BY DEF RowsInv, KeysAreUnique, DB!IsUnique, DB!OldKey
  <2> QED
    BY <2>1, BackfilledIs
<1>5. \A x, y \in DB!UpgradedBaselines(4) : DB!NewKey(x) = DB!NewKey(y) => x = y
  <2>1. \A x, y \in DB!UpgradedBaselines(4) : x.branch = y.branch => x = y
    BY <1>1, <1>4
  <2> QED
    BY <2>1 DEF DB!NewKey
<1> QED
    BY <1>1, <1>2, <1>3, <1>5 DEF DB!IsUnique

\* For any suites, agents, names, branches and rows: no revision is refused in
\* either direction, except on the way up from below the rows it supposes absent.
THEOREM MigrationsCorrect == SchemaSpec => []MigrationsApply
<1>1. SchemaInv => MigrationsApply
  <2> SUFFICES ASSUME SchemaInv PROVE MigrationsApply
    OBVIOUS
  <2>1. revision \in 0 .. 5 /\ DB!Newest = 5 /\ schema = Left[revision] /\ RowsInv
    BY DEF SchemaInv, RowsInv, RowsTypeOK, DB!Newest
  <2>2. ASSUME revision < 5, ~stranded PROVE DB!AcceptsUpgrade(revision + 1)
    <3> DEFINE r == revision + 1
    <3>1. r \in 1 .. 5 /\ r - 1 = revision
        BY <2>1, <2>2
    <3>2. /\ DB!Upgraded(r, schema) = Left[r] /\ DB!HasTargets(Left[r])
          /\ DB!Upgraded(r, {}) \cap schema \subseteq DB!Nullable("runs", {"agent_id"})
          /\ \A i \in DB!Unfilled(schema, Left[r]) :
                /\ DB!Table(i) = "api_keys" => r <= 2
                /\ DB!Table(i) \in DB!OfRuns => r <= 3
        BY <2>1, <3>1, RevisionsFit
    <3>3. (r <= 2 => ~keys) /\ (r <= 3 => runs = {})
        BY <2>1, <2>2 DEF RowsInv, EmptyBelow
    <3>4. \A i \in DB!Unfilled(schema, Left[r]) : ~DB!NonEmpty(DB!Table(i))
        BY <3>2, <3>3 DEF DB!NonEmpty
    <3>5. r = 4 => /\ \A b \in DB!UpgradedBaselines(4) : b.suite # None /\ DB!OneIsSet(b)
                   /\ \A q \in runs : DB!OneIsSet(q)
                   /\ DB!IsUnique(DB!UpgradedBaselines(4), DB!NewKey)
        BY <2>1, <3>1, RowsFit
    <3> HIDE DEF r
    <3>6. DB!AcceptsUpgrade(r)
        BY <3>2, <3>4, <3>5 DEF DB!AcceptsUpgrade
    <3> QED
        BY <3>6 DEF r
  <2>3. ASSUME revision > 0 PROVE DB!AcceptsDowngrade(revision)
    <3>1. revision \in 1 .. 5
        BY <2>1, <2>3
    <3>2. DB!Downgraded(revision, schema) # DB!Refused
        BY <2>1, <3>1, RevisionsFit
    <3> QED
        BY <2>1, <3>2, KeptIsUnique DEF DB!AcceptsDowngrade
  <2> QED
    BY <2>1, <2>2, <2>3 DEF MigrationsApply, DB!MigrationsApply
<1> QED
    BY <1>1, SchemaInvariance, PTL

\* Of a branch's baselines the downgrade keeps the one with the lowest id.
THEOREM DowngradeCorrect == SchemaSpec => DowngradeKeepsABaseline
<1>1. SchemaInv /\ [DB!Next]_(DB!vars) =>
        [\A branch \in Branches :
            /\ revision' = 3 /\ revision = 4 /\ \E b \in DB!Registered : b.branch = branch
            => \E b \in baselines' : b.branch = branch]_(DB!vars)
  <2> SUFFICES ASSUME SchemaInv, DB!Next, NEW branch \in Branches, revision' = 3, revision = 4,
                      NEW b \in DB!Registered, b.branch = branch
               PROVE  \E c \in baselines' : c.branch = branch
    OBVIOUS
  <2>1. DB!Downgrade
    BY DEF DB!Next, DB!Upgrade, DB!Deploy, DB!ApiStep, DB!CreateApiKey, DB!StartRun,
           DB!PushRun, DB!InsertRun,
           DB!SetBaselineOld, DB!SetBaseline, DB!WriteBaseline, DB!UpdateSuite, DB!DeleteAgent
  <2>2. baselines' = {DB!WithoutKey(k) : k \in DB!Kept}
    BY <2>1 DEF DB!Downgrade
  <2>3. PICK k \in DB!Kept : k.branch = b.branch
    BY KeptIsUnique DEF SchemaInv
  <2>4. k \in BaselineRows
    BY DEF DB!Kept, DB!Registered, SchemaInv, RowsInv, RowsTypeOK
  <2>5. DB!WithoutKey(k).branch = k.branch
    BY <2>4 DEF DB!WithoutKey, BaselineRows
  <2> QED
    BY <2>2, <2>3, <2>5
<1> QED
    BY <1>1, SchemaInvariance, PTL
    DEF SchemaSpec, DB!Spec, DowngradeKeepsABaseline, DB!DowngradeKeepsABaseline
=============================================================================
